CONSTANTS
  ctx = ctx
  None = None
  k1 = k1
  k2 = k2
  k3 = k3
  k4 = k4
  Coros = {k1, k2, k3, k4}
  Homes <- OneOrOwnContext
  Desired = 1
  Updates = {1, 2}
  MaxPermits = 3
SPECIFICATION FairSpec
CHECK_DEADLOCK FALSE
INVARIANTS
  PermitsRespected
  NoLostPermit
  OneThreadFindsAwaiter
PROPERTY WaiterEventuallyHolds
