CONSTANTS
  ctx = ctx
  None = None
  k1 = k1
  k2 = k2
  k3 = k3
  k4 = k4
  Coros = {k1, k2}
  Homes <- OwnContext
  Desired = 1
  Updates = {1}
  MaxPermits = 2
SPECIFICATION Spec
CHECK_DEADLOCK FALSE
INVARIANT ReleaseFindsAwaiter
