CONSTANTS
  c1 = c1
  c2 = c2
  k1 = k1
  None = None
  Ctx = {c1, c2}
  Coros = {k1, k2}
  SwapCapacity = 2
  Setups <- Programs
SPECIFICATION FairSpec
CHECK_DEADLOCK FALSE
INVARIANTS
  HandleInOnePlace
  ReapAccounting
PROPERTIES
  StopsOnlyWhenDrained
  EmptyOnlyIfCareless
  EveryTaskFinishes
  ContextStops
