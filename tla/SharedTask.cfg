CONSTANTS
  ctx = ctx
  Awaiters = {a, b, c}
  Creator = a
  Null = Null
  NotStarted = NotStarted
  Ready = Ready
  Setups <- Kept
SPECIFICATION FairSpec
CHECK_DEADLOCK FALSE
INVARIANTS
  ReadersSeeResult
  NoWaiterForgotten
PROPERTIES
  NotDestroyedMidway
  AwaitCompletes
