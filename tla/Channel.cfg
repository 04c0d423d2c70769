CONSTANTS
  r2 = r2
  r3 = r3
  Senders = {s1, s2}
  Receivers = {r1, r2, r3}
  Null = Null
  Capacities = {0, 1, 2}
  Rounds <- Four
  Homes <- Shared
SPECIFICATION FairSpec
CHECK_DEADLOCK FALSE
INVARIANTS
  ItemsInOrder
  NoLostWakeup
PROPERTY EveryOperationCompletes
