CONSTANTS
  Threads = {t1, t2}
  Sources = {s1, s2}
  Tokens = {k1}
  Callbacks = {b1, b2, b3}
  Creator = s1
  Null = Null
  MaxCount = 2
  Setups <- Programs
SPECIFICATION FairSpec
CHECK_DEADLOCK FALSE
INVARIANTS
  ListSound
  NoDanglingUse
  StopRunsAll
PROPERTIES
  CallsReturn
