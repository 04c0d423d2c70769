CONSTANTS
  Coros = {a, b, c}
  Null = Null
  NotLocked = NotLocked
SPECIFICATION FairSpec
INVARIANTS
  MutualExclusion
  WaiterLinkedOnce
PROPERTIES
  ImplementsFifoLock
  WaiterEventuallyOwns
