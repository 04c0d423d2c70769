CONSTANTS
  Word = 8
  capacity = 4
  Items = {1, 2}
  is_blocking = TRUE
SPECIFICATION CursorSpec
INVARIANTS
  SizeIsExact
  SlotsInOrder
  NoMissedWakeup
