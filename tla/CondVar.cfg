CONSTANTS
  ctx = ctx
  n = n
  m = m
  nullptr = nullptr
  Waiters = {a, b, c, d}
  Notifiers = {n, m}
  Setups <- Safe
SPECIFICATION CvSpec
SYMMETRY Symmetry
INVARIANTS
  OneNotifierLosesNone
  NoStaleAwaiter
  LockHeldOnResume
