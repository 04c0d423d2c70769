CONSTANTS
  ctx = ctx
  n = n
  m = m
  nullptr = nullptr
  Waiters = {a, b, c, d}
  Notifiers = {n, m}
  Setups <- Racing
SPECIFICATION CvSpec
SYMMETRY Symmetry
INVARIANT NoWaiterLost
