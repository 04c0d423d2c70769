CONSTANTS
  Tasks = {m, f1, f2}
  Main = m
  NoTask = NoTask
  Gens = {g1, g2, g3}
  NoGen = NoGen
  Values = {v1, v2}
  BlockSize = 16
  FnSize = 8
  OneGen = {g1}
  Setups <- Programs
SPECIFICATION Spec
CHECK_DEADLOCK FALSE
INVARIANTS
  FramesOwned
  ResumesTheRight
  TopIsInnermost
  FrameBlocksFit
PROPERTIES
  GenExceptionKept
