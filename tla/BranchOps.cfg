SPECIFICATION Spec
CONSTANTS
  o1 = o1
  o2 = o2
  a = a
  b = b
  Ops <- TwoOps
  Sources <- TwoSources
  MaxEdits = 2
  MaxSteps = 2
CHECK_DEADLOCK FALSE
SYMMETRY Symmetry
INVARIANTS
  OkMeansDone
  NothingLeftBehind
PROPERTY UserWorkKept
