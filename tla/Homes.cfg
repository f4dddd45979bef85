SPECIFICATION Spec
CONSTANTS
  s1 = s1
  s2 = s2
  Sessions <- Two
  MaxMoves = 2
SYMMETRY Alike
CHECK_DEADLOCK FALSE
INVARIANTS
  UserKept
  
  HomeKept
  Reclaimed
