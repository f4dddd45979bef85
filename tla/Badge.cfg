SPECIFICATION Spec
CONSTANTS
  p1 = p1
  p2 = p2
  Prompts <- TwoPrompts
  MaxChunks = 3
  MaxTouches = 3
  Cap = 1
SYMMETRY Symmetry
CHECK_DEADLOCK FALSE
INVARIANTS
  BadgeTrue
  Released
  PromptOnBadge
