SPECIFICATION FanFairSpec
CONSTANTS
  c1 = c1
  c2 = c2
  c3 = c3
  Conns <- TwoConns
  MaxOutput = 2
  Cap = 1
CHECK_DEADLOCK FALSE
INVARIANTS
  Seamless
  InUse
PROPERTY HandlersEnd
