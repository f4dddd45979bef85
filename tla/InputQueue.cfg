SPECIFICATION QueueFairSpec
CONSTANTS
  c1 = c1
  c2 = c2
  NoConn = NoConn
  NoInput = NoInput
  Conns <- TwoConns
  QueueCap = 2
  Sizes <- SmallAndLarge
  MaxInputs = 3
CHECK_DEADLOCK FALSE
INVARIANT QueueCounted
PROPERTIES
  NeverStalls
  ExitDrains
