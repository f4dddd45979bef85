SPECIFICATION Holder
CONSTANTS
  a = a
  b = b
  c = c
  x1 = x1
  x2 = x2
  x3 = x3
  l1 = l1
  l2 = l2
  None = None
  Ids <- ThreeIds
  Sessions <- ThreeSessions
  Launches <- TwoLaunches
  Capacities <- SmallAndLarge
  MemoryLimit = 3
  ThreadsFail = TRUE
  MaxTick = 4
  Holders <- ThreeIds
  MaxMoves = 1
SYMMETRY Symmetry
CHECK_DEADLOCK FALSE
INVARIANTS
  Accounted
  LiveReachable
  OneChildPerId
  Alone
  NotFooled
  AtHome
