SPECIFICATION FairSpec
CONSTANTS
  MaxChunks = 2
  RingCap = 1
  DataCap = 1
  MaxDrops = 1
  MaxRestarts = 1
  MaxTakeovers = 1
  Exposed <- Anytime
  SaveFails = TRUE
  Slow = TRUE
CHECK_DEADLOCK FALSE
 
PROPERTY CallEnds
