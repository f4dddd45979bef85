SPECIFICATION FairSpec
CONSTANTS
  MaxChunks = 2
  RingCap = 2
  DataCap = 1
  MaxDrops = 2
  MaxRestarts = 1
  MaxTakeovers = 0
  Exposed <- Settled
  SaveFails = FALSE
  Slow = FALSE
CHECK_DEADLOCK FALSE
INVARIANT ColdStitch
PROPERTIES
  FeedSpec
  OutputShown
  ExitSeen
