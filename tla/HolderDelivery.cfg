SPECIFICATION FairSpec
CONSTANTS
  c1 = c1
  c2 = c2
  s1 = s1
  s2 = s2
  s3 = s3
  NoStream = NoStream
  NoConn = NoConn
  Conns <- OneConn
  Streams <- OneStream
  RingCap = 1
  Chunk = 1
  CtrlCap = 1
  DataCap = 1
  MaxBytes = 2
  MaxDrops = 1
  MaxNotes = 1
CHECK_DEADLOCK FALSE
INVARIANTS
  OutputIntact
  ExitedAfterFlush
  SilentAfterCancel
PROPERTIES
  OutputReachesClient
  ExitIsReported
