SPECIFICATION Spec
CONSTANTS
  c1 = c1
  c2 = c2
  s1 = s1
  s2 = s2
  s3 = s3
  NoStream = NoStream
  NoConn = NoConn
  Conns <- TwoConns
  Streams <- TwoStreams
  RingCap = 1
  Chunk = 1
  CtrlCap = 1
  DataCap = 1
  MaxBytes = 1
  MaxDrops = 0
  MaxNotes = 0
CHECK_DEADLOCK FALSE
SYMMETRY Symmetry
INVARIANT AttacherOwnsStream
VIEW Unobserved
