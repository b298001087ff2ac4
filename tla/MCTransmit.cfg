CONSTANTS
  MaxBuf = 4
  SockBuf = 2
  Lens <- MCLens
  MaxSends = 4
  MaxInput = 2
SPECIFICATION FairSpec
INVARIANTS
  TypeOK
  BufferIsBounded
  StreamIsWhole
PROPERTIES
  CutShortOnce
  BufferedIsSent
CHECK_DEADLOCK FALSE
