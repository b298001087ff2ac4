CONSTANTS
  Master = TRUE
  MaxBuf = 5
  HdrLen = 2
  Lens <- MCLens
  MaxMsgs = 3
  MaxOut = 3
SPECIFICATION FairSpec
INVARIANTS
  TypeOK
  BufferIsStream
  MessagesWhole
  NothingForgotten
PROPERTIES
  EmptyOnlyWhenFull
  MessagesArePassed
  EndIsNoticed
