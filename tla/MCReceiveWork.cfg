CONSTANTS
  Master = FALSE
  MaxBuf = 5
  HdrLen = 2
  Lens <- MCLens
  MaxMsgs = 3
  MaxOut = 3
SPECIFICATION FairSpec
PROPERTY ListedIsRead
CHECK_DEADLOCK FALSE
