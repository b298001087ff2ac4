CONSTANTS
  MaxBuf = 4
  SockBuf = 2
  Lens <- MCLens
  MaxSends = 4
  MaxInput = 2
SPECIFICATION Spec
INVARIANT NoByteTwice
CHECK_DEADLOCK FALSE
