CONSTANTS
  QLen = 11
  MHead = 1
  BHead = 2
  Lens <- MCLens
  MaxPush = 4
SPECIFICATION Spec
INVARIANT
  AcceptedIsQueued
