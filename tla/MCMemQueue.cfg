CONSTANTS
  QLen = 11
  MHead = 1
  BHead = 2
  Lens <- MCLens
  MaxPush = 5
SPECIFICATION FairSpec
INVARIANTS
  TypeOK
  IInv
  WritesFreeBytes
PROPERTIES
  ImplementsChannel
  QueueIsRead
  PushReturns
