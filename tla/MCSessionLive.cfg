CONSTANTS
  Conns = {c1, c2}
  NoConn = NoConn
  NWork = 1
  NFd = 3
  QCap = 2
  MaxMsgs = 1
  MaxDrops = 2
SPECIFICATION FairSpec
PROPERTIES
  HangupIsNoticed
  SessionsEnd
  AskedIsClosed
