CONSTANTS
  Conns = {c1, c2}
  NoConn = NoConn
  NWork = 2
  NFd = 4
  QCap = 2
  MaxMsgs = 2
  MaxDrops = 2
SPECIFICATION Spec
INVARIANTS
  TypeOK
  TableMatchesKernel
  SessionsFollowMaster
  RefusalNeedsLostClose
  CrossingNeedsTwoLosses
  ListenersStayUntilFailure
PROPERTY CrossesOnlyWhenOver
SYMMETRY ConnSymmetry
