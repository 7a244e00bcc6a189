SPECIFICATION FairSpec
CONSTANTS
  Client = {h1, h2}
  EpochLimit = 2
  MaxConn = 2
  MaxData = 2
  MaxPending = 1
  MaxReads = 2
CHECK_DEADLOCK FALSE
INVARIANTS
  MapsAgree
  CloseOkMeansAcked
PROPERTIES
  DataBeforeLoss
  CloseReturnsForActive
