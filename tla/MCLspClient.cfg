SPECIFICATION FairSpec
CONSTANTS
  Capacity = 2
  EpochLimit = 2
  MaxPackets = 4
  MaxPending = 2
  EpochLag = 2
CHECK_DEADLOCK FALSE
INVARIANTS
  CloseVerdict
PROPERTIES
  ReadReturnsWhileOpen
  CloseReturns
