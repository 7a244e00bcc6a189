SPECIFICATION Spec
CONSTANTS
  c1 = c1
  c2 = c2
  Conn = {c1, c2}
  None = None
  OutSize = 2
  BroadcastSize = 1
  MaxLines <- OnlyOneSends
  MayHang = {c1}
  MayClose = TRUE
CHECK_DEADLOCK FALSE
INVARIANTS
  Ordered
  ClosedAll
  
