SPECIFICATION AdminSpec
CONSTANTS
  Host = {1, 2, 3}
  LastSlot = 1
  NoOp = NoOp
  Nil = Nil
  MaxNow = 2
  Clusters <- TwoAndThree
INVARIANTS
  
  CaughtUp
  OneList
  UnlockedAtEnd
CHECK_DEADLOCK FALSE
