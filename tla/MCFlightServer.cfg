SPECIFICATION FlightSpec
CONSTANTS
  Server = {s1, s2}
  Request <- LastSeat
  User = {u1, u2}
  Flight = {f1}
  u1 = u1
  u2 = u2
  f1 = f1
  None = None
  SameDecoded = TRUE
  MaxSlot = 4
  MaxRestarts = 1
SYMMETRY Servers
CHECK_DEADLOCK FALSE
INVARIANTS
  
  RealTimeOrder
  RefusedNeverExecuted
  SeatsAddUp
  CanceledNotReturned
