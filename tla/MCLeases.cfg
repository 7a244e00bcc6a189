SPECIFICATION FairSpec
CONSTANTS
  a = a
  Client = {a}
  Reader = {r1, r2}
  Writer = {w1, w2}
  Home <- SameHome
  KindOf <- Values
  Kind = {"value"}
  None = None
  MaxTime = 3
  MayCrash = {a}
  LeaseSeconds = 1
  LeaseGuardSeconds = 1
CHECK_DEADLOCK FALSE
INVARIANTS
  Fresh
PROPERTIES
  PutEnds
  GetEnds
