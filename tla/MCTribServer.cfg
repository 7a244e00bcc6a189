SPECIFICATION Spec
CONSTANTS
  a = a
  b = b
  User = {a, b}
  Handler = {h1, h2}
  Calls <- MCCalls
  Cap = 1
  MaxCalls = 5
  MaxFail = 1
  MaxNow = 2
SYMMETRY Sym
CHECK_DEADLOCK FALSE
INVARIANTS
  SubscribersExist
  PostsKept
  RecentSeen
  RepliesReal
