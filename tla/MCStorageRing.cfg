SPECIFICATION RingFairSpec
CONSTANTS
  Host = {m, s1, s2}
  Master = m
  Lib = {l1}
  numNodes = 2
  Id = {1, 3}
  Hash = {0, 1, 2, 3, 4}
  None = None
  MaxTries = 2
  Restartable = {s1}
  MaxRestarts = 1
CHECK_DEADLOCK FALSE
INVARIANTS
  RingsAgree
  OnlyRoutedAccepts
PROPERTIES
  RingForms
