SPECIFICATION FairSpec
CONSTANTS
  Client = {"c1", "c2"}
  Miner = {m1, m2}
  Upper <- TwoRanges
  Sends <- AskAgain
  Steady = {m1}
  Max = 7
  Hash <- SomeHash
  Threshold = 2
  Nil = Nil
  Absent = Absent
CHECK_DEADLOCK FALSE
INVARIANTS
  JobsAccounted
  ResultIsMinimum
PROPERTY
  EveryRequestAnswered
