SPECIFICATION RecoverySpec
CONSTANTS
  N = 3
  Call = {1, 2}
  Host <- OneHost
  Value = {"v1", "v2"}
  Input <- TwoValues
  Nil = Nil
  Clock <- Clocks
  Limit = 6
  MaxRound <- OneRound
  MaxRestarts = 1
INVARIANTS
  AgreementAcrossRestarts
CHECK_DEADLOCK FALSE
