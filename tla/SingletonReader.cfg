SPECIFICATION FairSpec
CONSTANTS
  v1 = v1
  v2 = v2
  r1 = r1
  NoVoter = NoVoter
  NoAct = NoAct
  Voter = {v1, v2}
  Amount = {1, 2}
  CollateralAmount = 1
  Reader = {r1}
  Combine = FALSE
  MaxCoins = 4
  MaxAttempts = 2
INVARIANTS
  ReadsAreLineageStates
  ReadsAreRecent
PROPERTIES
  ErrorsOnlyUnderLag
  ReadsEnd
CHECK_DEADLOCK FALSE
