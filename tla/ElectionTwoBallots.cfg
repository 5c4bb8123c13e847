SPECIFICATION Spec
CONSTANTS
  v1 = v1
  b1 = b1
  b2 = b2
  yes = yes
  s1 = s1
  NoLock = NoLock
  NoVoter = NoVoter
  NoOutcome = NoOutcome
  Voter = {v1}
  Ballot = {b1, b2}
  Outcome = {yes}
  Slot = {s1}
  SlotOf <- OneSlot
  Amount = {1, 2}
  Stake = {1}
  CollateralAmount = 2
  OptionSets <- BothModes
  VoteModeLock = NoLock
  Threshold <- TwoThirds
  Snapshot <- OtherSnapshot
  MaxHeight = 1
  MaxRegistrations = 1
INVARIANTS
  TypeOK
  
PROPERTIES
  ReleasedCoinIsSpent
  LaunchedBallotIsFixed
CHECK_DEADLOCK FALSE
SYMMETRY BallotSymmetry
