SPECIFICATION Spec
CONSTANTS
  ByteBase = 4
  MaxInt = 16
  TreeDepth = 2
  Voter = {"v1", "v2"}
  Ballot = {"b1", "b2"}
  Option = {"o1", "o5"}
  SlotOf <- Slot
  Amount <- Amounts
  CollateralAmount = 2
  Modes <- ModesOf
  Locks <- SomeLocks
  Order <- LeafOrder
  StartHeight = 1
  CloseHeight = 10
  MaxVoters = 3
  ThresholdNum = 2
  ThresholdDen = 3
INVARIANTS
  CoinsAreWhereTheSdkLooks
  SdkSpendsAreAccepted
  ListedOptionsCanBeVoted
  LayerRunsWhatWasAsked
CHECK_DEADLOCK FALSE
