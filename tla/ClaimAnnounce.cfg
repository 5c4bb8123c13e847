SPECIFICATION Spec
CONSTANTS
  ByteBase = 4
  MaxInt = 16
  TreeDepth = 2
  Voter = {"v1"}
  Ballot = {"b1"}
  Option = {"o1", "o5"}
  SlotOf <- Slot
  Amount <- Amounts
  CollateralAmount = 2
  Modes <- ModesOf
  Locks <- SomeLocks
  Order <- LeafOrder
  StartHeight = 1
  CloseHeight = 10
  MaxVoters = 3
  ThresholdNum = 2
  ThresholdDen = 3
INVARIANT DecidedBallotsCanBeAnnounced
CHECK_DEADLOCK FALSE
