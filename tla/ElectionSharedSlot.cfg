SPECIFICATION OfficeSpec
CONSTANTS
  v1 = v1
  v2 = v2
  v3 = v3
  b1 = b1
  yes = yes
  no = no
  s1 = s1
  s2 = s2
  NoLock = NoLock
  NoVoter = NoVoter
  NoOutcome = NoOutcome
  Voter = {v1, v2, v3}
  Ballot = {b1}
  Outcome = {yes, no}
  Slot = {s1, s2}
  SlotOf <- SharedSlot
  Amount = {1, 2}
  Stake = {1}
  CollateralAmount = 1
  OptionSets <- FreeMode
  VoteModeLock = NoLock
  Threshold <- TwoThirds
  Snapshot = {}
  MaxHeight = 1
  MaxRegistrations = 0
INVARIANTS
  
  OutcomeHasQuorum
  RivalOutcomesShareASigner
PROPERTIES
  ImplementsDecision
CHECK_DEADLOCK FALSE
SYMMETRY SharedSlotSymmetry
