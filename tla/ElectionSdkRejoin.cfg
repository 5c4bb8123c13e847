SPECIFICATION SdkSpec
CONSTANTS
  v1 = v1
  v2 = v2
  b1 = b1
  yes = yes
  no = no
  s1 = s1
  s2 = s2
  NoVoter = NoVoter
  NoOutcome = NoOutcome
  NoLock = NoLock
  Issuer = issuer
  Aggregator = aggregator
  Voter = {v1}
  Ballot = {b1}
  Outcome = {yes, no}
  Slot = {s1}
  SlotOf <- OneSlot
  Amount = {1, 2}
  Stake = {1}
  CollateralAmount = 1
  OptionSets <- WithOptions
  VoteModeLock = NoLock
  Threshold <- Unanimous
  Snapshot = {}
  WordSize = 6
  FieldOrder = 37
  MaxHeight = 2
  MaxRegistrations = 2
INVARIANTS
  BuiltBundlesAreAccepted
  NothingStranded
  CountedVotesWerePaidFor
PROPERTIES
  VotesFrozenAtClose
CHECK_DEADLOCK FALSE
