SPECIFICATION SdkFairSpec
CONSTANTS
  v1 = v1
  v2 = v2
  b1 = b1
  yes = yes
  no = no
  s1 = s1
  s2 = s2
  NoVoter = NoVoter
  NoOutcome = NoOutcome
  NoLock = NoLock
  Issuer = issuer
  Aggregator = aggregator
  Voter = {v1, v2}
  Ballot = {b1}
  Outcome = {yes}
  Slot = {s1, s2}
  SlotOf <- TwoSlots
  Amount = {1}
  Stake = {1}
  CollateralAmount = 1
  OptionSets <- NoOptions
  VoteModeLock = NoLock
  Threshold <- SeveralShares
  Snapshot = {}
  WordSize = 6
  FieldOrder = 37
  MaxHeight = 1
  MaxRegistrations = 1
INVARIANTS
  SdkTypeOK
  BuiltBundlesAreAccepted
  FreshDraftsMatchChain
PROPERTIES
  RipeBallotsAreDecided
  ImplementsOffice
CHECK_DEADLOCK FALSE
