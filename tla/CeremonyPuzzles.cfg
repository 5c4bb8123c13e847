SPECIFICATION Spec
CONSTANTS
  ByteBase = 4
  MaxInt = 16
  Contribution <- SomeContributions
  Seal <- SomeSeals
  Ceremonies <- FewOrMany
  DefaultMaxVoters = 3
  FunderAmount = {1, 2, 3}
  Order <- LeafOrder
  MaxHeight = 3
  MaxSigned = 2
  MaxContributions = 3
  MaxBatch = 2
  MaxElections = 2
  MaxForged = 1
INVARIANTS
  ReaderRebuildsTheCeremony
  CeremonyBundlesAreAccepted
CHECK_DEADLOCK FALSE
