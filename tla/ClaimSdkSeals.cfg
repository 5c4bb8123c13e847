SPECIFICATION SdkSpec
CONSTANTS
  ByteBase = 4
  MaxInt = 4
  Contribution <- OneContribution
  Seal <- SomeSeals
  Ceremonies <- SmallCeremony
  DefaultMaxVoters = 3
  FunderAmount = {4}
  Order <- LeafOrder
  MaxHeight = 1
  MaxSigned = 1
  MaxContributions = 1
  MaxBatch = 1
  MaxElections = 0
  MaxForged = 0
PROPERTIES
  SdkSealsTheCeremony
CHECK_DEADLOCK FALSE
