SPECIFICATION FairSpec
CONSTANTS
  h1 = h1
  h2 = h2
  c1 = c1
  c2 = c2
  VkSeed = VkSeed
  AsSeal = AsSeal
  AsNothing = AsNothing
  ForeignKey = ForeignKey
  NoKey = NoKey
  Hash = {VkSeed, h1, h2}
  Client = {c1, c2}
  Start = 1
  Length = 2
  MinParticipants = 2
  MaxHeight = 4
  MaxActions = 2
  MaxContributions = 4
INVARIANTS
  TypeOK
  ContributionsFormOneChain
  WalkMatchesState
PROPERTIES
  ImplementsTranscript
  EnoughIsSealed
CHECK_DEADLOCK FALSE
