CONSTANTS
  Participant = {p1, p2, p3}
  MaxDraws = 1
  MaxDamages = 2
  Flip = Flip
  NoTranscript = NoTranscript
  Torn = Torn
SPECIFICATION Spec
SYMMETRY ParticipantSymmetry
INVARIANTS
  OneKeyPerCoordinator
  SavedRoundsAreKept
PROPERTIES
  AcceptedRoundsOnlyExtend
  AcceptedRoundsReplay
CHECK_DEADLOCK FALSE
