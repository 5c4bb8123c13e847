SPECIFICATION Spec
CONSTANTS
  b1 = b1
  b2 = b2
  b3 = b3
  Ballot = {b1, b2, b3}
  Foreign = {b3}
  Params = {p1}
  Outcome = {yes}
  Reader = {r1}
  MaxHeight = 6
  All = All
  NoBallot = NoBallot
  NoMemo = NoMemo
  NoOutcome = NoOutcome
SYMMETRY Alike
INVARIANTS
  ListingsAreComplete
  SnapshotsAreRegular
CHECK_DEADLOCK FALSE
