------------------------- MODULE MCOffchainCeremony -------------------------
(* Three participants that contribute once each, in any order; nothing tells *)
(* them apart.                                                               *)
EXTENDS OffchainCeremony, TLC

ParticipantSymmetry == Permutations(Participant)

==============================================================================
