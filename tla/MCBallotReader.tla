---------------------------- MODULE MCBallotReader ----------------------------
(* Instances of BallotReader small enough for TLC. *)
EXTENDS BallotReader, TLC

CONSTANTS b1, b2, b3

\* The election's own ballots.
Alike == Permutations(Ballot \ Foreign)
==============================================================================
