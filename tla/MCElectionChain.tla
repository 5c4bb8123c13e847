--------------------------- MODULE MCElectionChain ---------------------------
(* An instance of ElectionChain small enough for TLC. *)
EXTENDS ElectionChain, TLC

CONSTANTS v1, b1, b2, yes, s1

\* A single voter.
OneSlot == v1 :> s1

TwoThirds == {[num |-> 2, den |-> 3]}
BothModes == {{}, {yes}}

\* A launcher may curry what no state of the election ever was.
OtherSnapshot == {[tree |-> [s \in {s1} |-> [pk |-> v1, locked |-> 1]],
                   total |-> 5]}

\* Ballots are alike: the mode of one is chosen when it is launched.
BallotSymmetry == Permutations({b1, b2})
==============================================================================
