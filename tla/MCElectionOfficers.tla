-------------------------- MODULE MCElectionOfficers --------------------------
(* An instance of ElectionOfficers small enough for TLC. *)
EXTENDS ElectionOfficers, TLC

CONSTANTS v1, v2, v3, b1, yes, no, s1, s2

\* v2 and v3 hash to one slot.
SharedSlot == v1 :> s1 @@ v2 :> s2 @@ v3 :> s2

TwoThirds == {[num |-> 2, den |-> 3]}
FreeMode == {{}}

\* The two voters of one slot and the outcomes are alike.
SharedSlotSymmetry == Permutations({v2, v3}) \cup Permutations({yes, no})
==============================================================================
