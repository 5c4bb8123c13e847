----------------------------- MODULE MCElectionSdk -----------------------------
(* Instances of ElectionSdk small enough for TLC. *)
EXTENDS ElectionSdk, TLC

CONSTANTS v1, v2, b1, yes, no, s1, s2

OneSlot == v1 :> s1
TwoSlots == v1 :> s1 @@ v2 :> s2
Majority == {[num |-> 1, den |-> 2]}
SeveralShares == {[num |-> 1, den |-> 2], [num |-> 2, den |-> 3]}
Unanimous == {[num |-> 1, den |-> 1]}
NoOptions == {{}}
WithOptions == {{}, {yes}}
==============================================================================
