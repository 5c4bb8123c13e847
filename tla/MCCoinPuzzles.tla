----------------------------- MODULE MCCoinPuzzles -----------------------------
(***************************************************************************)
(* Two voters at the two ends of the tree, two ballots in its last pair of *)
(* slots, and amounts that set the first bit of a byte (2) and whose sum   *)
(* needs another byte (2 + 6 with bytes below 4).  The second ballot may   *)
(* restrict its options to a list whose tree is padded on two levels.      *)
(***************************************************************************)
EXTENDS CoinPuzzles

Slot == [x \in Voter \cup Ballot |->
           CASE x = "v1" -> 0
             [] x = "b1" -> 2
             [] x \in {"v2", "b2"} -> 3]

Amounts == [v \in Voter |-> IF v = "v1" THEN {2} ELSE {6}]

FiveOptions == <<"o1", "o2", "o3", "o4", "o5">>
ModesOf == [b \in Ballot |-> IF b = "b1" THEN {<<>>} ELSE {<<>>, FiveOptions}]
SomeLocks == {NoLock, VoteOptionsRoot(FiveOptions)}

\* Neither the order in which the code lists its actions nor its reverse.
LeafOrder ==
  [name \in {"register", "create_ballot", "deregister", "mint_voting_coin", "release",
             "finalize", "oracle", "announce_finalization"} |->
     CASE name \in {"register", "oracle", "mint_voting_coin"} -> 2
       [] name \in {"deregister", "finalize", "release"} -> 1
       [] OTHER -> 3]
=============================================================================
