---------------------------- MODULE MCCeremonyPuzzles ---------------------------
(***************************************************************************)
(* Bytes below 4, so that 2 and 3 set the first bit of a byte (the window, *)
(* the second contribution, a ceremony for three voters) and 9 needs two.  *)
(***************************************************************************)
EXTENDS CeremonyPuzzles

FewOrMany == {[start |-> 1, length |-> 2, minimum |-> 1, maxVoters |-> 3],
              [start |-> 1, length |-> 2, minimum |-> 2, maxVoters |-> 9]}

\* As the SDK makes them, and two whose solutions anyone may make: a payload
\* that is a pair for a contribution already signed, and a short hash.
First32 == [pk |-> <<"bytes48", "p1">>, hash |-> Hash32("h1"),
            entropy |-> Atom(Text("entropy", "h1")), payload |-> Atom(Text("payload", "h1"))]
Second32 == [pk |-> <<"bytes48", "p2">>, hash |-> Hash32("h2"),
             entropy |-> Atom(Text("entropy", "h2")), payload |-> Atom(Text("payload", "h2"))]
SomeContributions ==
  {First32, Second32,
   [Second32 EXCEPT !.payload = Pair(Nil, Nil)], [First32 EXCEPT !.hash = Text("hash", "short")]}

\* As the SDK makes it, and one with bytes that go on like a contribution.
SomeSeals ==
  {[vk |-> Hash32("k1"), root |-> Hash32("markers"), bytes |-> Atom(Text("vk", "k1"))],
   [vk |-> <<"bytes48", "k2">>, root |-> Hash32("markers"),
    bytes |-> Pair(Atom(Hash32("prev")), Pair(Nil, Nil))]}

\* Finalize sorts first, though the code lists it last.
LeafOrder == [name \in {"contribute", "finalize"} |-> IF name = "finalize" THEN 1 ELSE 2]
=============================================================================
