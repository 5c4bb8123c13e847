---------------------------------- MODULE Clvm ----------------------------------
(***************************************************************************)
(* Programs and values as the chain and the SDK identify them: by a tree   *)
(* hash.  A hash is a term here, so two hashes are equal exactly when they *)
(* were built the same way.  The module also has the action layer, which   *)
(* checks that the actions it is asked to run are leaves of a tree, and    *)
(* the SDK functions that lay out that tree and write its solution.        *)
(***************************************************************************)
EXTENDS Naturals, SequencesExt

CONSTANTS
  ByteBase,   \* bound: values of a byte; the upper half carry the sign
  MaxInt      \* bound: the largest integer a coin's state holds

ASSUME ClvmAssumption == ByteBase \in {2 * k : k \in 1 .. 128} /\ MaxInt \in Nat \ {0}

----------------------------------------------------------------------------
(* Hashes.  Every term is a tuple that starts with a tag.                   *)

Mod(name) == <<"mod", name>>
Name(x) == <<"name", x>>
Atom(a) == <<"atom", a>>
Pair(l, r) == <<"pair", l, r>>
Sha(l, r) == <<"sha", l, r>>
Curry(mod, args) == <<"curry", mod, args>>

\* What a running program finds in its i-th curried argument.
CurriedArg(puzzle, i) == puzzle[3][i][2]

----------------------------------------------------------------------------
(* Integers as atoms.                                                       *)

Bytes == 0 .. ByteBase - 1
HasSign(byte) == byte >= ByteBase \div 2

BigEndian[n \in Nat] ==
  IF n = 0 THEN <<>> ELSE Append(BigEndian[n \div ByteBase], n % ByteBase)

\* Fault: no zero byte in front of a value whose first byte has the sign bit.
UintAtom_fault(n) == Atom(<<"bytes", BigEndian[n]>>)

\* The SDK's own encoder: the bytes of n without leading zeros, and one zero
\* byte where the first would read as a sign.
UintAtom(n) ==
  Atom(<<"bytes", IF n > 0 /\ HasSign(BigEndian[n][1])
                  THEN <<0>> \o BigEndian[n]
                  ELSE BigEndian[n]>>)

\* Another encoder of the SDK, for the scalars of a proof: without the zero byte.
ScalarAtom(n) == Atom(<<"bytes", BigEndian[n]>>)

Unsigned(s) ==
  LET value[k \in 0 .. Len(s)] == IF k = 0 THEN 0 ELSE value[k - 1] * ByteBase + s[k]
  IN  value[Len(s)]

\* s reads as n, which is not negative, in two's complement.
Denotes(s, n) ==
  (s # <<>> => ~HasSign(s[1])) /\ Unsigned(s) = n

CanonicalBytes ==
  LET Strings == BoundedSeq(Bytes, Len(BigEndian[MaxInt]) + 1)
  IN  [n \in 0 .. MaxInt |->
         CHOOSE s \in Strings :
           /\ Denotes(s, n)
           /\ \A t \in Strings : Denotes(t, n) => Len(s) <= Len(t)]

\* The atom a program produces for n: the shortest that reads back as n.
ClvmInt(n) == Atom(<<"bytes", CanonicalBytes[n]>>)

Nil == Atom(<<"bytes", <<>>>>)
Bool(b) == IF b THEN Atom(<<"bytes", <<1>>>>) ELSE Nil

----------------------------------------------------------------------------
(* The tree of a coin's actions.                                            *)

ModName(puzzle) == IF puzzle[1] = "mod" THEN puzzle[2] ELSE puzzle[2][2]

\* The order of the leaves' hashes as byte strings, which no program chooses.
SortedLeaves(actions, order) ==
  CHOOSE l \in [1 .. Cardinality(actions) -> actions] :
    \A i, j \in DOMAIN l : i < j => order[ModName(l[i])] < order[ModName(l[j])]

\* Fault: the third leaf is paired with the second.
ActionRoot3_fault(l) == Pair(Atom(l[1]), Pair(Atom(l[2]), Atom(l[3])))

ActionRoot3(l) == Pair(Pair(Atom(l[1]), Atom(l[2])), Atom(l[3]))
ActionRoot2(l) == Pair(Atom(l[1]), Atom(l[2]))
ActionRoot1(l) == Atom(l[1])

\* The library's tree, which the proofs come from: the left half is the larger.
LeftHalf(n) == (n + 1) \div 2
RightHalf(n) == n \div 2

\* The subtrees of n leaves, by how many leaves come before them.
Subtrees(l) ==
  LET root[n \in 1 .. Len(l)] ==
        [before \in 0 .. Len(l) - n |->
           IF n = 1 THEN Atom(l[before + 1])
           ELSE Pair(root[LeftHalf(n)][before], root[RightHalf(n)][before + LeftHalf(n)])]
  IN  root

\* The proof of leaf i of the subtree of n leaves: the siblings from the leaf
\* up, with the bits of its path, one for each that is on the left.
Proofs(l) ==
  LET Then(proof, bit, hash) == [path   |-> Append(proof.path, bit),
                                 hashes |-> Append(proof.hashes, hash)]
      proof[n \in 1 .. Len(l)] ==
        [before \in 0 .. Len(l) - n |-> [i \in 1 .. n |->
           IF n = 1 THEN [path |-> <<>>, hashes |-> <<>>]
           ELSE IF i <= LeftHalf(n)
                THEN Then(proof[LeftHalf(n)][before][i], 0,
                          Subtrees(l)[RightHalf(n)][before + LeftHalf(n)])
                ELSE Then(proof[RightHalf(n)][before + LeftHalf(n)][i - LeftHalf(n)], 1,
                          Subtrees(l)[LeftHalf(n)][before])]]
  IN  proof

TreeRoot(l) == Subtrees(l)[Len(l)][0]
TreeProof(l, i) == Proofs(l)[Len(l)][0][i]

FollowProof(node, proof) ==
  LET reached[k \in 0 .. Len(proof.hashes)] ==
        IF k = 0 THEN node
        ELSE IF proof.path[k] = 1 THEN Pair(proof.hashes[k], reached[k - 1])
                                  ELSE Pair(reached[k - 1], proof.hashes[k])
  IN  reached[Len(proof.hashes)]

\* The root that an action's hash and a proof lead to.
SimplifyMerkleProof(puzzle, proof) == FollowProof(Atom(puzzle), proof)

----------------------------------------------------------------------------
(* The action layer.  A request is [puzzle, solution].                      *)

\* The environment path of the i-th distinct puzzle: 2, 5, 11, ...
Selector[i \in Nat \ {0}] == IF i = 1 THEN 2 ELSE 2 * Selector[i - 1] + 1

\* What a path selects from a list: rest for a one bit, first for a zero.
PathIndex[path \in Nat] == IF path % 2 = 1 THEN PathIndex[path \div 2] + 1 ELSE 1
Select(path, list) == list[PathIndex[path]]

\* Puzzles in the order they are first asked for.
DistinctPuzzles(asked) ==
  LET seen[k \in 0 .. Len(asked)] ==
        IF k = 0 THEN <<>>
        ELSE IF Contains(seen[k - 1], asked[k].puzzle) THEN seen[k - 1]
             ELSE Append(seen[k - 1], asked[k].puzzle)
  IN  seen[Len(asked)]

\* Fault: the proof goes with the first use of a puzzle, as if the layer read
\* the list in the order it runs it.
ProofGoesWith_fault(asked, i) ==
  \A j \in 1 .. i - 1 : asked[j].puzzle # asked[i].puzzle

\* The proof of a puzzle goes with its last use.
ProofGoesWith(asked, i) ==
  \A j \in i + 1 .. Len(asked) : asked[j].puzzle # asked[i].puzzle

IndexOf(x, seq) == SelectInSeq(seq, LAMBDA y : y = x)

\* The layer's solution for a list of requests: each distinct puzzle once, the
\* selectors from the last request to the first, and at most one proof each.
LayerSolution(leaves, asked) ==
  LET puzzles == DistinctPuzzles(asked)
      entry(a, i) == [selector |-> Selector[IndexOf(a.puzzle, puzzles)],
                      proof    |-> IF ProofGoesWith(asked, i)
                                   THEN <<TreeProof(leaves, IndexOf(a.puzzle, leaves))>>
                                   ELSE <<>>]
  IN  [puzzles   |-> puzzles,
       proofs    |-> Reverse([i \in DOMAIN asked |-> entry(asked[i], i)]),
       solutions |-> [i \in DOMAIN asked |-> asked[i].solution]]

\* The layer's check of one entry, given the selectors already checked.
ValidSelector(root, puzzles, checked, e) ==
  IF e.proof = <<>> THEN Contains(checked, e.selector)
  ELSE SimplifyMerkleProof(Select(e.selector, puzzles), e.proof[1]) = root

Rejected == <<>>

\* What the layer runs for a solution: the selected puzzles, the last entry
\* first, each with the next solution; nothing if one entry is not valid.
RunLayer(root, solution) ==
  LET n == Len(solution.proofs)
      checked(k) == [i \in 1 .. k |-> solution.proofs[k + 1 - i].selector]
  IN  IF \E k \in 1 .. n : ~ValidSelector(root, solution.puzzles, checked(k - 1), solution.proofs[k])
      THEN Rejected
      ELSE [i \in 1 .. n |-> [puzzle   |-> Select(checked(n)[i], solution.puzzles),
                              solution |-> solution.solutions[i]]]

----------------------------------------------------------------------------
(* A singleton whose inner puzzle is the action layer.                      *)

ActionLayer == Mod("action_layer")
SingletonMod == Mod("singleton")
LauncherPh == Mod("launcher")

SingletonOuter(id, inner) ==
  Curry(SingletonMod, <<Pair(Atom(SingletonMod), Pair(Atom(id), Atom(LauncherPh))), inner>>)
SingletonInner(outer) == outer[3][2]

\* A singleton accepts a spend only with its parent's inner puzzle hash; its
\* first coin has the launcher for a parent.
Launcher == "launcher"

\* A finalizer curries the layer and a hint first, then its own hash.
FinalizerFull(name, hint) ==
  LET first == Curry(Mod(name), <<Atom(ActionLayer), Atom(hint)>>)
  IN  Curry(first, <<Atom(first)>>)

LayerPuzzle(finalizer, root, stateHash) ==
  Curry(ActionLayer, <<finalizer, Atom(root), stateHash>>)

\* A running finalizer's CREATE_COIN: the action layer over the finalizer
\* itself, the same action root and the new state.
Recreate(inner, stateHash) ==
  LET finalizer == inner[3][1]
      self  == CurriedArg(finalizer, 1)
      layer == CurriedArg(finalizer[2], 1)
  IN  Curry(layer, <<Curry(self, <<Atom(self)>>), Atom(CurriedArg(inner, 2)), stateHash>>)

\* A coin runs an action if the layer's check accepts its proof.
Runs(inner, leaves, action) ==
  RunLayer(CurriedArg(inner, 2), LayerSolution(leaves, <<[puzzle |-> action, solution |-> 0]>>))
    = <<[puzzle |-> action, solution |-> 0]>>
=============================================================================
