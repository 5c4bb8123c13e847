------------------------------- MODULE SparseTree -------------------------------
(***************************************************************************)
(* The sparse Merkle trees of the program: registered voters, and the     *)
(* ballots one voter has voted on.  The SDK hashes a tree from its         *)
(* occupied leaves only; the coins never see the tree, they walk from a    *)
(* leaf to the root with the siblings a solution brings.                   *)
(* The last part is the tree of the options a ballot allows.               *)
(***************************************************************************)
EXTENDS Clvm

CONSTANT TreeDepth   \* bound: levels of both sparse trees

ASSUME TreeDepthAssumption == TreeDepth \in Nat \ {0}

Level == 0 .. TreeDepth

\* The leaves below a node of a level.
Span[level \in Level] == IF level = 0 THEN 1 ELSE 2 * Span[level - 1]

MaxSlot == Span[TreeDepth] - 1
Slots == 0 .. MaxSlot

EmptyLeaf == <<"empty_leaf">>

EmptySubtree[level \in Level] ==
  IF level = 0 THEN EmptyLeaf
  ELSE Sha(EmptySubtree[level - 1], EmptySubtree[level - 1])

\* The places in their levels of a leaf and of the n nodes above it.
Places(index, n) ==
  LET place[k \in 0 .. n] == IF k = 0 THEN index ELSE place[k - 1] \div 2
  IN  place

----------------------------------------------------------------------------
(* The coins' side.                                                         *)

\* The nodes from a leaf at an index up, given its siblings from the leaf up.
Climb(leaf, index, siblings) ==
  LET place == Places(index, Len(siblings))
      node[k \in 0 .. Len(siblings)] ==
        IF k = 0 THEN leaf
        ELSE IF place[k - 1] % 2 = 0 THEN Sha(node[k - 1], siblings[k])
                                     ELSE Sha(siblings[k], node[k - 1])
  IN  node

ComputeRoot(leaf, index, siblings) == Climb(leaf, index, siblings)[Len(siblings)]

----------------------------------------------------------------------------
(* The SDK's tree: a function from occupied slots to leaf hashes.           *)

\* Fault: the end of the last range is taken modulo the width of a slot, so
\* that the range with the last slot looks empty.
RangeHasAny_fault(tree, lo, hi) ==
  \E slot \in DOMAIN tree : lo <= slot /\ slot < hi % (MaxSlot + 1)

\* A range may end one past the last slot, which a slot's integer cannot hold.
RangeHasAny(tree, lo, hi) ==
  IF hi > MaxSlot
  THEN \E slot \in DOMAIN tree : lo <= slot
  ELSE \E slot \in DOMAIN tree : lo <= slot /\ slot < hi

\* The subtrees of each level, by their places in it.
SubtreeHash(tree) ==
  LET hash[level \in Level] ==
        [p \in Nat |->
           IF level = 0 THEN IF p \in DOMAIN tree THEN tree[p] ELSE EmptyLeaf
           ELSE IF ~RangeHasAny(tree, p * Span[level], (p + 1) * Span[level])
                THEN EmptySubtree[level]
                ELSE Sha(hash[level - 1][2 * p], hash[level - 1][2 * p + 1])]
  IN  hash

Root(tree) == SubtreeHash(tree)[TreeDepth][0]

\* The place next to another in a level.
Neighbour(i) == IF i % 2 = 0 THEN i + 1 ELSE i - 1

\* The siblings from a leaf up, for an occupied slot and for a free one.
Prove(tree, index) ==
  [i \in 1 .. TreeDepth |->
     SubtreeHash(tree)[i - 1][Neighbour(Places(index, TreeDepth)[i - 1])]]

----------------------------------------------------------------------------
(* The tree of voted ballots, which the SDK hashes level by level.          *)

\* The siblings of a leaf of the empty tree.
EmptySiblings == [i \in 1 .. TreeDepth |-> EmptySubtree[i - 1]]

\* Fault: two occupied neighbours are each hashed with an empty sibling.
NextLevel_fault(nodes, empty) ==
  [p \in {slot \div 2 : slot \in DOMAIN nodes} |->
     IF 2 * p \in DOMAIN nodes
     THEN Sha(nodes[2 * p], empty)
     ELSE Sha(empty, nodes[2 * p + 1])]

\* The nodes one level up: of two neighbours, a missing one is empty.
NextLevel(nodes, empty) ==
  LET At(slot) == IF slot \in DOMAIN nodes THEN nodes[slot] ELSE empty
  IN  [p \in {slot \div 2 : slot \in DOMAIN nodes} |-> Sha(At(2 * p), At(2 * p + 1))]

\* The occupied nodes of every level over some leaves.
NodesOver(leaves) ==
  LET nodes[k \in Level] ==
        IF k = 0 THEN leaves ELSE NextLevel(nodes[k - 1], EmptySubtree[k - 1])
  IN  nodes

RootAfterInserts(leaves) ==
  IF leaves = <<>> THEN EmptySubtree[TreeDepth] ELSE NodesOver(leaves)[TreeDepth][0]

----------------------------------------------------------------------------
(* The options of a restricted ballot, in the order of their bytes.         *)

OptionLeaf(option) == <<"sha256", option>>

Padded(level) == IF Len(level) % 2 = 1 THEN Append(level, Last(level)) ELSE level

\* Fault: the last pair of a level of odd length is completed with its first
\* node.
PairUp_fault(level) ==
  LET At(i) == IF i > Len(level) THEN level[1] ELSE level[i]
  IN  [i \in 1 .. (Len(level) + 1) \div 2 |-> Sha(At(2 * i - 1), At(2 * i))]

PairUp(level) ==
  [i \in 1 .. Len(Padded(level)) \div 2 |->
     Sha(Padded(level)[2 * i - 1], Padded(level)[2 * i])]

\* The levels over a sequence of leaves, and how many lead to the root.
LevelsOver(leaves) ==
  LET level[k \in 0 .. Len(leaves)] == IF k = 0 THEN leaves ELSE PairUp(level[k - 1])
  IN  level

Height(leaves) ==
  CHOOSE k \in 0 .. Len(leaves) :
    /\ Len(LevelsOver(leaves)[k]) = 1
    /\ \A j \in 0 .. k - 1 : Len(LevelsOver(leaves)[j]) > 1

LevelsRoot(leaves) == LevelsOver(leaves)[Height(leaves)][1]

\* Siblings from a leaf up, counting places from 0.
LevelsProof(leaves, index) ==
  [k \in 1 .. Height(leaves) |->
     Padded(LevelsOver(leaves)[k - 1])[Neighbour(Places(index, Height(leaves))[k - 1]) + 1]]

Leaves(options) == [i \in DOMAIN options |-> OptionLeaf(options[i])]

\* The commitment to a sequence of options; the free mode is the zero hash.
FreeRoot == <<"zero">>
VoteOptionsRoot(options) == IF options = <<>> THEN FreeRoot ELSE LevelsRoot(Leaves(options))

\* An option's position and siblings, if it is one of the options.
OptionProof(options, option) ==
  LET i == SelectInSeq(options, LAMBDA o : o = option)
  IN  IF i = 0 THEN [index |-> 0, siblings |-> <<>>]
      ELSE [index |-> i - 1, siblings |-> LevelsProof(Leaves(options), i - 1)]

\* A coin's check of a vote: a free ballot takes any, and a restricted one
\* those whose leaf leads to its root.
VoteIsAllowed(root, option, proof) ==
  (IF root = FreeRoot THEN root
   ELSE ComputeRoot(OptionLeaf(option), proof.index, proof.siblings)) = root
=============================================================================
