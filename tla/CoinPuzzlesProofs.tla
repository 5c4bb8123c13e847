-------------------------- MODULE CoinPuzzlesProofs ---------------------------
(***************************************************************************)
(* What the SDK computes of an election's coins is what their puzzles      *)
(* compute, and the spends it builds for them are accepted, for any depth   *)
(* of the trees, any voters, ballots, amounts and options.                  *)
(***************************************************************************)
EXTENDS CoinPuzzles, ClvmProofs

(* The recursive functions behind the trees.                                *)

\* The levels of the sparse trees are numbers, and each but the first has one
\* below.
LEMMA DepthFacts ==
  /\ TreeDepth \in Nat \ {0}
  /\ Level \subseteq Nat /\ 0 \in Level /\ TreeDepth \in Level
  /\ \A k \in Level : k > 0 => k - 1 \in Level
BY TreeDepthAssumption DEF Level

\* Span as its recursive definition says, which a function defined by itself
\* owes to the existence of such a function.  The next seven are of this kind.
LEMMA SpanDef ==
  \A k \in 0 .. TreeDepth : Span[k] = IF k = 0 THEN 1 ELSE 2 * Span[k - 1]
<1> DEFINE Step(g, k) == IF k = 0 THEN 1 ELSE 2 * g[k - 1]
           Is(m, g) == g = [k \in 0 .. m |-> Step(g, k)]
           N == {m \in Nat : \E g : Is(m, g)}
<1>1. 0 \in N
  <2>1. Is(0, [k \in 0 .. 0 |-> 1])
    OBVIOUS
  <2> HIDE DEF Is
  <2> QED BY <2>1
<1>2. ASSUME NEW m \in N PROVE m + 1 \in N
  <2>1. m \in Nat
    OBVIOUS
  <2>2. PICK g : Is(m, g)
    OBVIOUS
  <2> DEFINE h == [k \in 0 .. m + 1 |-> IF k <= m THEN g[k] ELSE Step(g, m + 1)]
  <2>3. ASSUME NEW k \in 0 .. m + 1 PROVE h[k] = Step(h, k)
    <3>1. h[k] = Step(g, k)
      <4>1. k <= m => g[k] = Step(g, k)
        BY <2>1, <2>2
      <4>2. ~(k <= m) => k = m + 1
        BY <2>1
      <4> HIDE DEF Step
      <4> QED BY <2>1, <4>1, <4>2
    <3>2. k # 0 => h[k - 1] = g[k - 1]
      BY <2>1
    <3> HIDE DEF h
    <3> QED BY <3>1, <3>2
  <2>4. Is(m + 1, h)
    BY <2>3
  <2> HIDE DEF h, Is
  <2> QED BY <2>1, <2>4
<1>3. N = Nat
  <2> HIDE DEF N
  <2>1. N \in SUBSET Nat
    BY DEF N
  <2> QED BY <1>1, <1>2, <2>1, NumberInduction
<1>4. TreeDepth \in Nat /\ \E g : Is(TreeDepth, g)
  BY <1>3, DepthFacts
<1>5. Is(TreeDepth, CHOOSE g : Is(TreeDepth, g))
  <2> HIDE DEF Is
  <2> QED BY <1>4
<1>6. Is(TreeDepth, Span)
  BY <1>5 DEF Span, Level
<1> QED BY <1>4, <1>6

\* Empty subtrees, level by level (empty_ballot_root).
LEMMA EmptySubtreeDef ==
  \A k \in 0 .. TreeDepth :
    EmptySubtree[k] =
      IF k = 0 THEN EmptyLeaf ELSE Sha(EmptySubtree[k - 1], EmptySubtree[k - 1])
<1> DEFINE Step(g, k) == IF k = 0 THEN EmptyLeaf ELSE Sha(g[k - 1], g[k - 1])
           Is(m, g) == g = [k \in 0 .. m |-> Step(g, k)]
           N == {m \in Nat : \E g : Is(m, g)}
<1>1. 0 \in N
  <2>1. Is(0, [k \in 0 .. 0 |-> EmptyLeaf])
    OBVIOUS
  <2> HIDE DEF Is
  <2> QED BY <2>1
<1>2. ASSUME NEW m \in N PROVE m + 1 \in N
  <2>1. m \in Nat
    OBVIOUS
  <2>2. PICK g : Is(m, g)
    OBVIOUS
  <2> DEFINE h == [k \in 0 .. m + 1 |-> IF k <= m THEN g[k] ELSE Step(g, m + 1)]
  <2>3. ASSUME NEW k \in 0 .. m + 1 PROVE h[k] = Step(h, k)
    <3>1. h[k] = Step(g, k)
      <4>1. k <= m => g[k] = Step(g, k)
        BY <2>1, <2>2
      <4>2. ~(k <= m) => k = m + 1
        BY <2>1
      <4> HIDE DEF Step
      <4> QED BY <2>1, <4>1, <4>2
    <3>2. k # 0 => h[k - 1] = g[k - 1]
      BY <2>1
    <3> HIDE DEF h
    <3> QED BY <3>1, <3>2
  <2>4. Is(m + 1, h)
    BY <2>3
  <2> HIDE DEF h, Is
  <2> QED BY <2>1, <2>4
<1>3. N = Nat
  <2> HIDE DEF N
  <2>1. N \in SUBSET Nat
    BY DEF N
  <2> QED BY <1>1, <1>2, <2>1, NumberInduction
<1>4. TreeDepth \in Nat /\ \E g : Is(TreeDepth, g)
  BY <1>3, DepthFacts
<1>5. Is(TreeDepth, CHOOSE g : Is(TreeDepth, g))
  <2> HIDE DEF Is
  <2> QED BY <1>4
<1>6. Is(TreeDepth, EmptySubtree)
  BY <1>5 DEF EmptySubtree, Level
<1> QED BY <1>4, <1>6

\* Places, halved from level to level.
LEMMA PlacesDef ==
  ASSUME NEW index, NEW n \in Nat
  PROVE  \A k \in 0 .. n : Places(index, n)[k] = IF k = 0 THEN index ELSE Places(index, n)[k - 1] \div 2
<1> DEFINE Step(g, k) == IF k = 0 THEN index ELSE g[k - 1] \div 2
           Is(m, g) == g = [k \in 0 .. m |-> Step(g, k)]
           N == {m \in Nat : \E g : Is(m, g)}
<1>1. 0 \in N
  <2>1. Is(0, [k \in 0 .. 0 |-> index])
    OBVIOUS
  <2> HIDE DEF Is
  <2> QED BY <2>1
<1>2. ASSUME NEW m \in N PROVE m + 1 \in N
  <2>1. m \in Nat
    OBVIOUS
  <2>2. PICK g : Is(m, g)
    OBVIOUS
  <2> DEFINE h == [k \in 0 .. m + 1 |-> IF k <= m THEN g[k] ELSE Step(g, m + 1)]
  <2>3. ASSUME NEW k \in 0 .. m + 1 PROVE h[k] = Step(h, k)
    <3>1. h[k] = Step(g, k)
      <4>1. k <= m => g[k] = Step(g, k)
        BY <2>1, <2>2
      <4>2. ~(k <= m) => k = m + 1
        BY <2>1
      <4> HIDE DEF Step
      <4> QED BY <2>1, <4>1, <4>2
    <3>2. k # 0 => h[k - 1] = g[k - 1]
      BY <2>1
    <3> HIDE DEF h
    <3> QED BY <3>1, <3>2
  <2>4. Is(m + 1, h)
    BY <2>3
  <2> HIDE DEF h, Is
  <2> QED BY <2>1, <2>4
<1>3. N = Nat
  <2> HIDE DEF N
  <2>1. N \in SUBSET Nat
    BY DEF N
  <2> QED BY <1>1, <1>2, <2>1, NumberInduction
<1>4. n \in Nat /\ \E g : Is(n, g)
  BY <1>3
<1>5. Is(n, CHOOSE g : Is(n, g))
  <2> HIDE DEF Is
  <2> QED BY <1>4
<1>6. Is(n, Places(index, n))
  BY <1>5 DEF Places
<1> QED BY <1>4, <1>6

\* The walk of compute_root in register.rue, sibling by sibling.
LEMMA ClimbDef ==
  ASSUME NEW leaf, NEW index, NEW siblings, Len(siblings) \in Nat
  PROVE  \A k \in 0 .. Len(siblings) :
           Climb(leaf, index, siblings)[k] =
             IF k = 0 THEN leaf
             ELSE IF Places(index, Len(siblings))[k - 1] % 2 = 0
             THEN Sha(Climb(leaf, index, siblings)[k - 1], siblings[k])
             ELSE Sha(siblings[k], Climb(leaf, index, siblings)[k - 1])
<1> DEFINE Step(g, k) == IF k = 0 THEN leaf ELSE IF Places(index, Len(siblings))[k - 1] % 2 = 0
             THEN Sha(g[k - 1], siblings[k]) ELSE Sha(siblings[k], g[k - 1])
           Is(m, g) == g = [k \in 0 .. m |-> Step(g, k)]
           N == {m \in Nat : \E g : Is(m, g)}
<1>1. 0 \in N
  <2>1. Is(0, [k \in 0 .. 0 |-> leaf])
    OBVIOUS
  <2> HIDE DEF Is
  <2> QED BY <2>1
<1>2. ASSUME NEW m \in N PROVE m + 1 \in N
  <2>1. m \in Nat
    OBVIOUS
  <2>2. PICK g : Is(m, g)
    OBVIOUS
  <2> DEFINE h == [k \in 0 .. m + 1 |-> IF k <= m THEN g[k] ELSE Step(g, m + 1)]
  <2>3. ASSUME NEW k \in 0 .. m + 1 PROVE h[k] = Step(h, k)
    <3>1. h[k] = Step(g, k)
      <4>1. k <= m => g[k] = Step(g, k)
        BY <2>1, <2>2
      <4>2. ~(k <= m) => k = m + 1
        BY <2>1
      <4> HIDE DEF Step
      <4> QED BY <2>1, <4>1, <4>2
    <3>2. k # 0 => h[k - 1] = g[k - 1]
      BY <2>1
    <3> HIDE DEF h
    <3> QED BY <3>1, <3>2
  <2>4. Is(m + 1, h)
    BY <2>3
  <2> HIDE DEF h, Is
  <2> QED BY <2>1, <2>4
<1>3. N = Nat
  <2> HIDE DEF N
  <2>1. N \in SUBSET Nat
    BY DEF N
  <2> QED BY <1>1, <1>2, <2>1, NumberInduction
<1>4. Len(siblings) \in Nat /\ \E g : Is(Len(siblings), g)
  BY <1>3
<1>5. Is(Len(siblings), CHOOSE g : Is(Len(siblings), g))
  <2> HIDE DEF Is
  <2> QED BY <1>4
<1>6. Is(Len(siblings), Climb(leaf, index, siblings))
  BY <1>5 DEF Climb
<1> QED BY <1>4, <1>6

\* The levels of voted_ballots_root_after_inserts.
LEMMA NodesOverDef ==
  ASSUME NEW leaves
  PROVE  \A k \in 0 .. TreeDepth :
           NodesOver(leaves)[k] =
             IF k = 0 THEN leaves ELSE NextLevel(NodesOver(leaves)[k - 1], EmptySubtree[k - 1])
<1> DEFINE Step(g, k) == IF k = 0 THEN leaves ELSE NextLevel(g[k - 1], EmptySubtree[k - 1])
           Is(m, g) == g = [k \in 0 .. m |-> Step(g, k)]
           N == {m \in Nat : \E g : Is(m, g)}
<1>1. 0 \in N
  <2>1. Is(0, [k \in 0 .. 0 |-> leaves])
    OBVIOUS
  <2> HIDE DEF Is
  <2> QED BY <2>1
<1>2. ASSUME NEW m \in N PROVE m + 1 \in N
  <2>1. m \in Nat
    OBVIOUS
  <2>2. PICK g : Is(m, g)
    OBVIOUS
  <2> DEFINE h == [k \in 0 .. m + 1 |-> IF k <= m THEN g[k] ELSE Step(g, m + 1)]
  <2>3. ASSUME NEW k \in 0 .. m + 1 PROVE h[k] = Step(h, k)
    <3>1. h[k] = Step(g, k)
      <4>1. k <= m => g[k] = Step(g, k)
        BY <2>1, <2>2
      <4>2. ~(k <= m) => k = m + 1
        BY <2>1
      <4> HIDE DEF Step
      <4> QED BY <2>1, <4>1, <4>2
    <3>2. k # 0 => h[k - 1] = g[k - 1]
      BY <2>1
    <3> HIDE DEF h
    <3> QED BY <3>1, <3>2
  <2>4. Is(m + 1, h)
    BY <2>3
  <2> HIDE DEF h, Is
  <2> QED BY <2>1, <2>4
<1>3. N = Nat
  <2> HIDE DEF N
  <2>1. N \in SUBSET Nat
    BY DEF N
  <2> QED BY <1>1, <1>2, <2>1, NumberInduction
<1>4. TreeDepth \in Nat /\ \E g : Is(TreeDepth, g)
  BY <1>3, DepthFacts
<1>5. Is(TreeDepth, CHOOSE g : Is(TreeDepth, g))
  <2> HIDE DEF Is
  <2> QED BY <1>4
<1>6. Is(TreeDepth, NodesOver(leaves))
  BY <1>5 DEF NodesOver, Level
<1> QED BY <1>4, <1>6

\* The levels of merkle_root_of_sorted_coin_ids.
LEMMA LevelsOverDef ==
  ASSUME NEW leaves, Len(leaves) \in Nat
  PROVE  \A k \in 0 .. Len(leaves) :
           LevelsOver(leaves)[k] =
             IF k = 0 THEN leaves ELSE PairUp(LevelsOver(leaves)[k - 1])
<1> DEFINE Step(g, k) == IF k = 0 THEN leaves ELSE PairUp(g[k - 1])
           Is(m, g) == g = [k \in 0 .. m |-> Step(g, k)]
           N == {m \in Nat : \E g : Is(m, g)}
<1>1. 0 \in N
  <2>1. Is(0, [k \in 0 .. 0 |-> leaves])
    OBVIOUS
  <2> HIDE DEF Is
  <2> QED BY <2>1
<1>2. ASSUME NEW m \in N PROVE m + 1 \in N
  <2>1. m \in Nat
    OBVIOUS
  <2>2. PICK g : Is(m, g)
    OBVIOUS
  <2> DEFINE h == [k \in 0 .. m + 1 |-> IF k <= m THEN g[k] ELSE Step(g, m + 1)]
  <2>3. ASSUME NEW k \in 0 .. m + 1 PROVE h[k] = Step(h, k)
    <3>1. h[k] = Step(g, k)
      <4>1. k <= m => g[k] = Step(g, k)
        BY <2>1, <2>2
      <4>2. ~(k <= m) => k = m + 1
        BY <2>1
      <4> HIDE DEF Step
      <4> QED BY <2>1, <4>1, <4>2
    <3>2. k # 0 => h[k - 1] = g[k - 1]
      BY <2>1
    <3> HIDE DEF h
    <3> QED BY <3>1, <3>2
  <2>4. Is(m + 1, h)
    BY <2>3
  <2> HIDE DEF h, Is
  <2> QED BY <2>1, <2>4
<1>3. N = Nat
  <2> HIDE DEF N
  <2>1. N \in SUBSET Nat
    BY DEF N
  <2> QED BY <1>1, <1>2, <2>1, NumberInduction
<1>4. Len(leaves) \in Nat /\ \E g : Is(Len(leaves), g)
  BY <1>3
<1>5. Is(Len(leaves), CHOOSE g : Is(Len(leaves), g))
  <2> HIDE DEF Is
  <2> QED BY <1>4
<1>6. Is(Len(leaves), LevelsOver(leaves))
  BY <1>5 DEF LevelsOver
<1> QED BY <1>4, <1>6


\* One level of a sparse tree over the level below.
SubtreeStep(t, g, level) ==
  [p \in Nat |->
     IF level = 0 THEN IF p \in DOMAIN t THEN t[p] ELSE EmptyLeaf
     ELSE IF ~RangeHasAny(t, p * Span[level], (p + 1) * Span[level])
          THEN EmptySubtree[level]
          ELSE Sha(g[level - 1][2 * p], g[level - 1][2 * p + 1])]

\* The recursion of subtree_hash in merkle.rs.
LEMMA SubtreeHashDef ==
  ASSUME NEW t
  PROVE  \A level \in Level :
           SubtreeHash(t)[level] = SubtreeStep(t, SubtreeHash(t), level)
<1> DEFINE Is(m, g) == g = [level \in 0 .. m |-> SubtreeStep(t, g, level)]
           N == {m \in Nat : \E g : Is(m, g)}
<1>1. 0 \in N
  <2> DEFINE g == [level \in 0 .. 0 |-> SubtreeStep(t, <<>>, 0)]
  <2>1. SubtreeStep(t, <<>>, 0) = SubtreeStep(t, g, 0)
    BY DEF SubtreeStep
  <2>2. g = [level \in 0 .. 0 |-> SubtreeStep(t, g, level)]
    <3>1. ASSUME NEW level \in 0 .. 0 PROVE SubtreeStep(t, <<>>, 0) = SubtreeStep(t, g, level)
      BY <2>1
    <3> QED BY <3>1
  <2>3. Is(0, g)
    BY <2>2
  <2> HIDE DEF Is
  <2> QED BY <2>3
<1>2. ASSUME NEW m \in N PROVE m + 1 \in N
  <2>1. m \in Nat
    OBVIOUS
  <2>2. PICK g : Is(m, g)
    OBVIOUS
  <2> DEFINE h == [level \in 0 .. m + 1 |->
                     IF level <= m THEN g[level] ELSE SubtreeStep(t, g, m + 1)]
  <2>3. ASSUME NEW level \in 0 .. m + 1 PROVE h[level] = SubtreeStep(t, h, level)
    <3>1. h[level] = SubtreeStep(t, g, level)
      BY <2>1, <2>2
    <3>2. SubtreeStep(t, g, level) = SubtreeStep(t, h, level)
      <4>1. CASE level = 0
        BY <4>1 DEF SubtreeStep
      <4>2. CASE level # 0
        <5>1. h[level - 1] = g[level - 1]
          BY <2>1, <4>2
        <5> HIDE DEF h
        <5> QED BY <5>1 DEF SubtreeStep
      <4> QED BY <4>1, <4>2
    <3> QED BY <3>1, <3>2
  <2>4. Is(m + 1, h)
    BY <2>3
  <2> HIDE DEF h, Is
  <2> QED BY <2>1, <2>4
<1>3. N = Nat
  <2> HIDE DEF N
  <2>1. N \in SUBSET Nat
    BY DEF N
  <2> QED BY <1>1, <1>2, <2>1, NumberInduction
<1>4. TreeDepth \in Nat /\ \E g : Is(TreeDepth, g)
  BY <1>3, DepthFacts
<1>5. Is(TreeDepth, CHOOSE g : Is(TreeDepth, g))
  <2> HIDE DEF Is
  <2> QED BY <1>4
<1>6. Is(TreeDepth, SubtreeHash(t))
  BY <1>5 DEF SubtreeHash, SubtreeStep, Level
<1> QED BY <1>6 DEF Level

----------------------------------------------------------------------------
(* The sparse tree.                                                         *)

\* Spans are positive and double from level to level.
LEMMA SpanFacts ==
  \A k \in Level : Span[k] \in Nat \ {0} /\ (k > 0 => Span[k] = 2 * Span[k - 1])
<1> DEFINE N == {k \in Nat : k <= TreeDepth => Span[k] \in Nat \ {0}}
<1>0. TreeDepth \in Nat
  BY DepthFacts
<1>1. 0 \in N
  BY <1>0, SpanDef
<1>2. ASSUME NEW k \in N PROVE k + 1 \in N
  <2> SUFFICES ASSUME k + 1 <= TreeDepth PROVE Span[k + 1] \in Nat \ {0}
    OBVIOUS
  <2>1. k \in Nat /\ Span[k] \in Nat \ {0} /\ k + 1 \in 0 .. TreeDepth /\ (k + 1) - 1 = k
    BY <1>0
  <2>2. Span[k + 1] = 2 * Span[k]
    BY <2>1, SpanDef
  <2> QED BY <2>1, <2>2
<1>3. N = Nat
  <2> HIDE DEF N
  <2>1. N \in SUBSET Nat
    BY DEF N
  <2> QED BY <1>1, <1>2, <2>1, NumberInduction
<1> QED BY <1>0, <1>3, SpanDef DEF Level

\* Empty subtrees are pairs of empty subtrees.
LEMMA EmptySubtreeFacts ==
  /\ EmptySubtree[0] = EmptyLeaf
  /\ \A k \in Level : k > 0 => EmptySubtree[k] = Sha(EmptySubtree[k - 1], EmptySubtree[k - 1])
<1>1. \A k \in 0 .. TreeDepth : k > 0 => k # 0
  BY DepthFacts
<1> QED BY <1>1, DepthFacts, EmptySubtreeDef DEF Level

\* A tree's leaves are in its slots.
IsTree(t) == DOMAIN t \subseteq Slots

\* A subtree is empty when no leaf is below its node.
LEMMA RangesMeet ==
  ASSUME NEW t, IsTree(t), NEW lo \in Nat, NEW hi \in Nat
  PROVE  RangeHasAny(t, lo, hi) <=> \E slot \in DOMAIN t : lo <= slot /\ slot < hi
<1>1. MaxSlot \in Nat /\ \A slot \in DOMAIN t : slot \in Nat /\ slot <= MaxSlot
  BY SpanFacts, DepthFacts DEF IsTree, Slots, MaxSlot
<1> QED BY <1>1 DEF RangeHasAny

Below(k, p) == {slot \in Nat : p * Span[k] <= slot /\ slot < (p + 1) * Span[k]}

\* The ranges of a node's children halve its own.
LEMMA RangesHalve ==
  ASSUME NEW k \in Level, k > 0, NEW p \in Nat
  PROVE  /\ Below(k - 1, 2 * p) \subseteq Below(k, p)
         /\ Below(k - 1, 2 * p + 1) \subseteq Below(k, p)
         /\ p * Span[k] \in Nat /\ (p + 1) * Span[k] \in Nat
<1>1. k - 1 \in Level
  BY DepthFacts
<1>2. PICK s \in Nat : s = Span[k - 1]
  BY <1>1, SpanFacts
<1>3. Span[k] = 2 * s
  BY <1>2, SpanFacts
<1>4. /\ (2 * p) * s = p * (2 * s) /\ ((2 * p) + 1) * s = p * (2 * s) + s
      /\ ((2 * p + 1) + 1) * s = p * (2 * s) + 2 * s
      /\ (p + 1) * (2 * s) = p * (2 * s) + 2 * s
      /\ p * (2 * s) \in Nat
  OBVIOUS
<1>5. PICK u \in Nat : u = p * (2 * s)
  BY <1>4
<1>6. /\ p * Span[k] = u /\ (p + 1) * Span[k] = u + 2 * s
      /\ (2 * p) * Span[k - 1] = u /\ ((2 * p) + 1) * Span[k - 1] = u + s
      /\ ((2 * p + 1) + 1) * Span[k - 1] = u + 2 * s
  BY <1>2, <1>3, <1>4, <1>5
<1>7. /\ Below(k, p) = {slot \in Nat : u <= slot /\ slot < u + 2 * s}
      /\ Below(k - 1, 2 * p) = {slot \in Nat : u <= slot /\ slot < u + s}
      /\ Below(k - 1, 2 * p + 1) = {slot \in Nat : u + s <= slot /\ slot < u + 2 * s}
  BY <1>6 DEF Below
<1> QED BY <1>6, <1>7

\* Although subtree_hash takes a constant for a range without leaves, every
\* node is the hash of its children: the test of the range loses nothing.
LEMMA SubtreeIsPair ==
  ASSUME NEW t, IsTree(t), NEW p \in Nat
  PROVE  /\ SubtreeHash(t)[0][p] = IF p \in DOMAIN t THEN t[p] ELSE EmptyLeaf
         /\ \A k \in Level : k > 0 =>
              SubtreeHash(t)[k][p] =
                Sha(SubtreeHash(t)[k - 1][2 * p], SubtreeHash(t)[k - 1][2 * p + 1])
<1> DEFINE H == SubtreeHash(t)
           Bare(k, q) == DOMAIN t \cap Below(k, q) = {}
<1>1. \A k \in Level : H[k] = SubtreeStep(t, H, k)
  BY SubtreeHashDef
<1> HIDE DEF H
<1>2. \A q \in Nat : H[0][q] = IF q \in DOMAIN t THEN t[q] ELSE EmptyLeaf
  BY <1>1, DepthFacts DEF SubtreeStep
<1>3. ASSUME NEW k \in Level, k > 0, NEW q \in Nat
      PROVE  H[k][q] = IF Bare(k, q) THEN EmptySubtree[k] ELSE Sha(H[k - 1][2 * q], H[k - 1][2 * q + 1])
  <2>1. q * Span[k] \in Nat /\ (q + 1) * Span[k] \in Nat
    BY <1>3, RangesHalve
  <2>2. RangeHasAny(t, q * Span[k], (q + 1) * Span[k]) <=>
          \E slot \in DOMAIN t : q * Span[k] <= slot /\ slot < (q + 1) * Span[k]
    BY <2>1, RangesMeet
  <2>3. DOMAIN t \subseteq Nat
    BY SpanFacts, DepthFacts DEF IsTree, Slots, MaxSlot
  <2>4. RangeHasAny(t, q * Span[k], (q + 1) * Span[k]) <=> ~Bare(k, q)
    BY <2>2, <2>3 DEF Below
  <2>5. k # 0
    BY <1>3, DepthFacts
  <2>6. H[k] = SubtreeStep(t, H, k)
    BY <1>1
  <2>7. H[k][q] = IF ~RangeHasAny(t, q * Span[k], (q + 1) * Span[k]) THEN EmptySubtree[k]
                  ELSE Sha(H[k - 1][2 * q], H[k - 1][2 * q + 1])
    BY <2>5, <2>6 DEF SubtreeStep
  <2> HIDE DEF Bare
  <2> QED BY <2>4, <2>7
<1>4. ASSUME NEW k \in Level, NEW q \in Nat, Bare(k, q) PROVE H[k][q] = EmptySubtree[k]
  <2>1. CASE k = 0
    <3>0. Span[0] = 1
      BY SpanDef, DepthFacts
    <3>1. q \in Below(0, q)
      BY <3>0 DEF Below
    <3>2. q \notin DOMAIN t
      BY <1>4, <2>1, <3>1
    <3> QED BY <1>2, <2>1, <3>2, EmptySubtreeFacts
  <2>2. CASE k > 0
    BY <1>3, <1>4, <2>2
  <2> QED BY <2>1, <2>2, DepthFacts
<1>5. ASSUME NEW k \in Level, k > 0 PROVE H[k][p] = Sha(H[k - 1][2 * p], H[k - 1][2 * p + 1])
  <2>1. k - 1 \in Level /\ 2 * p \in Nat /\ 2 * p + 1 \in Nat
    BY <1>5, DepthFacts
  <2>2. CASE Bare(k, p)
    <3>1. Bare(k - 1, 2 * p) /\ Bare(k - 1, 2 * p + 1)
      BY <1>5, <2>2, RangesHalve
    <3>2. H[k - 1][2 * p] = EmptySubtree[k - 1] /\ H[k - 1][2 * p + 1] = EmptySubtree[k - 1]
      BY <1>4, <2>1, <3>1
    <3> QED BY <1>3, <1>5, <2>2, <3>2, EmptySubtreeFacts
  <2>3. CASE ~Bare(k, p)
    BY <1>3, <1>5, <2>3
  <2> QED BY <2>2, <2>3
<1> QED BY <1>2, <1>5 DEF H

\* The places of a path, their parities and their neighbours.
LEMMA PlacesFacts ==
  ASSUME NEW index \in Nat, NEW n \in Nat
  PROVE  /\ Places(index, n)[0] = index
         /\ \A k \in 0 .. n : Places(index, n)[k] \in Nat
         /\ \A k \in 1 .. n : LET here  == Places(index, n)[k - 1]
                                  above == Places(index, n)[k]
                              IN  /\ above = here \div 2
                                  /\ here % 2 = 0 => here = 2 * above /\ Neighbour(here) = 2 * above + 1
                                  /\ here % 2 # 0 => here = 2 * above + 1 /\ Neighbour(here) = 2 * above
<1> DEFINE P == Places(index, n)
           N == {k \in Nat : k <= n => P[k] \in Nat}
<1>0. \A k \in 0 .. n : P[k] = IF k = 0 THEN index ELSE P[k - 1] \div 2
  BY PlacesDef
<1> HIDE DEF P
<1>1. 0 \in N
  BY <1>0
<1>2. ASSUME NEW k \in N PROVE k + 1 \in N
  <2> SUFFICES ASSUME k + 1 <= n PROVE P[k + 1] \in Nat
    OBVIOUS
  <2>1. k \in Nat /\ P[k] \in Nat /\ k + 1 \in 0 .. n /\ k + 1 # 0 /\ (k + 1) - 1 = k
    OBVIOUS
  <2>2. P[k + 1] = P[k] \div 2
    BY <1>0, <2>1
  <2> QED BY <2>1, <2>2
<1>3. N = Nat
  <2> HIDE DEF N
  <2>1. N \in SUBSET Nat
    BY DEF N
  <2> QED BY <1>1, <1>2, <2>1, NumberInduction
<1>4. \A k \in 0 .. n : P[k] \in Nat
  BY <1>3
<1>5. P[0] = index
  BY <1>0
<1>6. ASSUME NEW k \in 1 .. n
      PROVE  /\ P[k] = P[k - 1] \div 2
             /\ P[k - 1] % 2 = 0 => P[k - 1] = 2 * P[k] /\ Neighbour(P[k - 1]) = 2 * P[k] + 1
             /\ P[k - 1] % 2 # 0 => P[k - 1] = 2 * P[k] + 1 /\ Neighbour(P[k - 1]) = 2 * P[k]
  <2>1. k \in 0 .. n /\ k # 0 /\ k - 1 \in 0 .. n
    OBVIOUS
  <2>2. P[k] = P[k - 1] \div 2 /\ P[k - 1] \in Nat
    BY <1>0, <1>4, <2>1
  <2> QED BY <2>2 DEF Neighbour
<1> QED BY <1>4, <1>5, <1>6 DEF P

\* The root is above every slot.
LEMMA PlacesEnd ==
  ASSUME NEW slot \in Slots
  PROVE  /\ \A k \in Level : Places(slot, TreeDepth)[k] < Span[TreeDepth - k]
         /\ Places(slot, TreeDepth)[TreeDepth] = 0
<1> DEFINE P == Places(slot, TreeDepth)
           N == {k \in Nat : k <= TreeDepth => P[k] < Span[TreeDepth - k]}
<1>0. TreeDepth \in Nat /\ slot \in Nat
  BY DepthFacts, SpanFacts DEF Slots
<1>1. /\ P[0] = slot
      /\ \A k \in 0 .. TreeDepth : P[k] \in Nat
      /\ \A k \in 1 .. TreeDepth : P[k] = P[k - 1] \div 2
  BY <1>0, PlacesFacts
<1> HIDE DEF P
<1>2. 0 \in N
  <2>1. slot < Span[TreeDepth] /\ TreeDepth - 0 = TreeDepth
    BY <1>0, DepthFacts, SpanFacts DEF Slots, MaxSlot
  <2> QED BY <1>1, <2>1
<1>3. ASSUME NEW k \in N PROVE k + 1 \in N
  <2> SUFFICES ASSUME k + 1 <= TreeDepth PROVE P[k + 1] < Span[TreeDepth - (k + 1)]
    OBVIOUS
  <2>1. k \in Nat /\ k <= TreeDepth /\ P[k] < Span[TreeDepth - k]
    BY <1>0
  <2>2. k + 1 \in 1 .. TreeDepth /\ (k + 1) - 1 = k /\ k \in 0 .. TreeDepth
    BY <1>0, <2>1
  <2>3. P[k + 1] = P[k] \div 2 /\ P[k] \in Nat
    BY <1>1, <2>2
  <2>4. PICK j \in Level : j = TreeDepth - k /\ j > 0 /\ j - 1 = TreeDepth - (k + 1) /\ j - 1 \in Level
    <3>1. TreeDepth - k \in 0 .. TreeDepth /\ TreeDepth - k > 0
      BY <1>0, <2>1
    <3>2. (TreeDepth - k) - 1 = TreeDepth - (k + 1) /\ (TreeDepth - k) - 1 \in 0 .. TreeDepth
      BY <1>0, <2>1
    <3> QED BY <3>1, <3>2 DEF Level
  <2>5. Span[j] = 2 * Span[j - 1] /\ Span[j - 1] \in Nat
    BY <2>4, SpanFacts
  <2>6. P[k] < 2 * Span[j - 1]
    BY <2>1, <2>4, <2>5
  <2>7. P[k] \div 2 < Span[j - 1]
    BY <2>3, <2>5, <2>6
  <2> QED BY <2>3, <2>4, <2>7
<1>4. N = Nat
  <2> HIDE DEF N
  <2>1. N \in SUBSET Nat
    BY DEF N
  <2> QED BY <1>2, <1>3, <2>1, NumberInduction
<1>5. \A k \in Level : P[k] < Span[TreeDepth - k]
  BY <1>0, <1>4 DEF Level
<1>6. Span[0] = 1 /\ TreeDepth - TreeDepth = 0
  BY <1>0, SpanDef
<1>7. P[TreeDepth] < 1 /\ P[TreeDepth] \in Nat
  BY <1>0, <1>1, <1>5, <1>6, DepthFacts
<1> QED BY <1>5, <1>7 DEF P

\* What a tree has at a slot.
LeafAt(t, slot) == IF slot \in DOMAIN t THEN t[slot] ELSE EmptyLeaf

\* The trees differ at most in one leaf.
SameBut(t, u, i) == \A slot \in Nat : slot # i => LeafAt(t, slot) = LeafAt(u, slot)

\* Two trees that differ in one leaf have the same nodes off its path.
LEMMA OnlyPathChanges ==
  ASSUME NEW t, IsTree(t), NEW u, IsTree(u), NEW i \in Nat, SameBut(t, u, i)
  PROVE  \A k \in Level : \A p \in Nat :
           p # Places(i, TreeDepth)[k] => SubtreeHash(t)[k][p] = SubtreeHash(u)[k][p]
<1> DEFINE T == SubtreeHash(t)
           U == SubtreeHash(u)
           P == Places(i, TreeDepth)
           N == {k \in Nat : k <= TreeDepth => \A p \in Nat : p # P[k] => T[k][p] = U[k][p]}
<1>0. TreeDepth \in Nat
  BY DepthFacts
<1>1. /\ P[0] = i
      /\ \A k \in 0 .. TreeDepth : P[k] \in Nat
      /\ \A k \in 1 .. TreeDepth : P[k] = P[k - 1] \div 2
  BY <1>0, PlacesFacts
<1>2. \A p \in Nat : T[0][p] = LeafAt(t, p) /\ U[0][p] = LeafAt(u, p)
  BY SubtreeIsPair DEF LeafAt
<1>3. ASSUME NEW k \in Level, k > 0, NEW p \in Nat
      PROVE  /\ T[k][p] = Sha(T[k - 1][2 * p], T[k - 1][2 * p + 1])
             /\ U[k][p] = Sha(U[k - 1][2 * p], U[k - 1][2 * p + 1])
  BY <1>3, SubtreeIsPair
<1> HIDE DEF T, U, P
<1>4. 0 \in N
  BY <1>1, <1>2 DEF SameBut
<1>5. ASSUME NEW k \in N PROVE k + 1 \in N
  <2> SUFFICES ASSUME k + 1 <= TreeDepth, NEW p \in Nat, p # P[k + 1]
               PROVE  T[k + 1][p] = U[k + 1][p]
    OBVIOUS
  <2>1. k \in Nat /\ \A q \in Nat : q # P[k] => T[k][q] = U[k][q]
    BY <1>0
  <2>2. k + 1 \in Level /\ k + 1 > 0 /\ (k + 1) - 1 = k /\ k + 1 \in 1 .. TreeDepth /\ k \in 0 .. TreeDepth
    BY <1>0, <2>1 DEF Level
  <2>3. P[k + 1] = P[k] \div 2 /\ P[k] \in Nat
    BY <1>1, <2>2
  <2>4. 2 * p # P[k] /\ 2 * p + 1 # P[k] /\ 2 * p \in Nat /\ 2 * p + 1 \in Nat
    BY <2>3
  <2>5. T[k][2 * p] = U[k][2 * p] /\ T[k][2 * p + 1] = U[k][2 * p + 1]
    BY <2>1, <2>4
  <2>6. /\ T[k + 1][p] = Sha(T[k][2 * p], T[k][2 * p + 1])
        /\ U[k + 1][p] = Sha(U[k][2 * p], U[k][2 * p + 1])
    BY <1>3, <2>2
  <2> QED BY <2>5, <2>6
<1>6. N = Nat
  <2> HIDE DEF N
  <2>1. N \in SUBSET Nat
    BY DEF N
  <2> QED BY <1>4, <1>5, <2>1, NumberInduction
<1> QED BY <1>0, <1>6 DEF Level, T, U, P

\* The siblings of a slot lead from any leaf to the root of the tree that has
\* that leaf there.
LEMMA ProofsClimb ==
  ASSUME NEW t, IsTree(t), NEW u, IsTree(u), NEW i \in Slots, SameBut(t, u, i),
         NEW siblings, Len(siblings) = TreeDepth,
         \A k \in 1 .. TreeDepth : siblings[k] = Prove(t, i)[k]
  PROVE  ComputeRoot(LeafAt(u, i), i, siblings) = Root(u)
<1> DEFINE T == SubtreeHash(t)
           U == SubtreeHash(u)
           P == Places(i, TreeDepth)
           C == Climb(LeafAt(u, i), i, siblings)
           N == {k \in Nat : k <= TreeDepth => C[k] = U[k][P[k]]}
<1>0. TreeDepth \in Nat /\ i \in Nat
  BY DepthFacts, SpanFacts DEF Slots
<1>1. /\ P[0] = i
      /\ \A k \in 0 .. TreeDepth : P[k] \in Nat
      /\ \A k \in 1 .. TreeDepth :
           /\ P[k - 1] % 2 = 0 => P[k - 1] = 2 * P[k] /\ Neighbour(P[k - 1]) = 2 * P[k] + 1
           /\ P[k - 1] % 2 # 0 => P[k - 1] = 2 * P[k] + 1 /\ Neighbour(P[k - 1]) = 2 * P[k]
  BY <1>0, PlacesFacts
<1>2. U[0][i] = LeafAt(u, i)
  BY <1>0, SubtreeIsPair DEF LeafAt
<1>3. ASSUME NEW k \in Level, k > 0, NEW p \in Nat
      PROVE  U[k][p] = Sha(U[k - 1][2 * p], U[k - 1][2 * p + 1])
  BY <1>3, SubtreeIsPair
<1>4. \A k \in Level : \A p \in Nat : p # P[k] => T[k][p] = U[k][p]
  BY <1>0, OnlyPathChanges
<1>5. \A k \in 1 .. TreeDepth : siblings[k] = T[k - 1][Neighbour(P[k - 1])]
  BY <1>0 DEF Prove
<1>6. \A k \in 0 .. TreeDepth :
        C[k] = IF k = 0 THEN LeafAt(u, i)
               ELSE IF P[k - 1] % 2 = 0 THEN Sha(C[k - 1], siblings[k]) ELSE Sha(siblings[k], C[k - 1])
  BY <1>0, ClimbDef
<1>7. P[TreeDepth] = 0
  BY PlacesEnd
<1>8. ComputeRoot(LeafAt(u, i), i, siblings) = C[TreeDepth] /\ Root(u) = U[TreeDepth][0]
  BY DEF ComputeRoot, Root
<1> HIDE DEF T, U, P, C
<1>9. 0 \in N
  BY <1>0, <1>1, <1>2, <1>6
<1>10. ASSUME NEW k \in N PROVE k + 1 \in N
  <2> SUFFICES ASSUME k + 1 <= TreeDepth PROVE C[k + 1] = U[k + 1][P[k + 1]]
    OBVIOUS
  <2>1. k \in Nat /\ C[k] = U[k][P[k]]
    BY <1>0
  <2>2. /\ k + 1 \in Level /\ k + 1 > 0 /\ (k + 1) - 1 = k /\ k + 1 \in 1 .. TreeDepth
        /\ k \in Level /\ k \in 0 .. TreeDepth /\ k + 1 \in 0 .. TreeDepth /\ k + 1 # 0
    BY <1>0, <2>1 DEF Level
  <2>3. PICK here \in Nat : here = P[k]
    BY <1>1, <2>2
  <2>4. PICK above \in Nat : above = P[k + 1]
    BY <1>1, <2>2
  <2>5. /\ here % 2 = 0 => here = 2 * above /\ Neighbour(here) = 2 * above + 1
        /\ here % 2 # 0 => here = 2 * above + 1 /\ Neighbour(here) = 2 * above
    BY <1>1, <2>2, <2>3, <2>4
  <2>6. U[k + 1][above] = Sha(U[k][2 * above], U[k][2 * above + 1])
    BY <1>3, <2>2
  <2>7. siblings[k + 1] = T[k][Neighbour(here)]
    BY <1>5, <2>2, <2>3
  <2>8. C[k + 1] = IF here % 2 = 0 THEN Sha(C[k], siblings[k + 1]) ELSE Sha(siblings[k + 1], C[k])
    BY <1>6, <2>2, <2>3
  <2>9. \A p \in Nat : p # here => T[k][p] = U[k][p]
    BY <1>4, <2>2, <2>3
  <2>10. CASE here % 2 = 0
    <3>1. T[k][2 * above + 1] = U[k][2 * above + 1]
      BY <2>5, <2>9, <2>10
    <3> QED BY <2>1, <2>3, <2>4, <2>5, <2>6, <2>7, <2>8, <2>10, <3>1
  <2>11. CASE here % 2 # 0
    <3>1. T[k][2 * above] = U[k][2 * above]
      BY <2>5, <2>9, <2>11
    <3> QED BY <2>1, <2>3, <2>4, <2>5, <2>6, <2>7, <2>8, <2>11, <3>1
  <2> QED BY <2>10, <2>11
<1>11. N = Nat
  <2> HIDE DEF N
  <2>1. N \in SUBSET Nat
    BY DEF N
  <2> QED BY <1>9, <1>10, <2>1, NumberInduction
<1>12. C[TreeDepth] = U[TreeDepth][P[TreeDepth]]
  BY <1>0, <1>11
<1> QED BY <1>7, <1>8, <1>12

\* Two leaves with the same siblings do not lead to the same root.
LEMMA RootsTellLeaves ==
  ASSUME NEW x, NEW y, NEW i \in Nat, NEW siblings, Len(siblings) \in Nat,
         ComputeRoot(x, i, siblings) = ComputeRoot(y, i, siblings)
  PROVE  x = y
<1> DEFINE X == Climb(x, i, siblings)
           Y == Climb(y, i, siblings)
           n == Len(siblings)
           P == Places(i, n)
           N == {k \in Nat : k <= n /\ X[k] = Y[k] => x = y}
<1>1. \A k \in 0 .. n :
        X[k] = IF k = 0 THEN x
               ELSE IF P[k - 1] % 2 = 0 THEN Sha(X[k - 1], siblings[k]) ELSE Sha(siblings[k], X[k - 1])
  BY ClimbDef
<1>2. \A k \in 0 .. n :
        Y[k] = IF k = 0 THEN y
               ELSE IF P[k - 1] % 2 = 0 THEN Sha(Y[k - 1], siblings[k]) ELSE Sha(siblings[k], Y[k - 1])
  BY ClimbDef
<1>3. X[n] = Y[n] /\ n \in Nat
  BY DEF ComputeRoot
<1> HIDE DEF X, Y, P, n
<1>4. 0 \in N
  <2>1. 0 \in 0 .. n
    BY <1>3
  <2>2. X[0] = x /\ Y[0] = y
    BY <1>1, <1>2, <2>1
  <2> QED BY <2>2
<1>5. ASSUME NEW k \in N PROVE k + 1 \in N
  <2> SUFFICES ASSUME k + 1 <= n, X[k + 1] = Y[k + 1] PROVE x = y
    OBVIOUS
  <2>1. k \in Nat /\ k + 1 \in 0 .. n /\ k + 1 # 0 /\ (k + 1) - 1 = k /\ k <= n
    BY <1>3
  <2>2. X[k + 1] = IF P[k] % 2 = 0 THEN Sha(X[k], siblings[k + 1]) ELSE Sha(siblings[k + 1], X[k])
    BY <1>1, <2>1
  <2>3. Y[k + 1] = IF P[k] % 2 = 0 THEN Sha(Y[k], siblings[k + 1]) ELSE Sha(siblings[k + 1], Y[k])
    BY <1>2, <2>1
  <2>4. \A a, b, c : (Sha(a, c) = Sha(b, c) => a = b) /\ (Sha(c, a) = Sha(c, b) => a = b)
    BY DEF Sha
  <2>5. X[k] = Y[k]
    BY <2>2, <2>3, <2>4
  <2> QED BY <2>1, <2>5
<1>6. N = Nat
  <2> HIDE DEF N
  <2>1. N \in SUBSET Nat
    BY DEF N
  <2> QED BY <1>4, <1>5, <2>1, NumberInduction
<1> QED BY <1>3, <1>6

\* The tree without leaves, and the siblings that the SDK writes for it.
LEMMA EmptyTree ==
  /\ IsTree(<<>>)
  /\ Root(<<>>) = EmptySubtree[TreeDepth]
  /\ \A i \in Nat : LeafAt(<<>>, i) = EmptyLeaf
  /\ \A i \in Slots : ComputeRoot(EmptyLeaf, i, EmptySiblings) = EmptySubtree[TreeDepth]
<1>1. DOMAIN <<>> = {}
  OBVIOUS
<1>2. IsTree(<<>>) /\ \A i \in Nat : LeafAt(<<>>, i) = EmptyLeaf
  BY <1>1 DEF IsTree, LeafAt
<1>3. ASSUME NEW k \in Level, NEW p \in Nat PROVE SubtreeHash(<<>>)[k][p] = EmptySubtree[k]
  <2>1. CASE k = 0
    BY <1>1, <1>2, <2>1, SubtreeIsPair, EmptySubtreeFacts
  <2>2. CASE k > 0
    <3>1. p * Span[k] \in Nat /\ (p + 1) * Span[k] \in Nat
      BY <2>2, RangesHalve
    <3>2. ~RangeHasAny(<<>>, p * Span[k], (p + 1) * Span[k])
      BY <1>1, <1>2, <3>1, RangesMeet
    <3>3. SubtreeHash(<<>>)[k] = SubtreeStep(<<>>, SubtreeHash(<<>>), k) /\ k # 0
      BY <2>2, SubtreeHashDef, DepthFacts
    <3> QED BY <3>2, <3>3 DEF SubtreeStep
  <2> QED BY <2>1, <2>2, DepthFacts
<1>4. Root(<<>>) = EmptySubtree[TreeDepth]
  BY <1>3, DepthFacts DEF Root
<1>5. ASSUME NEW i \in Slots PROVE ComputeRoot(EmptyLeaf, i, EmptySiblings) = EmptySubtree[TreeDepth]
  <2>0. TreeDepth \in Nat /\ i \in Nat
    BY DepthFacts, SpanFacts DEF Slots
  <2>1. Len(EmptySiblings) = TreeDepth
    BY <2>0 DEF EmptySiblings
  <2>2. ASSUME NEW k \in 1 .. TreeDepth PROVE EmptySiblings[k] = Prove(<<>>, i)[k]
    <3>1. k - 1 \in Level /\ k \in 1 .. TreeDepth
      BY <2>0 DEF Level
    <3>2. Neighbour(Places(i, TreeDepth)[k - 1]) \in Nat
      <4>1. PICK here \in Nat : here = Places(i, TreeDepth)[k - 1]
        <5>1. k - 1 \in 0 .. TreeDepth
          BY <2>0
        <5> QED BY <2>0, <5>1, PlacesFacts
      <4>2. here % 2 # 0 => here - 1 \in Nat
        BY <4>1
      <4> QED BY <4>1, <4>2 DEF Neighbour
    <3> QED BY <1>3, <3>1, <3>2 DEF EmptySiblings, Prove
  <2>3. SameBut(<<>>, <<>>, i)
    BY DEF SameBut
  <2>4. ComputeRoot(LeafAt(<<>>, i), i, EmptySiblings) = Root(<<>>)
    BY <1>2, <2>1, <2>2, <2>3, ProofsClimb
  <2> QED BY <1>2, <1>4, <2>0, <2>4
<1> QED BY <1>2, <1>4, <1>5

\* Equal leaves make equal trees.
LEMMA SameLeavesSameRoot ==
  ASSUME NEW t, IsTree(t), NEW u, IsTree(u), \A slot \in Nat : LeafAt(t, slot) = LeafAt(u, slot)
  PROVE  Root(t) = Root(u)
<1> DEFINE N == {k \in Nat : k <= TreeDepth =>
                   \A p \in Nat : SubtreeHash(t)[k][p] = SubtreeHash(u)[k][p]}
<1>0. TreeDepth \in Nat
  BY DepthFacts
<1>1. 0 \in N
  BY SubtreeIsPair DEF LeafAt
<1>2. ASSUME NEW k \in N PROVE k + 1 \in N
  <2> SUFFICES ASSUME k + 1 <= TreeDepth, NEW p \in Nat
               PROVE  SubtreeHash(t)[k + 1][p] = SubtreeHash(u)[k + 1][p]
    OBVIOUS
  <2>1. k \in Nat /\ \A q \in Nat : SubtreeHash(t)[k][q] = SubtreeHash(u)[k][q]
    BY <1>0
  <2>2. k + 1 \in Level /\ k + 1 > 0 /\ (k + 1) - 1 = k /\ 2 * p \in Nat /\ 2 * p + 1 \in Nat
    BY <1>0, <2>1 DEF Level
  <2>3. /\ SubtreeHash(t)[k + 1][p] = Sha(SubtreeHash(t)[k][2 * p], SubtreeHash(t)[k][2 * p + 1])
        /\ SubtreeHash(u)[k + 1][p] = Sha(SubtreeHash(u)[k][2 * p], SubtreeHash(u)[k][2 * p + 1])
    BY <2>2, SubtreeIsPair
  <2> QED BY <2>1, <2>2, <2>3
<1>3. N = Nat
  <2> HIDE DEF N
  <2>1. N \in SUBSET Nat
    BY DEF N
  <2> QED BY <1>1, <1>2, <2>1, NumberInduction
<1> QED BY <1>0, <1>3 DEF Root

----------------------------------------------------------------------------
(* The tree of voted ballots, level by level.                               *)

\* Hashing only the occupied nodes, level by level, gives the nodes of the tree.
LEMMA LevelsMeet ==
  ASSUME NEW leaves, IsTree(leaves)
  PROVE  /\ \A k \in Level : \A p \in Nat :
              SubtreeHash(leaves)[k][p] =
                IF p \in DOMAIN NodesOver(leaves)[k] THEN NodesOver(leaves)[k][p] ELSE EmptySubtree[k]
         /\ DOMAIN leaves # {} =>
              \A k \in Level : \E p \in DOMAIN NodesOver(leaves)[k] : p \in Nat /\ p < Span[TreeDepth - k]
<1> DEFINE H == SubtreeHash(leaves)
           L == NodesOver(leaves)
           Node(k, p) == IF p \in DOMAIN L[k] THEN L[k][p] ELSE EmptySubtree[k]
           N == {k \in Nat : k <= TreeDepth =>
                   /\ \A p \in Nat : H[k][p] = Node(k, p)
                   /\ DOMAIN L[k] \subseteq Nat
                   /\ DOMAIN leaves # {} => \E p \in DOMAIN L[k] : p < Span[TreeDepth - k]}
<1>0. TreeDepth \in Nat
  BY DepthFacts
<1>1. \A k \in 0 .. TreeDepth : L[k] = IF k = 0 THEN leaves ELSE NextLevel(L[k - 1], EmptySubtree[k - 1])
  BY NodesOverDef
<1>2. \A p \in Nat : H[0][p] = IF p \in DOMAIN leaves THEN leaves[p] ELSE EmptyLeaf
  BY SubtreeIsPair
<1>3. ASSUME NEW k \in Level, k > 0, NEW p \in Nat
      PROVE  H[k][p] = Sha(H[k - 1][2 * p], H[k - 1][2 * p + 1])
  BY <1>3, SubtreeIsPair
<1> HIDE DEF H, L
<1>4. 0 \in N
  <2>1. L[0] = leaves
    BY <1>0, <1>1
  <2>2. \A p \in Nat : H[0][p] = Node(0, p)
    BY <1>2, <2>1, EmptySubtreeFacts
  <2>3. DOMAIN leaves \subseteq Nat /\ \A p \in DOMAIN leaves : p < Span[TreeDepth]
    BY SpanFacts, DepthFacts DEF IsTree, Slots, MaxSlot
  <2>4. TreeDepth - 0 = TreeDepth
    BY <1>0
  <2> HIDE DEF Node
  <2> QED BY <2>1, <2>2, <2>3, <2>4
<1>5. ASSUME NEW k \in N PROVE k + 1 \in N
  <2> SUFFICES ASSUME k + 1 <= TreeDepth
               PROVE  /\ \A p \in Nat : H[k + 1][p] = Node(k + 1, p)
                      /\ DOMAIN L[k + 1] \subseteq Nat
                      /\ DOMAIN leaves # {} => \E p \in DOMAIN L[k + 1] : p < Span[TreeDepth - (k + 1)]
    OBVIOUS
  <2>1. /\ k \in Nat /\ \A p \in Nat : H[k][p] = Node(k, p)
        /\ DOMAIN L[k] \subseteq Nat
        /\ DOMAIN leaves # {} => \E p \in DOMAIN L[k] : p < Span[TreeDepth - k]
    BY <1>0
  <2>2. k + 1 \in Level /\ k + 1 > 0 /\ (k + 1) - 1 = k /\ k + 1 \in 0 .. TreeDepth /\ k + 1 # 0
    BY <1>0, <2>1 DEF Level
  <2>3. L[k + 1] = NextLevel(L[k], EmptySubtree[k])
    BY <1>1, <2>2
  <2>4. DOMAIN L[k + 1] = {slot \div 2 : slot \in DOMAIN L[k]}
    BY <2>3 DEF NextLevel
  <2>5. \A p \in DOMAIN L[k + 1] : L[k + 1][p] = Sha(Node(k, 2 * p), Node(k, 2 * p + 1))
    BY <2>3, <2>4 DEF NextLevel
  <2>6. ASSUME NEW p \in Nat PROVE H[k + 1][p] = Node(k + 1, p)
    <3>1. H[k + 1][p] = Sha(H[k][2 * p], H[k][2 * p + 1])
      BY <1>3, <2>2
    <3>2. H[k][2 * p] = Node(k, 2 * p) /\ H[k][2 * p + 1] = Node(k, 2 * p + 1)
      BY <2>1
    <3>3. CASE p \in DOMAIN L[k + 1]
      <4>1. Node(k + 1, p) = L[k + 1][p]
        BY <3>3
      <4> HIDE DEF Node
      <4> QED BY <2>5, <3>1, <3>2, <3>3, <4>1
    <3>4. CASE p \notin DOMAIN L[k + 1]
      <4>1. (2 * p) \div 2 = p /\ (2 * p + 1) \div 2 = p
        OBVIOUS
      <4>2. 2 * p \notin DOMAIN L[k] /\ 2 * p + 1 \notin DOMAIN L[k]
        BY <2>4, <3>4, <4>1
      <4>3. Node(k, 2 * p) = EmptySubtree[k] /\ Node(k, 2 * p + 1) = EmptySubtree[k]
        BY <4>2
      <4>4. EmptySubtree[k + 1] = Sha(EmptySubtree[k], EmptySubtree[k])
        BY <2>2, EmptySubtreeFacts
      <4>5. Node(k + 1, p) = EmptySubtree[k + 1]
        BY <3>4
      <4> HIDE DEF Node
      <4> QED BY <3>1, <3>2, <4>3, <4>4, <4>5
    <3> QED BY <3>3, <3>4
  <2>7. DOMAIN L[k + 1] \subseteq Nat
    BY <2>1, <2>4
  <2>8. ASSUME DOMAIN leaves # {} PROVE \E p \in DOMAIN L[k + 1] : p < Span[TreeDepth - (k + 1)]
    <3>1. PICK p \in DOMAIN L[k] : p < Span[TreeDepth - k] /\ p \in Nat
      BY <2>1, <2>8
    <3>2. PICK j \in Level : j = TreeDepth - k /\ j > 0 /\ j - 1 = TreeDepth - (k + 1) /\ j - 1 \in Level
      <4>1. TreeDepth - k \in 0 .. TreeDepth /\ TreeDepth - k > 0
        BY <1>0, <2>1
      <4>2. (TreeDepth - k) - 1 = TreeDepth - (k + 1) /\ (TreeDepth - k) - 1 \in 0 .. TreeDepth
        BY <1>0, <2>1
      <4> QED BY <4>1, <4>2 DEF Level
    <3>3. Span[j] = 2 * Span[j - 1] /\ Span[j - 1] \in Nat
      BY <3>2, SpanFacts
    <3>4. p < 2 * Span[j - 1]
      BY <3>1, <3>2, <3>3
    <3>5. p \div 2 < Span[j - 1]
      BY <3>1, <3>3, <3>4
    <3>6. p \div 2 \in DOMAIN L[k + 1]
      BY <2>4, <3>1
    <3> QED BY <3>2, <3>5, <3>6
  <2> HIDE DEF Node
  <2> QED BY <2>6, <2>7, <2>8
<1>6. N = Nat
  <2> HIDE DEF N
  <2>1. N \in SUBSET Nat
    BY DEF N
  <2> QED BY <1>4, <1>5, <2>1, NumberInduction
<1>7. \A k \in Level : k \in N /\ k <= TreeDepth
  BY <1>0, <1>6 DEF Level
<1> HIDE DEF Node
<1>8. \A k \in Level : /\ \A p \in Nat : H[k][p] = Node(k, p)
                       /\ DOMAIN L[k] \subseteq Nat
                       /\ DOMAIN leaves # {} => \E p \in DOMAIN L[k] : p < Span[TreeDepth - k]
  BY <1>7
<1>9. \A k \in Level : DOMAIN leaves # {} => \E p \in DOMAIN L[k] : p \in Nat /\ p < Span[TreeDepth - k]
  BY <1>8
<1> QED BY <1>8, <1>9 DEF H, L, Node

\* Hashing level by level gives the root of the tree.
LEMMA InsertsGiveRoot ==
  ASSUME NEW leaves, IsTree(leaves), leaves = [slot \in DOMAIN leaves |-> leaves[slot]]
  PROVE  RootAfterInserts(leaves) = Root(leaves)
<1>0. TreeDepth \in Level /\ Span[0] = 1 /\ TreeDepth - TreeDepth = 0
  BY DepthFacts, SpanDef
<1>1. CASE leaves = <<>>
  BY <1>1, EmptyTree DEF RootAfterInserts
<1>2. CASE leaves # <<>> /\ DOMAIN leaves # {}
  <2>1. PICK p \in DOMAIN NodesOver(leaves)[TreeDepth] : p \in Nat /\ p < Span[TreeDepth - TreeDepth]
    BY <1>0, <1>2, LevelsMeet
  <2>2. p = 0
    BY <1>0, <2>1
  <2>3. SubtreeHash(leaves)[TreeDepth][0] = NodesOver(leaves)[TreeDepth][0]
    BY <1>0, <2>1, <2>2, LevelsMeet
  <2> QED BY <1>2, <2>3 DEF RootAfterInserts, Root
<1>3. DOMAIN leaves = {} => leaves = <<>>
  <2>1. <<>> = [slot \in {} |-> leaves[slot]]
    OBVIOUS
  <2> QED BY <2>1
<1> QED BY <1>1, <1>2, <1>3

----------------------------------------------------------------------------
(* The tree of a ballot's options.                                          *)

IsSeq(s) == Len(s) \in Nat /\ s = [i \in 1 .. Len(s) |-> s[i]]

\* A level over another: its length, its nodes, and the padding of odd levels.
LEMMA PairUpFacts ==
  ASSUME NEW level, IsSeq(level), Len(level) > 0
  PROVE  /\ IsSeq(PairUp(level))
         /\ Len(PairUp(level)) = (Len(level) + 1) \div 2
         /\ \A p \in 0 .. Len(PairUp(level)) - 1 :
              PairUp(level)[p + 1] = Sha(Padded(level)[2 * p + 1], Padded(level)[(2 * p + 1) + 1])
         /\ \A i \in 1 .. Len(level) : Padded(level)[i] = level[i]
<1> DEFINE S == {level[i] : i \in 1 .. Len(level)}
           n == Len(level)
<1>1. level \in Seq(S) /\ n \in Nat /\ n > 0
  <2>1. \A i \in 1 .. n : level[i] \in S
    OBVIOUS
  <2> HIDE DEF S
  <2> QED BY <2>1 DEF IsSeq
<1>2. Last(level) \in S
  BY <1>1 DEF Last
<1> HIDE DEF S
<1>3. /\ Padded(level) \in Seq(S)
      /\ Len(Padded(level)) = IF n % 2 = 1 THEN n + 1 ELSE n
      /\ \A i \in 1 .. n : Padded(level)[i] = level[i]
  <2>1. CASE n % 2 = 1
    BY <1>1, <1>2, <2>1 DEF Padded
  <2>2. CASE n % 2 # 1
    BY <1>1, <2>2 DEF Padded
  <2> QED BY <2>1, <2>2
<1>4. Len(Padded(level)) \div 2 = (n + 1) \div 2 /\ (n + 1) \div 2 \in Nat
  <2>1. PICK m \in Nat : m = n
    BY <1>1
  <2>2. CASE m % 2 = 1
    <3>1. (m + 1) \div 2 \in Nat
      OBVIOUS
    <3> QED BY <1>3, <2>1, <2>2, <3>1
  <2>3. CASE m % 2 # 1
    <3>1. m \div 2 = (m + 1) \div 2 /\ (m + 1) \div 2 \in Nat
      BY <2>3
    <3> QED BY <1>3, <2>1, <2>3, <3>1
  <2> QED BY <2>2, <2>3
<1> DEFINE m == (n + 1) \div 2
<1>5. PairUp(level) = [i \in 1 .. m |-> Sha(Padded(level)[2 * i - 1], Padded(level)[2 * i])]
  BY <1>4 DEF PairUp
<1> HIDE DEF m
<1>6. Len(PairUp(level)) = m /\ m \in Nat
  BY <1>4, <1>5 DEF m
<1>7. IsSeq(PairUp(level))
  BY <1>5, <1>6 DEF IsSeq
<1>8. ASSUME NEW p \in 0 .. Len(PairUp(level)) - 1
      PROVE  PairUp(level)[p + 1] = Sha(Padded(level)[2 * p + 1], Padded(level)[(2 * p + 1) + 1])
  <2>1. p + 1 \in 1 .. m /\ 2 * (p + 1) - 1 = 2 * p + 1 /\ 2 * (p + 1) = (2 * p + 1) + 1
    BY <1>6
  <2> QED BY <1>5, <2>1
<1> QED BY <1>3, <1>6, <1>7, <1>8 DEF m

\* The levels over a list of leaves end in one node, at its height.
LEMMA LevelsShrink ==
  ASSUME NEW leaves, IsSeq(leaves), Len(leaves) > 0
  PROVE  /\ \A k \in 0 .. Len(leaves) : IsSeq(LevelsOver(leaves)[k]) /\ Len(LevelsOver(leaves)[k]) > 0
         /\ Height(leaves) \in 0 .. Len(leaves)
         /\ Len(LevelsOver(leaves)[Height(leaves)]) = 1
         /\ Len(leaves) = 1 => Height(leaves) = 0
         /\ Len(leaves) > 1 => Height(leaves) > 0
<1> DEFINE L == LevelsOver(leaves)
           n == Len(leaves)
           N == {k \in Nat : k <= n =>
                   /\ IsSeq(L[k]) /\ Len(L[k]) > 0
                   /\ Len(L[k]) <= n - k \/ Len(L[k]) = 1}
<1>0. n \in Nat /\ n > 0
  BY DEF IsSeq
<1>1. \A k \in 0 .. n : L[k] = IF k = 0 THEN leaves ELSE PairUp(L[k - 1])
  BY <1>0, LevelsOverDef
<1> HIDE DEF L
<1>2. 0 \in N
  BY <1>0, <1>1
<1>3. ASSUME NEW k \in N PROVE k + 1 \in N
  <2> SUFFICES ASSUME k + 1 <= n
               PROVE  /\ IsSeq(L[k + 1]) /\ Len(L[k + 1]) > 0
                      /\ Len(L[k + 1]) <= n - (k + 1) \/ Len(L[k + 1]) = 1
    OBVIOUS
  <2>1. /\ k \in Nat /\ IsSeq(L[k]) /\ Len(L[k]) > 0
        /\ Len(L[k]) <= n - k \/ Len(L[k]) = 1
    BY <1>0
  <2>2. k + 1 \in 0 .. n /\ k + 1 # 0 /\ (k + 1) - 1 = k
    BY <1>0, <2>1
  <2>3. L[k + 1] = PairUp(L[k])
    BY <1>1, <2>2
  <2>4. IsSeq(L[k + 1]) /\ Len(L[k + 1]) = (Len(L[k]) + 1) \div 2
    BY <2>1, <2>3, PairUpFacts
  <2>5. PICK m \in Nat : m = Len(L[k])
    BY <2>1 DEF IsSeq
  <2>6. m > 0
    BY <2>1, <2>5
  <2>7. PICK half \in Nat : half = (m + 1) \div 2
    OBVIOUS
  <2>8. half > 0 /\ (m = 1 => half = 1) /\ (m > 1 => half <= m - 1)
    BY <2>6, <2>7
  <2>9. Len(L[k + 1]) = half
    BY <2>4, <2>5, <2>7
  <2>10. m <= n - k \/ m = 1
    BY <2>1, <2>5
  <2>11. half <= n - (k + 1) \/ half = 1
    BY <1>0, <2>1, <2>6, <2>8, <2>10
  <2> QED BY <2>4, <2>8, <2>9, <2>11
<1>4. N = Nat
  <2> HIDE DEF N
  <2>1. N \in SUBSET Nat
    BY DEF N
  <2> QED BY <1>2, <1>3, <2>1, NumberInduction
<1>5. \A k \in 0 .. n : /\ IsSeq(L[k]) /\ Len(L[k]) > 0
                        /\ Len(L[k]) <= n - k \/ Len(L[k]) = 1
  BY <1>0, <1>4
<1> DEFINE I == {k \in 0 .. n : Len(L[k]) = 1}
<1>6. PICK h \in I : \A j \in I : h <= j
  <2>1. Len(L[n]) = 1
    <3>1. n \in 0 .. n /\ n - n = 0
      BY <1>0
    <3>2. Len(L[n]) \in Nat /\ Len(L[n]) > 0
      BY <1>5, <3>1 DEF IsSeq
    <3> QED BY <1>5, <3>1, <3>2
  <2>2. n \in I
    BY <1>0, <2>1
  <2>3. I \in SUBSET Nat
    BY <1>0
  <2> HIDE DEF I
  <2> QED BY <2>2, <2>3, SmallestNumber
<1> DEFINE Top(k) == /\ Len(L[k]) = 1
                     /\ \A j \in 0 .. k - 1 : Len(L[j]) > 1
<1>7. h \in 0 .. n /\ Top(h)
  <2>1. ASSUME NEW j \in 0 .. h - 1 PROVE Len(L[j]) > 1
    <3>1. j \in 0 .. n /\ ~(h <= j)
      BY <1>0
    <3>2. Len(L[j]) # 1
      BY <1>6, <3>1
    <3>3. PICK m : m = Len(L[j])
      OBVIOUS
    <3>4. m \in Nat /\ m > 0 /\ m # 1
      BY <1>5, <3>1, <3>2, <3>3 DEF IsSeq
    <3>5. m > 1
      BY <3>4
    <3> QED BY <3>3, <3>5
  <2> QED BY <1>6, <2>1
<1>8. Height(leaves) = CHOOSE k \in 0 .. n : Top(k)
  BY DEF Height, L
<1>9. Height(leaves) \in 0 .. n /\ Top(Height(leaves))
  <2> HIDE DEF Top
  <2> QED BY <1>7, <1>8
<1>10. L[0] = leaves
  BY <1>0, <1>1
<1> HIDE DEF n
<1>11. ASSUME n = 1 PROVE Height(leaves) = 0
  <2> SUFFICES ASSUME Height(leaves) # 0 PROVE FALSE
    OBVIOUS
  <2>1. 0 \in 0 .. Height(leaves) - 1
    BY <1>0, <1>9
  <2>2. Len(leaves) > 1
    BY <1>9, <1>10, <2>1
  <2> QED BY <1>11, <2>2 DEF n
<1>12. ASSUME n > 1 PROVE Height(leaves) > 0
  <2>1. Height(leaves) # 0
    <3> SUFFICES ASSUME Height(leaves) = 0 PROVE FALSE
      OBVIOUS
    <3>1. Len(L[0]) = 1
      BY <1>9
    <3>2. n = 1
      BY <1>10, <3>1 DEF n
    <3> QED BY <1>12, <3>2
  <2> QED BY <1>0, <1>9, <2>1
<1> QED BY <1>5, <1>9, <1>11, <1>12 DEF L, n

\* The proof of each place leads from its leaf to the root.
LEMMA LevelsClimb ==
  ASSUME NEW leaves, IsSeq(leaves), NEW i \in 0 .. Len(leaves) - 1
  PROVE  ComputeRoot(leaves[i + 1], i, LevelsProof(leaves, i)) = LevelsRoot(leaves)
<1> DEFINE L == LevelsOver(leaves)
           n == Len(leaves)
           h == Height(leaves)
           siblings == LevelsProof(leaves, i)
           P == Places(i, h)
           C == Climb(leaves[i + 1], i, siblings)
           N == {k \in Nat : k <= h => P[k] < Len(L[k]) /\ C[k] = L[k][P[k] + 1]}
<1>0. n \in Nat /\ n > 0 /\ i \in Nat
  BY DEF IsSeq
<1>1. /\ \A k \in 0 .. n : IsSeq(L[k]) /\ Len(L[k]) > 0
      /\ h \in 0 .. n /\ Len(L[h]) = 1
  BY <1>0, LevelsShrink
<1>2. \A k \in 0 .. n : L[k] = IF k = 0 THEN leaves ELSE PairUp(L[k - 1])
  BY <1>0, LevelsOverDef
<1>3. siblings = [k \in 1 .. h |-> Padded(L[k - 1])[Neighbour(P[k - 1]) + 1]]
  BY DEF LevelsProof
<1>4. ComputeRoot(leaves[i + 1], i, siblings) = C[Len(siblings)] /\ LevelsRoot(leaves) = L[h][1]
  BY DEF ComputeRoot, LevelsRoot
<1> HIDE DEF h, L
<1>5. Len(siblings) = h /\ h \in Nat
  <2> HIDE DEF P, siblings
  <2> QED BY <1>0, <1>1, <1>3
<1>6. /\ P[0] = i
      /\ \A k \in 0 .. h : P[k] \in Nat
      /\ \A k \in 1 .. h :
           /\ P[k] = P[k - 1] \div 2
           /\ P[k - 1] % 2 = 0 => P[k - 1] = 2 * P[k] /\ Neighbour(P[k - 1]) = 2 * P[k] + 1
           /\ P[k - 1] % 2 # 0 => P[k - 1] = 2 * P[k] + 1 /\ Neighbour(P[k - 1]) = 2 * P[k]
  BY <1>0, <1>5, PlacesFacts
<1>7. \A k \in 0 .. h :
        C[k] = IF k = 0 THEN leaves[i + 1]
               ELSE IF P[k - 1] % 2 = 0 THEN Sha(C[k - 1], siblings[k]) ELSE Sha(siblings[k], C[k - 1])
  <2> HIDE DEF siblings
  <2> QED BY <1>5, ClimbDef
<1> HIDE DEF siblings, P, C
<1>8. 0 \in N
  <2>1. 0 \in 0 .. h /\ 0 \in 0 .. n
    BY <1>0, <1>5
  <2>2. L[0] = leaves /\ C[0] = leaves[i + 1] /\ P[0] = i
    BY <1>2, <1>6, <1>7, <2>1
  <2>3. i < n
    BY <1>0
  <2> QED BY <2>2, <2>3
<1>9. ASSUME NEW k \in N PROVE k + 1 \in N
  <2> SUFFICES ASSUME k + 1 <= h PROVE P[k + 1] < Len(L[k + 1]) /\ C[k + 1] = L[k + 1][P[k + 1] + 1]
    OBVIOUS
  <2>1. k \in Nat /\ P[k] < Len(L[k]) /\ C[k] = L[k][P[k] + 1]
    BY <1>5
  <2>2. /\ k + 1 \in 1 .. h /\ k + 1 \in 0 .. h /\ k + 1 # 0 /\ (k + 1) - 1 = k /\ k \in 0 .. h
        /\ k \in 0 .. n /\ k + 1 \in 0 .. n
    BY <1>0, <1>1, <2>1
  <2>3. IsSeq(L[k]) /\ Len(L[k]) > 0 /\ L[k + 1] = PairUp(L[k])
    BY <1>1, <1>2, <2>2
  <2>4. PICK here \in Nat : here = P[k]
    BY <1>6, <2>2
  <2>5. PICK above \in Nat : above = P[k + 1]
    BY <1>6, <2>2
  <2>6. /\ above = here \div 2
        /\ here % 2 = 0 => here = 2 * above /\ Neighbour(here) = 2 * above + 1
        /\ here % 2 # 0 => here = 2 * above + 1 /\ Neighbour(here) = 2 * above
    BY <1>6, <2>2, <2>4, <2>5
  <2>7. PICK m \in Nat : m = Len(L[k])
    BY <2>3 DEF IsSeq
  <2>8. /\ Len(L[k + 1]) = (m + 1) \div 2
        /\ \A p \in 0 .. Len(L[k + 1]) - 1 :
             L[k + 1][p + 1] = Sha(Padded(L[k])[2 * p + 1], Padded(L[k])[(2 * p + 1) + 1])
        /\ \A q \in 1 .. m : Padded(L[k])[q] = L[k][q]
    BY <2>3, <2>7, PairUpFacts
  <2>9. here < m
    BY <2>1, <2>4, <2>7
  <2>10. above < (m + 1) \div 2 /\ (m + 1) \div 2 \in Nat
    BY <2>6, <2>9
  <2>11. above \in 0 .. Len(L[k + 1]) - 1 /\ here + 1 \in 1 .. m
    BY <2>8, <2>9, <2>10
  <2>12. L[k + 1][above + 1] = Sha(Padded(L[k])[2 * above + 1], Padded(L[k])[(2 * above + 1) + 1])
    BY <2>8, <2>11
  <2>13. C[k] = Padded(L[k])[here + 1]
    BY <2>1, <2>4, <2>8, <2>11
  <2>14. siblings[k + 1] = Padded(L[k])[Neighbour(here) + 1]
    BY <1>3, <2>2, <2>4
  <2>15. C[k + 1] = IF here % 2 = 0 THEN Sha(C[k], siblings[k + 1]) ELSE Sha(siblings[k + 1], C[k])
    BY <1>7, <2>2, <2>4
  <2>16. C[k + 1] = L[k + 1][above + 1]
    <3>1. CASE here % 2 = 0
      BY <2>6, <2>12, <2>13, <2>14, <2>15, <3>1
    <3>2. CASE here % 2 # 0
      BY <2>6, <2>12, <2>13, <2>14, <2>15, <3>2
    <3> QED BY <3>1, <3>2
  <2> QED BY <2>5, <2>8, <2>10, <2>16
<1>10. N = Nat
  <2> HIDE DEF N
  <2>1. N \in SUBSET Nat
    BY DEF N
  <2> QED BY <1>8, <1>9, <2>1, NumberInduction
<1>11. h \in N /\ h <= h /\ h \in 0 .. h
  <2> HIDE DEF N
  <2> QED BY <1>5, <1>10
<1>12. P[h] < Len(L[h]) /\ C[h] = L[h][P[h] + 1] /\ P[h] \in Nat
  BY <1>6, <1>11
<1>13. P[h] = 0
  BY <1>1, <1>12
<1>14. C[h] = L[h][1]
  BY <1>12, <1>13
<1>15. ComputeRoot(leaves[i + 1], i, siblings) = LevelsRoot(leaves)
  BY <1>4, <1>5, <1>14
<1> QED BY <1>15 DEF siblings

\* A root of one leaf is the leaf, and any other is a hash of two nodes.
LEMMA RootsOfOptions ==
  ASSUME NEW leaves, IsSeq(leaves), Len(leaves) > 0
  PROVE  /\ Len(leaves) = 1 => LevelsRoot(leaves) = leaves[1]
         /\ Len(leaves) > 1 => LevelsRoot(leaves)[1] = "sha"
<1> DEFINE L == LevelsOver(leaves)
           h == Height(leaves)
<1>0. Len(leaves) \in Nat
  BY DEF IsSeq
<1>1. /\ \A k \in 0 .. Len(leaves) : IsSeq(L[k]) /\ Len(L[k]) > 0
      /\ h \in 0 .. Len(leaves) /\ Len(L[h]) = 1
      /\ Len(leaves) = 1 => h = 0
      /\ Len(leaves) > 1 => h > 0
  BY LevelsShrink
<1>2. \A k \in 0 .. Len(leaves) : L[k] = IF k = 0 THEN leaves ELSE PairUp(L[k - 1])
  BY <1>0, LevelsOverDef
<1>3. LevelsRoot(leaves) = L[h][1]
  BY DEF LevelsRoot
<1> HIDE DEF L, h
<1>4. ASSUME Len(leaves) = 1 PROVE LevelsRoot(leaves) = leaves[1]
  BY <1>1, <1>2, <1>3, <1>4
<1>5. ASSUME Len(leaves) > 1 PROVE LevelsRoot(leaves)[1] = "sha"
  <2>1. h > 0 /\ h # 0 /\ h - 1 \in 0 .. Len(leaves)
    BY <1>0, <1>1, <1>5
  <2>2. L[h] = PairUp(L[h - 1]) /\ IsSeq(L[h - 1]) /\ Len(L[h - 1]) > 0
    BY <1>1, <1>2, <2>1
  <2>3. 0 \in 0 .. Len(L[h]) - 1 /\ 0 + 1 = 1
    BY <1>1
  <2>4. \A p \in 0 .. Len(PairUp(L[h - 1])) - 1 :
          PairUp(L[h - 1])[p + 1] =
            Sha(Padded(L[h - 1])[2 * p + 1], Padded(L[h - 1])[(2 * p + 1) + 1])
    BY <2>2, PairUpFacts
  <2>5. PICK x, y : L[h][1] = Sha(x, y)
    BY <2>2, <2>3, <2>4
  <2> QED BY <1>3, <2>5 DEF Sha
<1> QED BY <1>4, <1>5

\* A ballot's coin takes the options of its list, and a free ballot's any.
LEMMA VotesAllowed ==
  ASSUME NEW options, options \in Seq(Range(options)), NEW data
  PROVE  VoteIsAllowed(VoteOptionsRoot(options), data, OptionProof(options, data))
           <=> options = <<>> \/ data \in Range(options)
<1> DEFINE leaves == Leaves(options)
           root == VoteOptionsRoot(options)
           proof == OptionProof(options, data)
<1>1. CASE options = <<>>
  <2>1. root = FreeRoot
    BY <1>1 DEF VoteOptionsRoot
  <2>2. VoteIsAllowed(FreeRoot, data, proof)
    BY DEF VoteIsAllowed
  <2> HIDE DEF proof, root
  <2>3. VoteIsAllowed(root, data, proof)
    BY <2>1, <2>2
  <2> QED BY <1>1, <2>3 DEF proof, root
<1>2. CASE options # <<>>
  <2>1. /\ Len(options) \in Nat /\ Len(options) > 0 /\ DOMAIN options = 1 .. Len(options)
        /\ Range(options) = {options[i] : i \in 1 .. Len(options)}
    BY <1>2 DEF Range
  <2>2. leaves = [i \in 1 .. Len(options) |-> OptionLeaf(options[i])]
    BY <2>1 DEF Leaves
  <2> HIDE DEF leaves
  <2>3. IsSeq(leaves) /\ Len(leaves) = Len(options)
    BY <2>1, <2>2 DEF IsSeq
  <2>4. root = LevelsRoot(leaves)
    BY <1>2 DEF VoteOptionsRoot, leaves
  <2> HIDE DEF root
  <2>5. /\ Len(options) = 1 => root = OptionLeaf(options[1])
        /\ Len(options) > 1 => root[1] = "sha"
    <3>1. 1 \in 1 .. Len(options)
      BY <2>1
    <3>2. leaves[1] = OptionLeaf(options[1])
      BY <2>2, <3>1
    <3>3. Len(leaves) > 0
      BY <2>1, <2>3
    <3>4. /\ Len(leaves) = 1 => LevelsRoot(leaves) = leaves[1]
          /\ Len(leaves) > 1 => LevelsRoot(leaves)[1] = "sha"
      BY <2>3, <3>3, RootsOfOptions
    <3> QED BY <2>3, <2>4, <3>2, <3>4
  <2>6. Len(options) = 1 \/ Len(options) > 1
    BY <2>1
  <2>7. root # FreeRoot
    BY <2>5, <2>6 DEF FreeRoot, OptionLeaf
  <2>8. VoteIsAllowed(root, data, proof) <=>
          ComputeRoot(OptionLeaf(data), proof.index, proof.siblings) = root
    BY <2>7 DEF VoteIsAllowed
  <2>9. Contains(options, data) <=> data \in Range(options)
    BY <2>1 DEF Contains
  <2>10. proof = IF IndexOf(data, options) = 0 THEN [index |-> 0, siblings |-> <<>>]
                 ELSE [index    |-> IndexOf(data, options) - 1,
                       siblings |-> LevelsProof(leaves, IndexOf(data, options) - 1)]
    BY DEF OptionProof, IndexOf, leaves
  <2> HIDE DEF proof
  <2>11. CASE data \in Range(options)
    <3>1. PICK i \in 1 .. Len(options) : i = IndexOf(data, options) /\ options[i] = data
      BY <2>1, <2>9, <2>11, IndexOfFinds
    <3>2. proof = [index |-> i - 1, siblings |-> LevelsProof(leaves, i - 1)]
      BY <2>1, <2>10, <3>1
    <3>3. i - 1 \in 0 .. Len(leaves) - 1 /\ (i - 1) + 1 = i
      BY <2>1, <2>3
    <3>4. leaves[(i - 1) + 1] = OptionLeaf(data)
      BY <2>2, <3>1, <3>3
    <3>5. ComputeRoot(leaves[(i - 1) + 1], i - 1, LevelsProof(leaves, i - 1)) = LevelsRoot(leaves)
      BY <2>3, <3>3, LevelsClimb
    <3> QED BY <2>4, <2>8, <2>11, <3>2, <3>4, <3>5 DEF root, proof
  <2>12. CASE data \notin Range(options)
    <3>1. IndexOf(data, options) = 0
      BY <2>9, <2>12 DEF IndexOf, SelectInSeq, Contains
    <3>2. proof = [index |-> 0, siblings |-> <<>>]
      BY <2>10, <3>1
    <3>3. ComputeRoot(OptionLeaf(data), 0, <<>>) = OptionLeaf(data)
      <4>1. Len(<<>>) = 0 /\ 0 \in 0 .. 0
        OBVIOUS
      <4>2. Climb(OptionLeaf(data), 0, <<>>)[0] = OptionLeaf(data)
        BY <4>1, ClimbDef
      <4> QED BY <4>1, <4>2 DEF ComputeRoot
    <3>4. OptionLeaf(data) # root
      <4>1. CASE Len(options) = 1
        <5>1. options[1] # data
          BY <2>1, <2>12, <4>1
        <5> QED BY <2>5, <4>1, <5>1 DEF OptionLeaf
      <4>2. CASE Len(options) > 1
        BY <2>5, <4>2 DEF OptionLeaf
      <4> QED BY <2>6, <4>1, <4>2
    <3> QED BY <1>2, <2>8, <2>12, <3>2, <3>3, <3>4 DEF root, proof
  <2> QED BY <2>11, <2>12
<1> QED BY <1>1, <1>2

----------------------------------------------------------------------------
(* Puzzles.                                                                 *)

\* What the deployer curries is in the range of a coin's integers.
LEMMA ConfigFits ==
  /\ StartHeight \in 0 .. MaxInt /\ CloseHeight \in 0 .. MaxInt /\ MaxVoters \in 0 .. MaxInt
  /\ ThresholdNum \in 0 .. MaxInt /\ ThresholdDen \in 0 .. MaxInt
  /\ CollateralAmount \in 0 .. MaxInt /\ TreeDepth \in 0 .. MaxInt
  /\ MaxInt \in Nat /\ 0 \in 0 .. MaxInt /\ CollateralAmount \in Nat
BY CoinPuzzlesAssumption, ClvmAssumption

\* What the puzzles find in the layers around them.
LEMMA LayersOpen ==
  /\ \A id, inner : SingletonInner(SingletonOuter(id, inner)) = inner
  /\ \A inner : CatInner(CatOuter(inner)) = inner
  /\ \A finalizer, root, h : CurriedArg(LayerPuzzle(finalizer, root, h), 2) = root
BY DEF SingletonInner, SingletonOuter, CatInner, CatOuter, LayerPuzzle, CurriedArg, Curry, Atom

\* A finalizer puts a new state in the same puzzle.
LEMMA LayerRecreates ==
  ASSUME NEW name, NEW hint, NEW root, NEW h, NEW g
  PROVE  Recreate(LayerPuzzle(FinalizerFull(name, hint), root, h), g) =
           LayerPuzzle(FinalizerFull(name, hint), root, g)
<1> DEFINE first == Curry(Mod(name), <<Atom(ActionLayer), Atom(hint)>>)
           finalizer == Curry(first, <<Atom(first)>>)
           inner == LayerPuzzle(finalizer, root, h)
<1>1. FinalizerFull(name, hint) = finalizer
  BY DEF FinalizerFull
<1>2. finalizer[2] = first /\ CurriedArg(finalizer, 1) = first
  <2> HIDE DEF first
  <2> QED BY DEF Curry, CurriedArg, Atom
<1>3. CurriedArg(first, 1) = ActionLayer
  BY DEF Curry, CurriedArg, Atom
<1>4. finalizer = Curry(first, <<Atom(first)>>)
  OBVIOUS
<1>5. inner[3][1] = finalizer /\ CurriedArg(inner, 2) = root
  <2> HIDE DEF finalizer, first
  <2> QED BY DEF LayerPuzzle, Curry, CurriedArg, Atom
<1>6. LayerPuzzle(finalizer, root, g) = Curry(ActionLayer, <<finalizer, Atom(root), g>>)
  BY DEF LayerPuzzle
<1> HIDE DEF finalizer, first, inner
<1>7. Recreate(inner, g) = LayerPuzzle(finalizer, root, g)
  BY <1>2, <1>3, <1>4, <1>5, <1>6 DEF Recreate
<1> QED BY <1>1, <1>7 DEF inner

\* The action puzzles of a coin sort apart.
LEMMA OrderTells ==
  /\ Order["register"] \in Nat /\ Order["create_ballot"] \in Nat /\ Order["deregister"] \in Nat
  /\ Order["register"] # Order["create_ballot"] /\ Order["register"] # Order["deregister"]
  /\ Order["create_ballot"] # Order["deregister"]
  /\ Order["mint_voting_coin"] \in Nat /\ Order["release"] \in Nat
  /\ Order["mint_voting_coin"] # Order["release"]
  /\ Order["finalize"] \in Nat /\ Order["oracle"] \in Nat /\ Order["announce_finalization"] \in Nat
  /\ Order["finalize"] # Order["oracle"] /\ Order["finalize"] # Order["announce_finalization"]
  /\ Order["oracle"] # Order["announce_finalization"]
<1> DEFINE Good(coin) == \A name \in coin :
                Order[name] \in Nat /\ \A other \in coin \ {name} : Order[name] # Order[other]
<1>1. /\ Good({"register", "create_ballot", "deregister"})
      /\ Good({"mint_voting_coin", "release"})
      /\ Good({"finalize", "oracle", "announce_finalization"})
  BY CoinPuzzlesAssumption
<1> QED BY <1>1

\* The modules of the action puzzles.
LEMMA ActionNames ==
  /\ ModName(RegisterAction) = "register" /\ ModName(CreateBallotAction) = "create_ballot"
  /\ ModName(DeregisterAction) = "deregister"
  /\ ModName(MintAction) = "mint_voting_coin" /\ ModName(ReleaseAction) = "release"
  /\ \A b, root, weight : ModName(FinalizeAction(b, root, weight)) = "finalize"
  /\ \A b, optionsRoot : ModName(OracleAction(b, optionsRoot)) = "oracle"
  /\ \A b : ModName(AnnounceAction(b)) = "announce_finalization"
<1>1. \A name, args : ModName(Curry(Mod(name), args)) = name
  BY DEF ModName, Curry, Mod
<1>2. \A name : ModName(Mod(name)) = name
  BY DEF ModName, Mod
<1> QED
  BY <1>1, <1>2 DEF RegisterAction, CreateBallotAction, DeregisterAction, MintAction,
     ReleaseAction, FinalizeAction, OracleAction, AnnounceAction

\* A tree of three actions.
LEMMA ThreeActions ==
  ASSUME NEW a, NEW b, NEW c,
         Order[ModName(a)] \in Nat, Order[ModName(b)] \in Nat, Order[ModName(c)] \in Nat,
         Order[ModName(a)] # Order[ModName(b)], Order[ModName(a)] # Order[ModName(c)],
         Order[ModName(b)] # Order[ModName(c)],
         NEW l, l = SortedLeaves({a, b, c}, Order)
  PROVE  /\ Len(l) = 3 /\ ActionRoot3(l) = TreeRoot(l)
         /\ Contains(l, a) /\ Contains(l, b) /\ Contains(l, c)
         /\ DOMAIN l = 1 .. Len(l)
<1>1. /\ Len(l) = 3 /\ l \in Seq({a, b, c})
      /\ Contains(l, a) /\ Contains(l, b) /\ Contains(l, c)
  <2>1. LET m == SortedLeaves({a, b, c}, Order)
        IN  /\ Len(m) = 3 /\ m \in Seq({a, b, c})
            /\ {m[1], m[2], m[3]} = {a, b, c}
            /\ Contains(m, a) /\ Contains(m, b) /\ Contains(m, c)
    BY ThreeLeaves
  <2> QED BY <2>1
<1>2. ActionRoot3(l) = TreeRoot(l)
  BY <1>1, RootsByHand
<1>3. DOMAIN l = 1 .. Len(l)
  BY <1>1
<1> QED BY <1>1, <1>2, <1>3

\* The deployer and the actors curry the same actions.
LEMMA ElectionTree ==
  /\ DeployedRoot = ElectionRoot
  /\ ElectionRoot = TreeRoot(ElectionLeaves)
  /\ Len(ElectionLeaves) = 3
  /\ Range(ElectionLeaves) = {ElectionLeaves[i] : i \in 1 .. Len(ElectionLeaves)}
  /\ Contains(ElectionLeaves, RegisterAction)
  /\ Contains(ElectionLeaves, CreateBallotAction)
  /\ Contains(ElectionLeaves, DeregisterAction)
<1>1. ClvmInt(TreeDepth) = UintAtom(TreeDepth) /\ ClvmInt(CollateralAmount) = UintAtom(CollateralAmount)
  BY ConfigFits, EncodersAgree
<1>2. /\ DeployedRegister = RegisterAction /\ DeployedCreateBallot = CreateBallotAction
      /\ DeployedDeregister = DeregisterAction
  BY <1>1 DEF DeployedRegister, RegisterAction, DeployedCreateBallot, CreateBallotAction,
     DeployedDeregister, DeregisterAction
<1>3. DeployedRoot = ElectionRoot
  BY <1>2 DEF DeployedRoot, ElectionRoot, ElectionLeaves
<1>4. ElectionLeaves = SortedLeaves({RegisterAction, CreateBallotAction, DeregisterAction}, Order)
  BY DEF ElectionLeaves
<1> HIDE DEF ElectionLeaves
<1>5. /\ Len(ElectionLeaves) = 3 /\ ActionRoot3(ElectionLeaves) = TreeRoot(ElectionLeaves)
      /\ Contains(ElectionLeaves, RegisterAction) /\ Contains(ElectionLeaves, CreateBallotAction)
      /\ Contains(ElectionLeaves, DeregisterAction)
      /\ Range(ElectionLeaves) = {ElectionLeaves[i] : i \in 1 .. Len(ElectionLeaves)}
  <2>1. /\ Order[ModName(RegisterAction)] \in Nat /\ Order[ModName(CreateBallotAction)] \in Nat
        /\ Order[ModName(DeregisterAction)] \in Nat
        /\ Order[ModName(RegisterAction)] # Order[ModName(CreateBallotAction)]
        /\ Order[ModName(RegisterAction)] # Order[ModName(DeregisterAction)]
        /\ Order[ModName(CreateBallotAction)] # Order[ModName(DeregisterAction)]
    BY ActionNames, OrderTells
  <2>2. PICK a, b, c : a = RegisterAction /\ b = CreateBallotAction /\ c = DeregisterAction
    OBVIOUS
  <2>3. /\ Order[ModName(a)] \in Nat /\ Order[ModName(b)] \in Nat /\ Order[ModName(c)] \in Nat
        /\ Order[ModName(a)] # Order[ModName(b)] /\ Order[ModName(a)] # Order[ModName(c)]
        /\ Order[ModName(b)] # Order[ModName(c)]
    BY <2>1, <2>2
  <2>4. PICK l : l = ElectionLeaves
    OBVIOUS
  <2>5. l = SortedLeaves({a, b, c}, Order)
    BY <1>4, <2>2, <2>4
  <2>6. /\ Len(l) = 3 /\ ActionRoot3(l) = TreeRoot(l)
        /\ Contains(l, a) /\ Contains(l, b) /\ Contains(l, c)
        /\ DOMAIN l = 1 .. Len(l)
    BY <2>3, <2>5, ThreeActions
  <2>7. Range(l) = {l[i] : i \in 1 .. Len(l)}
    BY <2>6 DEF Range
  <2> QED BY <2>2, <2>4, <2>6, <2>7
<1> QED BY <1>3, <1>5 DEF ElectionRoot

\* The action tree of a Registration Coin.
LEMMA RegistrationTree ==
  /\ RegistrationRoot = TreeRoot(RegistrationLeaves)
  /\ Len(RegistrationLeaves) = 2
  /\ Contains(RegistrationLeaves, MintAction)
  /\ Contains(RegistrationLeaves, ReleaseAction)
<1>1. /\ Order[ModName(MintAction)] \in Nat /\ Order[ModName(ReleaseAction)] \in Nat
      /\ Order[ModName(MintAction)] # Order[ModName(ReleaseAction)]
  BY ActionNames, OrderTells
<1>2. /\ Len(RegistrationLeaves) = 2
      /\ Contains(RegistrationLeaves, MintAction) /\ Contains(RegistrationLeaves, ReleaseAction)
  BY <1>1, TwoLeaves DEF RegistrationLeaves
<1>3. RegistrationRoot = TreeRoot(RegistrationLeaves)
  BY <1>2, RootsByHand DEF RegistrationRoot
<1> QED BY <1>2, <1>3

\* The action tree of a Ballot Coin, for which the SDK has a formula of its own.
LEMMA BallotTree ==
  ASSUME NEW b, NEW root, NEW weight, NEW optionsRoot,
         NEW l, l = BallotLeaves(b, root, weight, optionsRoot)
  PROVE  /\ ActionRoot3(l) = TreeRoot(l)
         /\ Len(l) = 3
         /\ Contains(l, FinalizeAction(b, root, weight))
         /\ Contains(l, OracleAction(b, optionsRoot))
         /\ Contains(l, AnnounceAction(b))
<1> DEFINE f == FinalizeAction(b, root, weight)
           o == OracleAction(b, optionsRoot)
           a == AnnounceAction(b)
<1>1. l = SortedLeaves({f, o, a}, Order)
  BY DEF BallotLeaves
<1>2. ModName(f) = "finalize" /\ ModName(o) = "oracle" /\ ModName(a) = "announce_finalization"
  BY ActionNames
<1> HIDE DEF f, o, a
<1>3. /\ Order[ModName(f)] \in Nat /\ Order[ModName(o)] \in Nat /\ Order[ModName(a)] \in Nat
      /\ Order[ModName(f)] # Order[ModName(o)] /\ Order[ModName(f)] # Order[ModName(a)]
      /\ Order[ModName(o)] # Order[ModName(a)]
  BY <1>2, OrderTells
<1>4. Len(l) = 3 /\ ActionRoot3(l) = TreeRoot(l) /\ Contains(l, f) /\ Contains(l, o) /\ Contains(l, a)
  BY <1>1, <1>3, ThreeActions
<1> QED BY <1>4 DEF f, o, a

\* The action tree of a Voting Coin, a single leaf.
LEMMA VotingTree ==
  /\ VotingRoot = TreeRoot(<<Mod("update_vote")>>)
  /\ Len(<<Mod("update_vote")>>) = 1
  /\ Contains(<<Mod("update_vote")>>, Mod("update_vote"))
<1> DEFINE l == <<Mod("update_vote")>>
<1>1. Len(l) = 1 /\ l[1] = Mod("update_vote")
  OBVIOUS
<1> HIDE DEF l
<1>2. TreeRoot(l) = ActionRoot1(l) /\ Contains(l, Mod("update_vote"))
  BY <1>1, RootsByHand DEF Contains
<1> QED BY <1>1, <1>2 DEF VotingRoot, l

----------------------------------------------------------------------------
(* States as the puzzles and the SDK hash them.                             *)

StateFits(s) ==
  /\ s = [root |-> s.root, count |-> s.count, weight |-> s.weight, start |-> StartHeight,
          ceremony |-> Name("ceremony"), maxVoters |-> MaxVoters, vk |-> Name("vk"),
          lock |-> s.lock]
  /\ s.count \in 0 .. MaxInt /\ s.weight \in 0 .. MaxInt

\* The SDK hashes an election's state as the finalizer in Rue does, as long as
\* its integers are in range.
LEMMA StatesAgree ==
  ASSUME NEW s, StateFits(s)
  PROVE  RueElectionState(s) = ElectionStateHash(s)
<1>1. s.start = StartHeight /\ s.maxVoters = MaxVoters
  BY DEF StateFits
<1>2. /\ s.count \in 0 .. MaxInt /\ s.weight \in 0 .. MaxInt
      /\ s.start \in 0 .. MaxInt /\ s.maxVoters \in 0 .. MaxInt
  BY <1>1, ConfigFits DEF StateFits
<1>3. /\ ClvmInt(s.count) = UintAtom(s.count) /\ ClvmInt(s.weight) = UintAtom(s.weight)
      /\ ClvmInt(s.start) = UintAtom(s.start) /\ ClvmInt(s.maxVoters) = UintAtom(s.maxVoters)
  BY <1>2, EncodersAgree
<1> QED BY <1>3 DEF RueElectionState, ElectionStateHash

\* The register action creates the coin the SDK looks for.
LEMMA FreshCoinsAgree ==
  ASSUME NEW v
  PROVE  /\ RueFreshRegistration(RegisterAction, v) = FreshRegistrationCoin(v)
         /\ Unsigned(CurriedArg(RegisterAction, 8)[2]) = CollateralAmount
         /\ CurriedArg(CreateBallotAction, 3) = NoLock
<1>1. /\ CurriedArg(RegisterAction, 3) = CatMod /\ CurriedArg(RegisterAction, 4) = CatTail
      /\ CurriedArg(RegisterAction, 5) = ActionLayer
      /\ CurriedArg(RegisterAction, 6) = Mod("registration_finalizer")
      /\ CurriedArg(RegisterAction, 7) = RegistrationRoot
      /\ CurriedArg(RegisterAction, 8) = ClvmInt(CollateralAmount)[2]
      /\ CurriedArg(RegisterAction, 9) = ElectionId
      /\ CurriedArg(RegisterAction, 10) = EmptySubtree[TreeDepth]
  <2> HIDE DEF ClvmInt
  <2> QED BY DEF RegisterAction, CurriedArg, Curry, Atom
<1>2. RueFreshRegistration(RegisterAction, v) = FreshRegistrationCoin(v)
  BY <1>1 DEF RueFreshRegistration, FreshRegistrationCoin, CatOuter, RegistrationInner,
     LayerPuzzle, FinalizerFull, VoterHint, RueRegistrationState, RegistrationStateHash
<1>3. ClvmInt(CollateralAmount)[2][2] = SdkBytes(CollateralAmount)
  BY ConfigFits, EncodersAgree DEF Atom
<1>4. Unsigned(CurriedArg(RegisterAction, 8)[2]) = CollateralAmount
  BY <1>1, <1>3, ConfigFits, EncodersAgree
<1>5. CurriedArg(CreateBallotAction, 3) = NoLock
  BY DEF CreateBallotAction, CurriedArg, Curry, Atom
<1> QED BY <1>2, <1>4, <1>5

\* The mint action creates the coin the SDK looks for.
LEMMA MintedCoinsAgree ==
  ASSUME NEW v, NEW b, NEW data, NEW from
  PROVE  CatOuter(RueVotingCoin(MintAction, v, b, data, from)) = VotingCoin(v, b, data, from)
<1>1. /\ CurriedArg(MintAction, 2) = CatTail /\ CurriedArg(MintAction, 3) = ActionLayer
      /\ CurriedArg(MintAction, 4) = Mod("voting_coin_finalizer")
      /\ CurriedArg(MintAction, 5) = VotingRoot
  BY DEF MintAction, CurriedArg, Curry, Atom
<1> QED BY <1>1 DEF RueVotingCoin, VotingCoin, LayerPuzzle, FinalizerFull, VotingCoinHint,
     RueVotingState, VotingStateHash

\* What the oracle of a ballot announces is what a mint asserts.
LEMMA OraclesAgree ==
  ASSUME NEW b, NEW optionsRoot
  PROVE  RueOracleMessage(OracleAction(b, optionsRoot)) = RueAssertedMessage(b, CloseHeight, optionsRoot)
<1> HIDE DEF ClvmInt
<1>1. /\ CurriedArg(OracleAction(b, optionsRoot), 1) = b
      /\ CurriedArg(OracleAction(b, optionsRoot), 2) = ClvmInt(CloseHeight)[2]
      /\ CurriedArg(OracleAction(b, optionsRoot), 3) = optionsRoot
  BY DEF OracleAction, CurriedArg, Curry, Atom
<1> QED BY <1>1 DEF RueOracleMessage, RueAssertedMessage

\* The voted root a running Registration Coin finds in its state.
LEMMA VotedRootReads ==
  ASSUME NEW v, NEW voted
  PROVE  CatInner(CatOuter(RegistrationInner(v, voted)))[3][3][3][3][2][2] = voted
<1>1. CatInner(CatOuter(RegistrationInner(v, voted))) = RegistrationInner(v, voted)
  BY LayersOpen
<1>2. RegistrationInner(v, voted)[3][3] = RegistrationStateHash(v, voted)
  BY DEF RegistrationInner, LayerPuzzle, Curry
<1>3. RegistrationStateHash(v, voted)[3][3][2][2] = voted
  BY DEF RegistrationStateHash, Pair, Atom
<1> QED BY <1>1, <1>2, <1>3

----------------------------------------------------------------------------
(* The number of registered voters and their weight, as sums over the slots.*)

\* A function on the slots has this sum: the sums of its first values lead to
\* it.
SumsTo(f, total) ==
  \E p \in [0 .. MaxSlot + 1 -> Nat] :
    /\ p[0] = 0 /\ p[MaxSlot + 1] = total
    /\ \A k \in Slots : p[k + 1] = p[k] + f[k]

Occupied(t) == [slot \in Slots |-> IF slot \in DOMAIN t THEN 1 ELSE 0]
Weights(t) == [slot \in Slots |-> IF slot \in DOMAIN t THEN t[slot].amount ELSE 0]

----------------------------------------------------------------------------
(* The inductive invariant.                                                 *)

\* The leaves of the voters' tree, and of one voter's ballots.
VoterLeaves(t) == [slot \in DOMAIN t |-> ActiveLeaf(t[slot].voter, t[slot].amount)]
VoteLeaves(cast) ==
  [slot \in {SlotOf[c] : c \in Range(cast)} |->
     VotedLeaf(CHOOSE c \in Range(cast) : SlotOf[c] = slot)]

\* The election's coin follows its state, whose root is that of the voters'
\* tree and whose integers the coin can hold.
ElectionFits ==
  /\ StateFits(state)
  /\ state.root = Root(VoterLeaves(tree))
  /\ election = SingletonOuter(ElectionId, ElectionInner(state))

TreeFits == IsTree(tree) /\ \A slot \in DOMAIN tree : tree[slot].amount \in Nat

\* Its count and its weight are those of the tree: the deregister action never
\* takes more than there is.
SumsFit == SumsTo(Occupied(tree), state.count) /\ SumsTo(Weights(tree), state.weight)

\* Ballots no two of which share a slot.
Apart(cast) ==
  /\ cast \in Seq(Ballot)
  /\ \A c, d \in Range(cast) : SlotOf[c] = SlotOf[d] => c = d

\* A voter's coins: one per vote after the first one, no two votes in one slot.
RegFits(v, r) ==
  /\ v \in Voter
  /\ r = [coins |-> r.coins, cast |-> r.cast]
  /\ Apart(r.cast)
  /\ IsSeq(r.coins)
  /\ Len(r.coins) = Len(r.cast) + 1
  /\ r.coins[1] = FreshRegistrationCoin(v)
  /\ r.coins[Len(r.coins)] = CatOuter(RegistrationInner(v, VotedBallotsRoot(r.cast)))
RegsFit == \A v \in DOMAIN reg : RegFits(v, reg[v])

VoteFits(p, r) ==
  /\ p = <<p[1], p[2]>>
  /\ r = [coin |-> r.coin, data |-> r.data, from |-> r.from]
  /\ r.coin = VotingCoin(p[1], p[2], r.data, r.from)
VotesFit == \A p \in DOMAIN vote : p[2] \in DOMAIN ballot /\ VoteFits(p, vote[p])

BallotRecord(r) ==
  r = [coin |-> r.coin, parent |-> r.parent, options |-> r.options,
       root |-> r.root, weight |-> r.weight, state |-> r.state]

\* An open ballot's coin was never anything but open: its parent's inner puzzle
\* is its own, or there is none.
BallotFits(b, r) ==
  LET leaves == BallotLeaves(b, r.root, r.weight, OptionsRoot[r.options])
  IN  /\ b \in Ballot /\ r.options \in Modes[b]
      /\ BallotRecord(r)
      /\ r.coin = SingletonOuter(b, BallotInner(b, leaves, r.state))
      /\ r.state.finalized \in BOOLEAN
      /\ ~r.state.finalized =>
           /\ r.state = FreshBallot
           /\ r.parent = Launcher \/ r.parent = BallotInner(b, leaves, FreshBallot)
BallotsFit == \A b \in DOMAIN ballot : BallotFits(b, ballot[b])

IInv == ElectionFits /\ TreeFits /\ SumsFit /\ RegsFit /\ VotesFit /\ BallotsFit

----------------------------------------------------------------------------
(* Sums over the slots.                                                     *)

\* Slots are the numbers below the width of the tree.
LEMMA SlotFacts == MaxSlot \in Nat /\ Slots = 0 .. MaxSlot /\ 0 \in Slots
<1>1. TreeDepth \in Level
  BY DepthFacts
<1>2. Span[TreeDepth] \in Nat \ {0}
  BY <1>1, SpanFacts
<1> QED BY <1>2 DEF MaxSlot, Slots

\* The sums up to a place are not more than the whole.
LEMMA SumsGrow ==
  ASSUME NEW n \in Nat, NEW p \in [0 .. n -> Nat], \A k \in 0 .. n - 1 : p[k] <= p[k + 1]
  PROVE  \A i \in 0 .. n : \A k \in i .. n : p[i] <= p[k]
<1> SUFFICES ASSUME NEW i \in 0 .. n
             PROVE  \A k \in i .. n : p[i] <= p[k]
  OBVIOUS
<1> DEFINE G == {d \in Nat : i + d <= n => p[i] <= p[i + d]}
<1>1. G \in SUBSET Nat
  OBVIOUS
<1>2. 0 \in G
  <2>1. p[i] \in Nat /\ i + 0 = i
    OBVIOUS
  <2> QED BY <2>1
<1>3. \A d \in G : d + 1 \in G
  <2> SUFFICES ASSUME NEW d \in Nat, d \in G, i + (d + 1) <= n
               PROVE  p[i] <= p[i + (d + 1)]
    OBVIOUS
  <2>1. i + d \in 0 .. n - 1 /\ i + (d + 1) = (i + d) + 1
    OBVIOUS
  <2>2. p[i] <= p[i + d] /\ p[i + d] <= p[(i + d) + 1]
    BY <2>1
  <2>3. p[i] \in Nat /\ p[i + d] \in Nat /\ p[(i + d) + 1] \in Nat
    BY <2>1
  <2> QED BY <2>1, <2>2, <2>3
<1> HIDE DEF G
<1>4. G = Nat
  BY <1>1, <1>2, <1>3, NumberInduction
<1> SUFFICES ASSUME NEW k \in i .. n
             PROVE  p[i] <= p[k]
  OBVIOUS
<1>5. k - i \in G /\ i + (k - i) = k
  BY <1>4
<1> QED BY <1>5 DEF G

\* One value of the function changes the sum by as much.
LEMMA SumsAt ==
  ASSUME NEW f \in [Slots -> Nat], NEW g \in [Slots -> Nat], NEW j \in Slots,
         \A k \in Slots : k # j => g[k] = f[k],
         NEW total, SumsTo(f, total)
  PROVE  /\ total \in Nat /\ f[j] <= total
         /\ SumsTo(g, (total - f[j]) + g[j])
<1> PICK n : n = MaxSlot
  OBVIOUS
<1>1. n \in Nat /\ Slots = 0 .. n /\ j \in 0 .. n
  BY SlotFacts
<1>2. PICK p \in [0 .. n + 1 -> Nat] :
        p[0] = 0 /\ p[n + 1] = total /\ \A k \in 0 .. n : p[k + 1] = p[k] + f[k]
  BY <1>1 DEF SumsTo
<1>3. \A k \in 0 .. n : f[k] \in Nat /\ g[k] \in Nat
  BY <1>1
<1>4. \A k \in 0 .. n : p[k] <= p[k + 1]
  <2> TAKE k \in 0 .. n
  <2>1. p[k] \in Nat /\ p[k + 1] = p[k] + f[k] /\ f[k] \in Nat
    BY <1>1, <1>2, <1>3
  <2> QED BY <2>1
<1>5. \A k \in j + 1 .. n + 1 : p[j + 1] <= p[k]
  <2>1. n + 1 \in Nat /\ j + 1 \in 0 .. n + 1 /\ (n + 1) - 1 = n
    BY <1>1
  <2> QED BY <1>4, <2>1, SumsGrow
<1>6. p[j + 1] = p[j] + f[j] /\ p[j] \in Nat /\ f[j] \in Nat /\ g[j] \in Nat
  BY <1>1, <1>2, <1>3
<1>7. total \in Nat /\ f[j] <= total
  <2>1. n + 1 \in j + 1 .. n + 1 /\ n + 1 \in 0 .. n + 1
    BY <1>1
  <2>2. p[j + 1] <= p[n + 1] /\ p[n + 1] = total /\ p[n + 1] \in Nat
    BY <2>1, <1>5, <1>2
  <2> QED BY <2>2, <1>6
<1> DEFINE q == [k \in 0 .. n + 1 |-> IF k > j THEN (p[k] - f[j]) + g[j] ELSE p[k]]
<1>8. q \in [0 .. n + 1 -> Nat]
  <2> SUFFICES ASSUME NEW k \in 0 .. n + 1
               PROVE  (IF k > j THEN (p[k] - f[j]) + g[j] ELSE p[k]) \in Nat
    OBVIOUS
  <2>1. p[k] \in Nat
    OBVIOUS
  <2>2. CASE k > j
    <3>1. k \in j + 1 .. n + 1
      BY <2>2, <1>1
    <3>2. p[j + 1] <= p[k]
      BY <3>1, <1>5
    <3> QED BY <3>2, <2>1, <1>6
  <2> QED BY <2>1, <2>2
<1>9. q[0] = 0 /\ q[n + 1] = (total - f[j]) + g[j]
  BY <1>1, <1>2
<1>10. \A k \in 0 .. n : q[k + 1] = q[k] + g[k]
  <2> TAKE k \in 0 .. n
  <2>1. /\ q[k] = IF k > j THEN (p[k] - f[j]) + g[j] ELSE p[k]
        /\ q[k + 1] = IF k + 1 > j THEN (p[k + 1] - f[j]) + g[j] ELSE p[k + 1]
        /\ p[k + 1] = p[k] + f[k]
    <3>1. k \in 0 .. n + 1 /\ k + 1 \in 0 .. n + 1
      BY <1>1
    <3>2. p[k + 1] = p[k] + f[k]
      BY <1>2
    <3> QED BY <3>1, <3>2
  <2>2. p[k] \in Nat /\ p[k + 1] \in Nat /\ f[k] \in Nat /\ g[k] \in Nat /\ f[j] \in Nat /\ g[j] \in Nat
    BY <1>1, <1>3
  <2>3. k # j => g[k] = f[k]
    BY <1>1
  <2> HIDE DEF q
  <2>4. CASE k = j
    BY <2>1, <2>2, <2>4, <1>1
  <2>5. CASE k # j
    BY <2>1, <2>2, <2>3, <2>5, <1>1
  <2> QED BY <2>4, <2>5
<1> HIDE DEF q
<1>11. SumsTo(g, (total - f[j]) + g[j])
  BY <1>1, <1>8, <1>9, <1>10 DEF SumsTo
<1> QED BY <1>7, <1>11

\* Nothing adds up to nothing.
LEMMA SumOfNothing ==
  ASSUME NEW f, \A k \in Slots : f[k] = 0
  PROVE  SumsTo(f, 0)
<1> DEFINE p == [k \in 0 .. MaxSlot + 1 |-> 0]
<1>1. MaxSlot \in Nat /\ Slots = 0 .. MaxSlot
  BY SlotFacts
<1>2. p \in [0 .. MaxSlot + 1 -> Nat] /\ p[0] = 0 /\ p[MaxSlot + 1] = 0
  BY <1>1
<1>3. \A k \in Slots : p[k + 1] = p[k] + f[k]
  BY <1>1
<1> HIDE DEF p
<1> QED BY <1>2, <1>3 DEF SumsTo

----------------------------------------------------------------------------
(* What a step does to the trees.                                           *)

\* A proof accepts exactly the leaf that is there, and gives the root of the
\* tree with another one in its place.
LEMMA ProofsTell ==
  ASSUME NEW t, IsTree(t), NEW i \in Slots
  PROVE  /\ \A x : ComputeRoot(x, i, Prove(t, i)) = Root(t) <=> x = LeafAt(t, i)
         /\ \A u : IsTree(u) /\ SameBut(t, u, i) =>
              ComputeRoot(LeafAt(u, i), i, Prove(t, i)) = Root(u)
<1>1. Prove(t, i) = [k \in 1 .. TreeDepth |-> Prove(t, i)[k]]
  BY DEF Prove
<1>2. TreeDepth \in Nat /\ i \in Nat
  BY DepthFacts, SlotFacts
<1> PICK siblings : siblings = Prove(t, i)
  OBVIOUS
<1>3. Len(siblings) = TreeDepth /\ \A k \in 1 .. TreeDepth : siblings[k] = Prove(t, i)[k]
  BY <1>1, <1>2
<1>4. \A u : IsTree(u) /\ SameBut(t, u, i) => ComputeRoot(LeafAt(u, i), i, siblings) = Root(u)
  BY <1>3, ProofsClimb
<1>5. SameBut(t, t, i)
  BY DEF SameBut
<1>6. ComputeRoot(LeafAt(t, i), i, siblings) = Root(t)
  BY <1>4, <1>5
<1>7. ASSUME NEW x, ComputeRoot(x, i, siblings) = Root(t)
      PROVE  x = LeafAt(t, i)
  <2> PICK y : y = LeafAt(t, i)
    OBVIOUS
  <2>1. ComputeRoot(x, i, siblings) = ComputeRoot(y, i, siblings)
    BY <1>6, <1>7
  <2>2. x = y
    BY <2>1, <1>2, <1>3, RootsTellLeaves
  <2> QED BY <2>2
<1> QED BY <1>4, <1>6, <1>7

\* A slot's leaf says whether a voter is registered there.
LEMMA VoterLeavesFacts ==
  ASSUME NEW t, IsTree(t)
  PROVE  /\ IsTree(VoterLeaves(t))
         /\ \A slot : LeafAt(VoterLeaves(t), slot) =
              IF slot \in DOMAIN t THEN ActiveLeaf(t[slot].voter, t[slot].amount) ELSE EmptyLeaf
         /\ \A slot : LeafAt(VoterLeaves(t), slot) = EmptyLeaf <=> slot \notin DOMAIN t
<1>1. DOMAIN VoterLeaves(t) = DOMAIN t
  BY DEF VoterLeaves
<1>2. IsTree(VoterLeaves(t))
  BY <1>1 DEF IsTree
<1>3. \A slot : LeafAt(VoterLeaves(t), slot) =
              IF slot \in DOMAIN t THEN ActiveLeaf(t[slot].voter, t[slot].amount) ELSE EmptyLeaf
  BY <1>1 DEF LeafAt, VoterLeaves
<1>4. \A v, amount : ActiveLeaf(v, amount) # EmptyLeaf
  <2> TAKE v, amount
  <2>1. ActiveLeaf(v, amount)[1] = "active" /\ EmptyLeaf[1] = "empty_leaf"
    BY DEF ActiveLeaf, EmptyLeaf
  <2> QED BY <2>1
<1> QED BY <1>2, <1>3, <1>4

\* Registration needs the voter's slot free, and fills it.
LEMMA RegistersInTree ==
  ASSUME NEW t, IsTree(t), NEW v \in Voter, NEW amount, NEW i, i = SlotOf[v],
         NEW u, u = Extend(t, i, [voter |-> v, amount |-> amount])
  PROVE  /\ i \in Slots
         /\ ComputeRoot(EmptyLeaf, i, Prove(VoterLeaves(t), i)) = Root(VoterLeaves(t)) <=> i \notin DOMAIN t
         /\ IsTree(u)
         /\ ComputeRoot(ActiveLeaf(v, amount), i, Prove(VoterLeaves(t), i)) = Root(VoterLeaves(u))
<1>1. i \in Slots
  BY CoinPuzzlesAssumption
<1>2. DOMAIN u = DOMAIN t \cup {i} /\ u[i] = [voter |-> v, amount |-> amount]
      /\ \A slot \in DOMAIN t : slot # i => u[slot] = t[slot]
  BY DEF Extend
<1>3. IsTree(u)
  BY <1>1, <1>2 DEF IsTree
<1>4. u[i].voter = v /\ u[i].amount = amount
  BY <1>2
<1>5. LeafAt(VoterLeaves(u), i) = ActiveLeaf(v, amount)
  BY <1>2, <1>3, <1>4, VoterLeavesFacts
<1>6. SameBut(VoterLeaves(t), VoterLeaves(u), i)
  <2> SUFFICES ASSUME NEW slot \in Nat, slot # i
               PROVE  LeafAt(VoterLeaves(t), slot) = LeafAt(VoterLeaves(u), slot)
    BY DEF SameBut
  <2>1. slot \in DOMAIN t <=> slot \in DOMAIN u
    BY <1>2
  <2>2. slot \in DOMAIN t => t[slot] = u[slot]
    BY <1>2
  <2> QED BY <2>1, <2>2, <1>3, VoterLeavesFacts
<1>7. IsTree(VoterLeaves(t)) /\ IsTree(VoterLeaves(u))
  BY <1>3, VoterLeavesFacts
<1>8. ComputeRoot(LeafAt(VoterLeaves(u), i), i, Prove(VoterLeaves(t), i)) = Root(VoterLeaves(u))
  BY <1>1, <1>6, <1>7, ProofsTell
<1>9. ComputeRoot(EmptyLeaf, i, Prove(VoterLeaves(t), i)) = Root(VoterLeaves(t))
        <=> EmptyLeaf = LeafAt(VoterLeaves(t), i)
  BY <1>1, <1>7, ProofsTell
<1>10. LeafAt(VoterLeaves(t), i) = EmptyLeaf <=> i \notin DOMAIN t
  BY VoterLeavesFacts
<1> QED BY <1>1, <1>3, <1>5, <1>8, <1>9, <1>10

\* Deregistration proves the voter's leaf, and empties its slot.
LEMMA LeavesTree ==
  ASSUME NEW t, IsTree(t), NEW i \in DOMAIN t, NEW u, u = Without(t, i)
  PROVE  /\ i \in Slots
         /\ ComputeRoot(ActiveLeaf(t[i].voter, t[i].amount), i, Prove(VoterLeaves(t), i)) = Root(VoterLeaves(t))
         /\ IsTree(u)
         /\ ComputeRoot(EmptyLeaf, i, Prove(VoterLeaves(t), i)) = Root(VoterLeaves(u))
<1>1. i \in Slots
  BY DEF IsTree
<1>2. DOMAIN u = DOMAIN t \ {i} /\ \A slot \in DOMAIN u : u[slot] = t[slot]
  BY DEF Without
<1>3. IsTree(u)
  BY <1>2 DEF IsTree
<1>5. /\ LeafAt(VoterLeaves(u), i) = EmptyLeaf
      /\ LeafAt(VoterLeaves(t), i) = ActiveLeaf(t[i].voter, t[i].amount)
  BY <1>2, <1>3, VoterLeavesFacts
<1>6. SameBut(VoterLeaves(t), VoterLeaves(u), i)
  <2> SUFFICES ASSUME NEW slot \in Nat, slot # i
               PROVE  LeafAt(VoterLeaves(t), slot) = LeafAt(VoterLeaves(u), slot)
    BY DEF SameBut
  <2>1. slot \in DOMAIN t <=> slot \in DOMAIN u
    BY <1>2
  <2>2. slot \in DOMAIN u => t[slot] = u[slot]
    BY <1>2
  <2> QED BY <2>1, <2>2, <1>3, VoterLeavesFacts
<1>7. IsTree(VoterLeaves(t)) /\ IsTree(VoterLeaves(u))
  BY <1>3, VoterLeavesFacts
<1>8. ComputeRoot(LeafAt(VoterLeaves(u), i), i, Prove(VoterLeaves(t), i)) = Root(VoterLeaves(u))
  BY <1>1, <1>6, <1>7, ProofsTell
<1>9. ComputeRoot(LeafAt(VoterLeaves(t), i), i, Prove(VoterLeaves(t), i)) = Root(VoterLeaves(t))
  BY <1>1, <1>7, ProofsTell
<1> QED BY <1>1, <1>3, <1>5, <1>8, <1>9

\* The leaves of the ballots a voter voted on, if no two share a slot.
LEMMA VoteLeavesFacts ==
  ASSUME NEW cast \in Seq(Ballot),
         \A c, d \in Range(cast) : SlotOf[c] = SlotOf[d] => c = d
  PROVE  /\ IsTree(VoteLeaves(cast))
         /\ \A c \in Range(cast) : LeafAt(VoteLeaves(cast), SlotOf[c]) = VotedLeaf(c)
         /\ \A slot : (\A c \in Range(cast) : SlotOf[c] # slot)
                        <=> LeafAt(VoteLeaves(cast), slot) = EmptyLeaf
         /\ VotedBallotsRoot(cast) = Root(VoteLeaves(cast))
<1>1. Range(cast) \subseteq Ballot
  BY DEF Range
<1>2. \A c \in Range(cast) : SlotOf[c] \in Slots
  BY <1>1, CoinPuzzlesAssumption
<1>3. DOMAIN VoteLeaves(cast) = {SlotOf[c] : c \in Range(cast)}
  BY DEF VoteLeaves
<1>4. IsTree(VoteLeaves(cast))
  BY <1>2, <1>3 DEF IsTree
<1>5. \A c : VotedLeaf(c) # EmptyLeaf
  <2> TAKE c
  <2>1. VotedLeaf(c)[1] = "sha256" /\ EmptyLeaf[1] = "empty_leaf"
    BY DEF VotedLeaf, EmptyLeaf
  <2> QED BY <2>1
<1>6. ASSUME NEW c \in Range(cast)
      PROVE  SlotOf[c] \in DOMAIN VoteLeaves(cast) /\ VoteLeaves(cast)[SlotOf[c]] = VotedLeaf(c)
  <2>1. SlotOf[c] \in {SlotOf[d] : d \in Range(cast)}
    OBVIOUS
  <2>2. (CHOOSE d \in Range(cast) : SlotOf[d] = SlotOf[c]) = c
    OBVIOUS
  <2>3. VoteLeaves(cast)[SlotOf[c]] = VotedLeaf(CHOOSE d \in Range(cast) : SlotOf[d] = SlotOf[c])
    BY <2>1 DEF VoteLeaves
  <2> QED BY <2>1, <2>2, <2>3, <1>3
<1>7. \A c \in Range(cast) : LeafAt(VoteLeaves(cast), SlotOf[c]) = VotedLeaf(c)
  BY <1>6 DEF LeafAt
<1>8. \A slot : (\A c \in Range(cast) : SlotOf[c] # slot) => LeafAt(VoteLeaves(cast), slot) = EmptyLeaf
  BY <1>3 DEF LeafAt
<1>9. VoteLeaves(cast) = [slot \in DOMAIN VoteLeaves(cast) |-> VoteLeaves(cast)[slot]]
  BY DEF VoteLeaves
<1>10. RootAfterInserts(VoteLeaves(cast)) = Root(VoteLeaves(cast))
  BY <1>4, <1>9, InsertsGiveRoot
<1>11. VotedBallotsRoot(cast) = RootAfterInserts(VoteLeaves(cast))
  BY DEF VotedBallotsRoot, VoteLeaves
<1> QED BY <1>4, <1>5, <1>7, <1>8, <1>10, <1>11

\* The elements of a longer sequence.
LEMMA RangeOfAppend ==
  ASSUME NEW S, NEW s \in Seq(S), NEW e
  PROVE  Range(Append(s, e)) = Range(s) \cup {e}
<1>1. /\ Append(s, e) \in Seq(S \cup {e}) /\ Len(Append(s, e)) = Len(s) + 1
      /\ Append(s, e)[Len(s) + 1] = e
      /\ \A k \in 1 .. Len(s) : Append(s, e)[k] = s[k]
  BY AppendAny
<1>2. DOMAIN Append(s, e) = 1 .. Len(s) + 1 /\ DOMAIN s = 1 .. Len(s) /\ Len(s) \in Nat
  BY <1>1
<1> QED BY <1>1, <1>2 DEF Range

\* A vote needs the ballot's slot free in the voter's tree, and fills it.
LEMMA VotesInTree ==
  ASSUME NEW cast, Apart(cast), NEW b \in Ballot,
         ComputeRoot(EmptyLeaf, SlotOf[b], Prove(VoteLeaves(cast), SlotOf[b])) = VotedBallotsRoot(cast)
  PROVE  /\ Apart(Append(cast, b))
         /\ ComputeRoot(VotedLeaf(b), SlotOf[b], Prove(VoteLeaves(cast), SlotOf[b]))
              = VotedBallotsRoot(Append(cast, b))
<1> PICK longer : longer = Append(cast, b)
  OBVIOUS
<1> PICK i : i = SlotOf[b]
  OBVIOUS
<1> PICK siblings : siblings = Prove(VoteLeaves(cast), i)
  OBVIOUS
<1>0. cast \in Seq(Ballot) /\ \A c, d \in Range(cast) : SlotOf[c] = SlotOf[d] => c = d
  BY DEF Apart
<1>1. i \in Slots
  BY CoinPuzzlesAssumption
<1>2. Range(longer) = Range(cast) \cup {b}
  BY <1>0, RangeOfAppend
<1>3. IsTree(VoteLeaves(cast)) /\ VotedBallotsRoot(cast) = Root(VoteLeaves(cast))
  BY <1>0, VoteLeavesFacts
<1>4. EmptyLeaf = LeafAt(VoteLeaves(cast), i)
  BY <1>1, <1>3, ProofsTell
<1>5. \A c \in Range(cast) : SlotOf[c] # i
  BY <1>0, <1>4, VoteLeavesFacts
<1>6. longer \in Seq(Ballot)
  BY <1>0
<1>7. \A c, d \in Range(longer) : SlotOf[c] = SlotOf[d] => c = d
  BY <1>0, <1>2, <1>5
<1>8. /\ IsTree(VoteLeaves(longer)) /\ LeafAt(VoteLeaves(longer), i) = VotedLeaf(b)
      /\ VotedBallotsRoot(longer) = Root(VoteLeaves(longer))
  BY <1>2, <1>6, <1>7, VoteLeavesFacts
<1>9. SameBut(VoteLeaves(cast), VoteLeaves(longer), i)
  <2> SUFFICES ASSUME NEW slot \in Nat, slot # i
               PROVE  LeafAt(VoteLeaves(cast), slot) = LeafAt(VoteLeaves(longer), slot)
    BY DEF SameBut
  <2>1. CASE \E c \in Range(cast) : SlotOf[c] = slot
    <3> PICK c \in Range(cast) : SlotOf[c] = slot
      BY <2>1
    <3>1. LeafAt(VoteLeaves(cast), SlotOf[c]) = VotedLeaf(c)
      BY <1>0, VoteLeavesFacts
    <3>2. LeafAt(VoteLeaves(longer), SlotOf[c]) = VotedLeaf(c)
      BY <1>2, <1>6, <1>7, VoteLeavesFacts
    <3> QED BY <3>1, <3>2
  <2>2. CASE \A c \in Range(cast) : SlotOf[c] # slot
    <3>1. \A c \in Range(longer) : SlotOf[c] # slot
      BY <2>2, <1>2
    <3>2. LeafAt(VoteLeaves(cast), slot) = EmptyLeaf
      BY <1>0, <2>2, VoteLeavesFacts
    <3>3. LeafAt(VoteLeaves(longer), slot) = EmptyLeaf
      BY <3>1, <1>6, <1>7, VoteLeavesFacts
    <3> QED BY <3>2, <3>3
  <2> QED BY <2>1, <2>2
<1>10. ComputeRoot(LeafAt(VoteLeaves(longer), i), i, siblings) = Root(VoteLeaves(longer))
  BY <1>1, <1>3, <1>8, <1>9, ProofsTell
<1> QED BY <1>6, <1>7, <1>8, <1>10 DEF Apart

\* No votes: the tree is empty.
LEMMA NoVotes ==
  VotedBallotsRoot(<<>>) = EmptySubtree[TreeDepth]
<1>1. VoteLeaves(<<>>) = <<>>
  BY DEF VoteLeaves, Range
<1> QED BY <1>1 DEF VotedBallotsRoot, VoteLeaves, RootAfterInserts

----------------------------------------------------------------------------
(* The coins follow: IInv holds in every reachable state.                   *)

\* The election's new coin is where the SDK computes it from the new state.
LEMMA ElectionFollows ==
  ASSUME NEW s, NEW coin, coin = SingletonOuter(ElectionId, ElectionInner(s)),
         NEW new, StateFits(new)
  PROVE  SingletonOuter(ElectionId, Recreate(SingletonInner(coin), RueElectionState(new)))
           = SingletonOuter(ElectionId, ElectionInner(new))
<1>1. SingletonInner(coin) = ElectionInner(s)
  BY LayersOpen
<1>2. RueElectionState(new) = ElectionStateHash(new)
  BY StatesAgree
<1>3. Recreate(ElectionInner(s), ElectionStateHash(new)) = ElectionInner(new)
  BY LayerRecreates DEF ElectionInner
<1> QED BY <1>1, <1>2, <1>3

\* The deployed election satisfies the invariant.
LEMMA InitFits == Init => IInv
<1> SUFFICES ASSUME Init PROVE IInv
  OBVIOUS
<1>1. PICK lock \in Locks : state = Genesis(lock) /\ election = DeployedElection(lock)
  BY DEF Init
<1>2. tree = <<>> /\ reg = <<>> /\ ballot = <<>> /\ vote = <<>>
  BY DEF Init
<1>3. DOMAIN tree = {} /\ DOMAIN reg = {} /\ DOMAIN ballot = {} /\ DOMAIN vote = {}
  BY <1>2
<1>4. StateFits(state)
  BY <1>1, ConfigFits DEF StateFits, Genesis
<1>5. VoterLeaves(tree) = <<>>
  <2>1. VoterLeaves(<<>>) = <<>>
    BY DEF VoterLeaves
  <2> QED BY <1>2, <2>1
<1>6. state.root = Root(<<>>)
  BY <1>1 DEF Genesis
<1>7. election = SingletonOuter(ElectionId, ElectionInner(state))
  BY <1>1, ElectionTree DEF DeployedElection, ElectionInner
<1>8. ElectionFits
  BY <1>4, <1>5, <1>6, <1>7 DEF ElectionFits
<1>9. TreeFits
  BY <1>3 DEF TreeFits, IsTree
<1>10. SumsFit
  <2>1. state.count = 0 /\ state.weight = 0
    BY <1>1 DEF Genesis
  <2>2. \A k \in Slots : Occupied(tree)[k] = 0 /\ Weights(tree)[k] = 0
    BY <1>3 DEF Occupied, Weights
  <2>3. SumsTo(Occupied(tree), 0) /\ SumsTo(Weights(tree), 0)
    BY <2>2, SumOfNothing
  <2> QED BY <2>1, <2>3 DEF SumsFit
<1> QED BY <1>3, <1>8, <1>9, <1>10 DEF IInv, RegsFit, VotesFit, BallotsFit

\* The two sums after one slot changed.
LEMMA SumsFollow ==
  ASSUME NEW t, \A slot \in DOMAIN t : t[slot].amount \in Nat,
         NEW u, \A slot \in DOMAIN u : u[slot].amount \in Nat,
         NEW i \in Slots,
         \A slot \in Slots : slot # i =>
           (slot \in DOMAIN t <=> slot \in DOMAIN u) /\ (slot \in DOMAIN t => u[slot] = t[slot]),
         NEW count, SumsTo(Occupied(t), count), NEW weight, SumsTo(Weights(t), weight)
  PROVE  /\ count \in Nat /\ weight \in Nat
         /\ Occupied(t)[i] <= count /\ Weights(t)[i] <= weight
         /\ SumsTo(Occupied(u), (count - Occupied(t)[i]) + Occupied(u)[i])
         /\ SumsTo(Weights(u), (weight - Weights(t)[i]) + Weights(u)[i])
<1>1. Occupied(t) \in [Slots -> Nat] /\ Occupied(u) \in [Slots -> Nat]
  BY DEF Occupied
<1>2. Weights(t) \in [Slots -> Nat] /\ Weights(u) \in [Slots -> Nat]
  BY DEF Weights
<1>3. \A k \in Slots : k # i => Occupied(u)[k] = Occupied(t)[k]
  BY DEF Occupied
<1>4. \A k \in Slots : k # i => Weights(u)[k] = Weights(t)[k]
  BY DEF Weights
<1>5. count \in Nat /\ Occupied(t)[i] <= count
      /\ SumsTo(Occupied(u), (count - Occupied(t)[i]) + Occupied(u)[i])
  BY <1>1, <1>3, SumsAt
<1>6. weight \in Nat /\ Weights(t)[i] <= weight
      /\ SumsTo(Weights(u), (weight - Weights(t)[i]) + Weights(u)[i])
  BY <1>2, <1>4, SumsAt
<1> QED BY <1>5, <1>6

Updated(s, root, count, weight) ==
  [s EXCEPT !.root = root, !.count = count, !.weight = weight]

\* What an action leaves in the election's state.
LEMMA StateFields ==
  ASSUME NEW s, StateFits(s), NEW root, NEW count \in 0 .. MaxInt, NEW weight \in 0 .. MaxInt,
         NEW new, new = Updated(s, root, count, weight)
  PROVE  /\ StateFits(new)
         /\ new.root = root /\ new.count = count /\ new.weight = weight
<1>0. PICK a, b, c, h, e, g : a = s.root /\ b = s.count /\ c = s.weight /\ h = s.lock
                       /\ e = Name("ceremony") /\ g = Name("vk")
  OBVIOUS
<1>1. s = [root |-> a, count |-> b, weight |-> c, start |-> StartHeight,
           ceremony |-> e, maxVoters |-> MaxVoters, vk |-> g, lock |-> h]
  BY <1>0 DEF StateFits
<1>2. /\ new = [root |-> root, count |-> count, weight |-> weight, start |-> StartHeight,
                ceremony |-> e, maxVoters |-> MaxVoters, vk |-> g, lock |-> h]
      /\ new.root = root /\ new.count = count /\ new.weight = weight /\ new.lock = h
  BY <1>1 DEF Updated
<1> QED BY <1>0, <1>2 DEF StateFits

\* A voter who has just registered: the only coin is the fresh one.
LEMMA FreshRegFits ==
  ASSUME NEW v \in Voter
  PROVE  RegFits(v, [coins |-> <<FreshRegistrationCoin(v)>>, cast |-> <<>>])
<1> PICK c : c = FreshRegistrationCoin(v)
  OBVIOUS
<1> PICK r : r = [coins |-> <<c>>, cast |-> <<>>]
  OBVIOUS
<1>1. r.coins = <<c>> /\ r.cast = <<>>
  OBVIOUS
<1>2. Apart(r.cast) /\ Len(r.cast) = 0
  BY <1>1 DEF Apart, Range
<1>3. Len(r.coins) = 1 /\ r.coins[1] = c /\ IsSeq(r.coins)
  BY <1>1 DEF IsSeq
<1>4. c = CatOuter(RegistrationInner(v, VotedBallotsRoot(r.cast)))
  BY <1>1, NoVotes DEF FreshRegistrationCoin
<1>5. r.coins[Len(r.coins)] = CatOuter(RegistrationInner(v, VotedBallotsRoot(r.cast)))
  BY <1>3, <1>4
<1>6. r = [coins |-> r.coins, cast |-> r.cast]
  OBVIOUS
<1>7. RegFits(v, r)
  BY <1>2, <1>3, <1>5, <1>6 DEF RegFits
<1> QED BY <1>7

\* A registration preserves the invariant: the tree, count and weight gain one
\* slot, and the new coin has no votes.
LEMMA RegisterFits ==
  ASSUME IInv, NEW v \in Voter, NEW amount \in Amount[v], Register(v, amount)
  PROVE  IInv'
<1> PICK t : t = tree
  OBVIOUS
<1> PICK i : i = SlotOf[v]
  OBVIOUS
<1> PICK u : u = Extend(t, i, [voter |-> v, amount |-> amount])
  OBVIOUS
<1> PICK s : s = state
  OBVIOUS
<1> PICK n : n = RueRegistered(state, v, Siblings(v), amount)
  OBVIOUS
<1>1. /\ s.count < MaxInt /\ s.weight + amount <= MaxInt
      /\ RueRegisterAccepts(RegisterAction, s, v, Siblings(v), amount)
      /\ SpendElection(RegisterAction, n)
      /\ tree' = u
      /\ reg' = Extend(reg, v, [coins |-> <<RueFreshRegistration(RegisterAction, v)>>, cast |-> <<>>])
      /\ ballot' = ballot /\ vote' = vote
  BY DEF Register
<1>2. Siblings(v) = Prove(VoterLeaves(t), i)
  BY DEF Siblings, LeafHashes, VoterLeaves
<1>3. IsTree(t) /\ (\A slot \in DOMAIN t : t[slot].amount \in Nat)
  BY DEF IInv, TreeFits
<1>4. /\ StateFits(s) /\ s.root = Root(VoterLeaves(t))
      /\ election = SingletonOuter(ElectionId, ElectionInner(s))
  BY DEF IInv, ElectionFits
<1>5. SumsTo(Occupied(t), s.count) /\ SumsTo(Weights(t), s.weight)
  BY DEF IInv, SumsFit
<1>6. amount \in Nat
  BY CoinPuzzlesAssumption
<1>7. /\ i \in Slots /\ IsTree(u)
      /\ ComputeRoot(EmptyLeaf, i, Prove(VoterLeaves(t), i)) = Root(VoterLeaves(t)) => i \notin DOMAIN t
      /\ ComputeRoot(ActiveLeaf(v, amount), i, Prove(VoterLeaves(t), i)) = Root(VoterLeaves(u))
  BY <1>3, RegistersInTree
<1>8. i \notin DOMAIN t
  BY <1>1, <1>2, <1>4, <1>7 DEF RueRegisterAccepts
<1>9. DOMAIN u = DOMAIN t \cup {i} /\ u[i].amount = amount /\ \A slot \in DOMAIN t : u[slot] = t[slot]
  BY <1>8 DEF Extend
<1>10. \A slot \in DOMAIN u : u[slot].amount \in Nat
  BY <1>3, <1>6, <1>9
<1>11. /\ Occupied(t)[i] = 0 /\ Occupied(u)[i] = 1
       /\ Weights(t)[i] = 0 /\ Weights(u)[i] = amount
  BY <1>7, <1>8, <1>9 DEF Occupied, Weights
<1>12. \A slot \in Slots : slot # i =>
         (slot \in DOMAIN t <=> slot \in DOMAIN u) /\ (slot \in DOMAIN t => u[slot] = t[slot])
  BY <1>9
<1>13. /\ s.count \in Nat /\ s.weight \in Nat
       /\ SumsTo(Occupied(u), (s.count - 0) + 1) /\ SumsTo(Weights(u), (s.weight - 0) + amount)
  BY <1>3, <1>5, <1>7, <1>10, <1>11, <1>12, SumsFollow
<1>14. SumsTo(Occupied(u), s.count + 1) /\ SumsTo(Weights(u), s.weight + amount)
  <2>1. (s.count - 0) + 1 = s.count + 1 /\ (s.weight - 0) + amount = s.weight + amount
    BY <1>6, <1>13
  <2> QED BY <2>1, <1>13
<1>15. s.count + 1 \in 0 .. MaxInt /\ s.weight + amount \in 0 .. MaxInt
  BY <1>1, <1>6, <1>13, ConfigFits
<1>16. n = Updated(s, Root(VoterLeaves(u)), s.count + 1, s.weight + amount)
  BY <1>2, <1>7 DEF RueRegistered, Updated
<1>17. /\ StateFits(n) /\ n.root = Root(VoterLeaves(u))
       /\ n.count = s.count + 1 /\ n.weight = s.weight + amount
  <2>1. PICK x, y, z : x = Root(VoterLeaves(u)) /\ y = s.count + 1 /\ z = s.weight + amount
    OBVIOUS
  <2>2. y \in 0 .. MaxInt /\ z \in 0 .. MaxInt
    BY <2>1, <1>15
  <2>3. n = Updated(s, x, y, z)
    BY <2>1, <1>16
  <2>4. StateFits(n) /\ n.root = x /\ n.count = y /\ n.weight = z
    BY <1>4, <2>2, <2>3, StateFields
  <2> QED BY <2>1, <2>4
<1>18. state' = n /\ election' = SingletonOuter(ElectionId, Recreate(SingletonInner(election), RueElectionState(n)))
  BY <1>1 DEF SpendElection
<1>19. election' = SingletonOuter(ElectionId, ElectionInner(n))
  BY <1>4, <1>17, <1>18, ElectionFollows
<1>20. ElectionFits'
  BY <1>1, <1>17, <1>18, <1>19 DEF ElectionFits
<1>21. TreeFits'
  BY <1>1, <1>7, <1>10 DEF TreeFits
<1>22. SumsFit'
  BY <1>1, <1>14, <1>17, <1>18 DEF SumsFit
<1>23. RegsFit'
  <2> PICK r : r = [coins |-> <<FreshRegistrationCoin(v)>>, cast |-> <<>>]
    OBVIOUS
  <2>1. RegFits(v, r)
    BY FreshRegFits
  <2>2. reg' = Extend(reg, v, r)
    BY <1>1, FreshCoinsAgree
  <2>3. \A w \in DOMAIN reg : RegFits(w, reg[w])
    BY DEF IInv, RegsFit
  <2>4. \A w \in DOMAIN reg' : RegFits(w, reg'[w])
    BY <2>1, <2>2, <2>3 DEF Extend
  <2> QED BY <2>4 DEF RegsFit
<1>24. VotesFit' /\ BallotsFit'
  BY <1>1 DEF IInv, VotesFit, BallotsFit
<1> QED BY <1>20, <1>21, <1>22, <1>23, <1>24 DEF IInv

\* A departure preserves the invariant: the slot's leaf is proved, so count and
\* weight lose what they gained.
LEMMA LeaveFits ==
  ASSUME IInv, NEW v \in Voter, Leave(v)
  PROVE  IInv'
<1> PICK t : t = tree
  OBVIOUS
<1> PICK i : i = SlotOf[v]
  OBVIOUS
<1> PICK u : u = Without(t, i)
  OBVIOUS
<1> PICK s : s = state
  OBVIOUS
<1> PICK amount : amount = t[i].amount
  OBVIOUS
<1> PICK n : n = RueDeregistered(state, v, Siblings(v), amount)
  OBVIOUS
<1>1. /\ v \in Members
      /\ SpendElection(DeregisterAction, n)
      /\ tree' = u
      /\ reg' = Without(reg, v)
      /\ ballot' = ballot /\ vote' = vote
  BY DEF Leave
<1>2. i \in DOMAIN t /\ t[i].voter = v
  BY <1>1 DEF Members
<1>3. Siblings(v) = Prove(VoterLeaves(t), i)
  BY DEF Siblings, LeafHashes, VoterLeaves
<1>4. IsTree(t) /\ (\A slot \in DOMAIN t : t[slot].amount \in Nat)
  BY DEF IInv, TreeFits
<1>5. /\ StateFits(s) /\ s.root = Root(VoterLeaves(t))
      /\ election = SingletonOuter(ElectionId, ElectionInner(s))
  BY DEF IInv, ElectionFits
<1>6. SumsTo(Occupied(t), s.count) /\ SumsTo(Weights(t), s.weight)
  BY DEF IInv, SumsFit
<1>7. /\ i \in Slots /\ IsTree(u)
      /\ ComputeRoot(EmptyLeaf, i, Prove(VoterLeaves(t), i)) = Root(VoterLeaves(u))
  BY <1>2, <1>4, LeavesTree
<1>8. DOMAIN u = DOMAIN t \ {i} /\ \A slot \in DOMAIN u : u[slot] = t[slot]
  BY DEF Without
<1>9. \A slot \in DOMAIN u : u[slot].amount \in Nat
  BY <1>4, <1>8
<1>10. /\ Occupied(t)[i] = 1 /\ Occupied(u)[i] = 0
       /\ Weights(t)[i] = amount /\ Weights(u)[i] = 0
  BY <1>2, <1>7, <1>8 DEF Occupied, Weights
<1>11. \A slot \in Slots : slot # i =>
         (slot \in DOMAIN t <=> slot \in DOMAIN u) /\ (slot \in DOMAIN t => u[slot] = t[slot])
  BY <1>8
<1>12. /\ s.count \in Nat /\ s.weight \in Nat /\ 1 <= s.count /\ amount <= s.weight
       /\ SumsTo(Occupied(u), (s.count - 1) + 0) /\ SumsTo(Weights(u), (s.weight - amount) + 0)
  BY <1>4, <1>6, <1>7, <1>9, <1>10, <1>11, SumsFollow
<1>13. amount \in Nat
  BY <1>2, <1>4
<1>14. SumsTo(Occupied(u), s.count - 1) /\ SumsTo(Weights(u), s.weight - amount)
  <2>1. (s.count - 1) + 0 = s.count - 1 /\ (s.weight - amount) + 0 = s.weight - amount
    BY <1>12, <1>13
  <2> QED BY <2>1, <1>12
<1>15. s.count - 1 \in 0 .. MaxInt /\ s.weight - amount \in 0 .. MaxInt
  BY <1>5, <1>12, <1>13, ConfigFits DEF StateFits
<1>16. n = Updated(s, Root(VoterLeaves(u)), s.count - 1, s.weight - amount)
  BY <1>3, <1>7 DEF RueDeregistered, Updated
<1>17. /\ StateFits(n) /\ n.root = Root(VoterLeaves(u))
       /\ n.count = s.count - 1 /\ n.weight = s.weight - amount
  <2>1. PICK x, y, z : x = Root(VoterLeaves(u)) /\ y = s.count - 1 /\ z = s.weight - amount
    OBVIOUS
  <2>2. y \in 0 .. MaxInt /\ z \in 0 .. MaxInt
    BY <2>1, <1>15
  <2>3. n = Updated(s, x, y, z)
    BY <2>1, <1>16
  <2>4. StateFits(n) /\ n.root = x /\ n.count = y /\ n.weight = z
    BY <1>5, <2>2, <2>3, StateFields
  <2> QED BY <2>1, <2>4
<1>18. state' = n /\ election' = SingletonOuter(ElectionId, Recreate(SingletonInner(election), RueElectionState(n)))
  BY <1>1 DEF SpendElection
<1>19. election' = SingletonOuter(ElectionId, ElectionInner(n))
  BY <1>5, <1>17, <1>18, ElectionFollows
<1>20. ElectionFits'
  BY <1>1, <1>17, <1>18, <1>19 DEF ElectionFits
<1>21. TreeFits'
  BY <1>1, <1>7, <1>9 DEF TreeFits
<1>22. SumsFit'
  BY <1>1, <1>14, <1>17, <1>18 DEF SumsFit
<1>23. RegsFit'
  BY <1>1 DEF IInv, RegsFit, Without
<1>24. VotesFit' /\ BallotsFit'
  BY <1>1 DEF IInv, VotesFit, BallotsFit
<1> QED BY <1>20, <1>21, <1>22, <1>23, <1>24 DEF IInv

\* A launch preserves the invariant: the ballot's coin is the one predicted.
LEMMA LaunchFits ==
  ASSUME IInv, NEW b \in Ballot, NEW options \in Modes[b], LaunchBallot(b, options)
  PROVE  IInv'
<1> PICK s : s = state
  OBVIOUS
<1> PICK leaves : leaves = BallotLeaves(b, s.root, s.weight, OptionsRoot[options])
  OBVIOUS
<1> PICK c : c = SingletonOuter(b, BallotInner(b, leaves, FreshBallot))
  OBVIOUS
<1> PICK f : f = FreshBallot
  OBVIOUS
<1> PICK r : r = [coin |-> c, parent |-> Launcher, options |-> options, root |-> s.root,
                  weight |-> s.weight, state |-> f]
  OBVIOUS
<1>1. /\ SpendElection(CreateBallotAction, s)
      /\ ballot' = Extend(ballot, b, r)
      /\ tree' = tree /\ reg' = reg /\ vote' = vote
  BY DEF LaunchBallot
<1>2. StateFits(s) /\ election = SingletonOuter(ElectionId, ElectionInner(s))
  BY DEF IInv, ElectionFits
<1>3. state' = s /\ election' = SingletonOuter(ElectionId, Recreate(SingletonInner(election), RueElectionState(s)))
  BY <1>1 DEF SpendElection
<1>4. election' = SingletonOuter(ElectionId, ElectionInner(s))
  BY <1>2, <1>3, ElectionFollows
<1>5. ElectionFits'
  BY <1>1, <1>2, <1>3, <1>4 DEF IInv, ElectionFits
<1>6. BallotFits(b, r)
  <2>1. f.finalized = FALSE
    BY DEF FreshBallot
  <2>2. /\ r.coin = c /\ r.parent = Launcher /\ r.options = options /\ r.root = s.root
        /\ r.weight = s.weight /\ r.state = f
    OBVIOUS
  <2>3. BallotRecord(r)
    BY DEF BallotRecord
  <2>4. r.coin = SingletonOuter(b, BallotInner(b, leaves, r.state))
    BY <2>2
  <2>5. leaves = BallotLeaves(b, r.root, r.weight, OptionsRoot[r.options])
    BY <2>2
  <2>6. r.state.finalized = FALSE /\ r.state = FreshBallot
    BY <2>1, <2>2
  <2> QED BY <2>2, <2>3, <2>4, <2>5, <2>6 DEF BallotFits
<1>7. BallotsFit'
  <2>1. \A c2 \in DOMAIN ballot : BallotFits(c2, ballot[c2])
    BY DEF IInv, BallotsFit
  <2>2. \A c2 \in DOMAIN ballot' : BallotFits(c2, ballot'[c2])
    BY <1>1, <1>6, <2>1 DEF Extend
  <2> QED BY <2>2 DEF BallotsFit
<1>8. VotesFit'
  <2>1. DOMAIN ballot \subseteq DOMAIN ballot'
    BY <1>1 DEF Extend
  <2> QED BY <1>1, <2>1 DEF IInv, VotesFit
<1> QED BY <1>1, <1>3, <1>5, <1>7, <1>8 DEF IInv, TreeFits, SumsFit, RegsFit

Spent(r, new, inner, next) ==
  [r EXCEPT !.state = new, !.parent = inner, !.coin = next]

\* What the spend of a Ballot Coin leaves in its record.
LEMMA SpentFields ==
  ASSUME NEW r, BallotRecord(r), NEW new, NEW inner, NEW next
  PROVE  Spent(r, new, inner, next) =
           [coin |-> next, parent |-> inner, options |-> r.options,
            root |-> r.root, weight |-> r.weight, state |-> new]
<1>1. PICK a, b, c, d, e, f : /\ a = r.coin /\ b = r.parent /\ c = r.options
                              /\ d = r.root /\ e = r.weight /\ f = r.state
  OBVIOUS
<1>2. r = [coin |-> a, parent |-> b, options |-> c, root |-> d, weight |-> e, state |-> f]
  BY <1>1 DEF BallotRecord
<1>3. [r EXCEPT !.state = new] =
        [coin |-> a, parent |-> b, options |-> c, root |-> d, weight |-> e, state |-> new]
  BY <1>2
<1>4. PICK r2 : r2 = [r EXCEPT !.state = new]
  OBVIOUS
<1>5. r2 = [coin |-> a, parent |-> b, options |-> c, root |-> d, weight |-> e, state |-> new]
  BY <1>3, <1>4
<1>6. [r2 EXCEPT !.parent = inner] =
        [coin |-> a, parent |-> inner, options |-> c, root |-> d, weight |-> e, state |-> new]
  BY <1>5
<1>7. PICK r3 : r3 = [r2 EXCEPT !.parent = inner]
  OBVIOUS
<1>8. r3 = [coin |-> a, parent |-> inner, options |-> c, root |-> d, weight |-> e, state |-> new]
  BY <1>6, <1>7
<1>9. [r3 EXCEPT !.coin = next] =
        [coin |-> next, parent |-> inner, options |-> c, root |-> d, weight |-> e, state |-> new]
  BY <1>8
<1>10. Spent(r, new, inner, next) = [r3 EXCEPT !.coin = next]
  BY <1>4, <1>7 DEF Spent
<1> QED BY <1>1, <1>9, <1>10

\* A ballot's new coin is where the SDK computes it from the new state.
LEMMA BallotFollows ==
  ASSUME BallotsFit, NEW b \in DOMAIN ballot, NEW action, NEW new,
         new.finalized \in BOOLEAN,
         ~new.finalized => new = ballot[b].state,
         SpendBallot(b, action, new)
  PROVE  BallotsFit' /\ DOMAIN ballot' = DOMAIN ballot
<1> PICK r : r = ballot[b]
  OBVIOUS
<1> PICK leaves : leaves = BallotLeaves(b, r.root, r.weight, OptionsRoot[r.options])
  OBVIOUS
<1>1. /\ b \in Ballot /\ r.options \in Modes[b]
      /\ BallotRecord(r)
      /\ r.coin = SingletonOuter(b, BallotInner(b, leaves, r.state))
      /\ r.state.finalized \in BOOLEAN
      /\ ~r.state.finalized => r.state = FreshBallot
  BY DEF BallotsFit, BallotFits
<1> PICK inner : inner = SingletonInner(r.coin)
  OBVIOUS
<1>2. inner = BallotInner(b, leaves, r.state)
  BY <1>1, LayersOpen
<1> PICK next : next = SingletonOuter(b, Recreate(inner, RueBallotState(new)))
  OBVIOUS
<1>3. next = SingletonOuter(b, BallotInner(b, leaves, new))
  <2>1. RueBallotState(new) = BallotStateHash(new)
    BY DEF RueBallotState, BallotStateHash
  <2>2. Recreate(BallotInner(b, leaves, r.state), BallotStateHash(new)) = BallotInner(b, leaves, new)
    BY LayerRecreates DEF BallotInner
  <2> QED BY <1>2, <2>1, <2>2
<1> PICK q : q = [coin |-> next, parent |-> inner, options |-> r.options,
                  root |-> r.root, weight |-> r.weight, state |-> new]
  OBVIOUS
<1>4. ballot' = [ballot EXCEPT ![b].state = new, ![b].parent = inner, ![b].coin = next]
  BY DEF SpendBallot
<1>5. DOMAIN ballot' = DOMAIN ballot /\ \A c \in DOMAIN ballot : c # b => ballot'[c] = ballot[c]
  BY <1>4
<1>6. ballot'[b] = q
  <2>1. ballot'[b] = Spent(r, new, inner, next)
    BY <1>4 DEF Spent
  <2>2. Spent(r, new, inner, next) = q
    BY <1>1, SpentFields
  <2> QED BY <2>1, <2>2
<1>7. BallotFits(b, q)
  <2>1. /\ q.coin = next /\ q.parent = inner /\ q.options = r.options /\ q.root = r.root
        /\ q.weight = r.weight /\ q.state = new
    OBVIOUS
  <2>2. BallotRecord(q)
    BY DEF BallotRecord
  <2>3. q.coin = SingletonOuter(b, BallotInner(b, leaves, q.state))
    BY <2>1, <1>3
  <2>4. leaves = BallotLeaves(b, q.root, q.weight, OptionsRoot[q.options])
    BY <2>1
  <2>5. ~new.finalized => new = FreshBallot /\ inner = BallotInner(b, leaves, FreshBallot)
    BY <1>1, <1>2
  <2>6. /\ ~q.state.finalized => q.state = FreshBallot /\ q.parent = BallotInner(b, leaves, FreshBallot)
        /\ q.state.finalized \in BOOLEAN
    BY <2>1, <2>5
  <2> QED BY <1>1, <2>1, <2>2, <2>3, <2>4, <2>6 DEF BallotFits
<1>8. \A c \in DOMAIN ballot' : BallotFits(c, ballot'[c])
  BY <1>5, <1>6, <1>7 DEF BallotsFit
<1> QED BY <1>5, <1>8 DEF BallotsFit

\* A decision preserves the invariant.
LEMMA FinalizeFits ==
  ASSUME IInv, NEW b \in Ballot, FinalizeBallot(b)
  PROVE  IInv'
<1>1. b \in DOMAIN ballot
  BY DEF FinalizeBallot
<1>2. PICK p \in DOMAIN vote :
        SpendBallot(b, FinalizeAction(b, ballot[b].root, ballot[b].weight),
          [finalized |-> TRUE, outcome |-> vote[p].data, signers |-> Name("signers")])
  BY DEF FinalizeBallot
<1> PICK t, d, signers : t = TRUE /\ d = vote[p].data /\ signers = Name("signers")
  OBVIOUS
<1>3. PICK new : new = [finalized |-> t, outcome |-> d, signers |-> signers]
  OBVIOUS
<1>4. new.finalized = t
  BY <1>3
<1>5. new.finalized \in BOOLEAN /\ (~new.finalized => new = ballot[b].state)
  BY <1>4
<1>6. SpendBallot(b, FinalizeAction(b, ballot[b].root, ballot[b].weight), new)
  BY <1>2, <1>3
<1>7. BallotsFit' /\ DOMAIN ballot' = DOMAIN ballot
  BY <1>1, <1>5, <1>6, BallotFollows DEF IInv
<1>8. /\ state' = state /\ election' = election /\ tree' = tree /\ reg' = reg /\ vote' = vote
  BY DEF FinalizeBallot
<1> QED BY <1>7, <1>8 DEF IInv, ElectionFits, TreeFits, SumsFit, RegsFit, VotesFit

\* A spend that leaves a ballot's state as it is.
LEMMA BallotStays ==
  ASSUME IInv, NEW b \in DOMAIN ballot, NEW action, SpendBallot(b, action, ballot[b].state)
  PROVE  BallotsFit' /\ DOMAIN ballot' = DOMAIN ballot
<1>1. ballot[b].state.finalized \in BOOLEAN
  BY DEF IInv, BallotsFit, BallotFits
<1> QED BY <1>1, BallotFollows DEF IInv

\* An announcement recreates the decided coin, and preserves the invariant.
LEMMA AnnounceFits ==
  ASSUME IInv, NEW b \in Ballot, AnnounceBallot(b)
  PROVE  IInv'
<1>1. b \in DOMAIN ballot /\ SpendBallot(b, AnnounceAction(b), ballot[b].state)
  BY DEF AnnounceBallot
<1>2. BallotsFit' /\ DOMAIN ballot' = DOMAIN ballot
  BY <1>1, BallotStays
<1>3. /\ state' = state /\ election' = election /\ tree' = tree /\ reg' = reg /\ vote' = vote
  BY DEF AnnounceBallot
<1> QED BY <1>2, <1>3 DEF IInv, ElectionFits, TreeFits, SumsFit, RegsFit, VotesFit

\* A voter's new coin after a vote, and the record of it.
Votes(r, x, y) == [[r EXCEPT !.coins = x] EXCEPT !.cast = y]

\* What a mint leaves in the record of a Registration Coin.
LEMMA VotedFields ==
  ASSUME NEW a, NEW c, NEW r, r = [coins |-> a, cast |-> c], NEW x, NEW y
  PROVE  Votes(r, x, y) = [coins |-> x, cast |-> y]
<1>1. PICK r2 : r2 = [r EXCEPT !.coins = x]
  OBVIOUS
<1>2. [r EXCEPT !.coins = x] = [coins |-> x, cast |-> c]
  OBVIOUS
<1>3. r2 = [coins |-> x, cast |-> c]
  BY <1>1, <1>2
<1>4. [r2 EXCEPT !.cast = y] = [coins |-> x, cast |-> y]
  BY <1>3
<1> QED BY <1>1, <1>4 DEF Votes

\* Sequences are functions on 1 .. Len.
LEMMA SequencesAreSeqs ==
  ASSUME NEW S, NEW s \in Seq(S)
  PROVE  IsSeq(s)
BY DEF IsSeq

\* Appending to such a function.
LEMMA AppendToSeq ==
  ASSUME NEW s, IsSeq(s), NEW e
  PROVE  /\ IsSeq(Append(s, e)) /\ Len(Append(s, e)) = Len(s) + 1
         /\ Append(s, e)[Len(s) + 1] = e
         /\ \A k \in 1 .. Len(s) : Append(s, e)[k] = s[k]
<1>1. s \in Seq({s[k] : k \in 1 .. Len(s)})
  BY DEF IsSeq
<1>2. /\ Append(s, e) \in Seq({s[k] : k \in 1 .. Len(s)} \cup {e})
      /\ Len(Append(s, e)) = Len(s) + 1 /\ Append(s, e)[Len(s) + 1] = e
      /\ \A k \in 1 .. Len(s) : Append(s, e)[k] = s[k]
  BY <1>1, AppendAny
<1>3. IsSeq(Append(s, e))
  BY <1>2, SequencesAreSeqs
<1> QED BY <1>2, <1>3

\* The heart of a cast: when the proof of an empty slot is accepted, the coin
\* that the Registration Coin recreates is the one the SDK predicts for the
\* longer history, and the slot was nobody's.
LEMMA VoterFollows ==
  ASSUME NEW v, NEW r, RegFits(v, r), NEW b \in Ballot,
         NEW coin, coin = r.coins[Len(r.coins)],
         NEW siblings, siblings = Prove(VoteLeaves(r.cast), SlotOf[b]),
         RueNotVoted(CatInner(coin)[3][3][3][3][2][2], b, siblings),
         NEW next, next = CatOuter(Recreate(CatInner(coin),
                            RueRegistrationState(v, ElectionId, RueVoted(b, siblings))))
  PROVE  RegFits(v, [coins |-> Append(r.coins, next), cast |-> Append(r.cast, b)])
<1> PICK cast : cast = r.cast
  OBVIOUS
<1> PICK coins : coins = r.coins
  OBVIOUS
<1> PICK longer : longer = Append(cast, b)
  OBVIOUS
<1> PICK more : more = Append(coins, next)
  OBVIOUS
<1>1. /\ v \in Voter /\ Apart(cast)
      /\ IsSeq(coins) /\ Len(coins) = Len(cast) + 1
      /\ coins[1] = FreshRegistrationCoin(v)
      /\ coin = CatOuter(RegistrationInner(v, VotedBallotsRoot(cast)))
  BY DEF RegFits
<1>2. CatInner(coin)[3][3][3][3][2][2] = VotedBallotsRoot(cast)
  <2>1. PICK voted : voted = VotedBallotsRoot(cast)
    OBVIOUS
  <2>2. coin = CatOuter(RegistrationInner(v, voted))
    BY <1>1, <2>1
  <2> QED BY <2>1, <2>2, VotedRootReads
<1>3. ComputeRoot(EmptyLeaf, SlotOf[b], siblings) = VotedBallotsRoot(cast)
  BY <1>2 DEF RueNotVoted
<1>4. Apart(longer) /\ ComputeRoot(VotedLeaf(b), SlotOf[b], siblings) = VotedBallotsRoot(longer)
  BY <1>1, <1>3, VotesInTree
<1>5. next = CatOuter(RegistrationInner(v, VotedBallotsRoot(longer)))
  <2>1. RueVoted(b, siblings) = VotedBallotsRoot(longer)
    BY <1>4 DEF RueVoted
  <2>2. CatInner(coin) = RegistrationInner(v, VotedBallotsRoot(cast))
    BY <1>1, LayersOpen
  <2>3. \A voted : RueRegistrationState(v, ElectionId, voted) = RegistrationStateHash(v, voted)
    BY DEF RueRegistrationState, RegistrationStateHash
  <2>4. \A voted, h : Recreate(RegistrationInner(v, voted), h) =
          LayerPuzzle(FinalizerFull("registration_finalizer", VoterHint(v)), RegistrationRoot, h)
    BY LayerRecreates DEF RegistrationInner
  <2>5. \A voted, new : Recreate(RegistrationInner(v, voted), RegistrationStateHash(v, new)) =
          RegistrationInner(v, new)
    BY <2>4 DEF RegistrationInner
  <2> QED BY <2>1, <2>2, <2>3, <2>5
<1>6. IsSeq(more) /\ Len(more) = Len(coins) + 1 /\ more[Len(more)] = next
      /\ \A k \in 1 .. Len(coins) : more[k] = coins[k]
  BY <1>1, AppendToSeq
<1>7. Len(longer) = Len(cast) + 1 /\ Len(cast) \in Nat
  BY <1>1 DEF Apart
<1>8. Len(more) = Len(longer) + 1 /\ more[1] = FreshRegistrationCoin(v)
  <2>1. 1 \in 1 .. Len(coins)
    BY <1>1, <1>7
  <2> QED BY <2>1, <1>1, <1>6, <1>7
<1> PICK q : q = [coins |-> more, cast |-> longer]
  OBVIOUS
<1>9. q.coins = more /\ q.cast = longer /\ q = [coins |-> q.coins, cast |-> q.cast]
  OBVIOUS
<1>10. q.coins[Len(q.coins)] = CatOuter(RegistrationInner(v, VotedBallotsRoot(q.cast)))
  BY <1>5, <1>6, <1>9
<1>11. RegFits(v, q)
  BY <1>1, <1>4, <1>6, <1>8, <1>9, <1>10 DEF RegFits
<1> QED BY <1>11

\* A first vote preserves the invariant.
LEMMA CastFits ==
  ASSUME IInv, NEW v \in Voter, NEW b \in Ballot, NEW data, Cast(v, b, data)
  PROVE  IInv'
<1> PICK r : r = reg[v]
  OBVIOUS
<1> PICK coin : coin = r.coins[Len(r.coins)]
  OBVIOUS
<1> PICK siblings : siblings = Prove(VoteLeaves(r.cast), SlotOf[b])
  OBVIOUS
<1> PICK next : next = CatOuter(Recreate(CatInner(coin),
                         RueRegistrationState(v, ElectionId, RueVoted(b, siblings))))
  OBVIOUS
<1> PICK from : from = <<v, Len(r.coins)>>
  OBVIOUS
<1> PICK q : q = [coins |-> Append(r.coins, next), cast |-> Append(r.cast, b)]
  OBVIOUS
<1>1. Coin(v) = coin /\ BallotSiblings(v, b) = siblings
  BY DEF Coin, BallotSiblings, VoteLeaves, Last
<1>2. /\ v \in Members /\ b \in DOMAIN ballot
      /\ SpendBallot(b, OracleOf(b), ballot[b].state)
      /\ RueNotVoted(VotedRoot(v), b, siblings)
      /\ reg' = [reg EXCEPT ![v].coins = Append(@, next), ![v].cast = Append(@, b)]
      /\ vote' = Extend(vote, <<v, b>>,
           [coin |-> CatOuter(RueVotingCoin(MintAction, v, b, data, from)), data |-> data, from |-> from])
      /\ state' = state /\ election' = election /\ tree' = tree
  BY <1>1 DEF Cast
<1>3. v \in DOMAIN reg
  BY <1>2 DEF Members
<1>4. RegFits(v, r)
  BY <1>3 DEF IInv, RegsFit
<1>5. RueNotVoted(CatInner(coin)[3][3][3][3][2][2], b, siblings)
  BY <1>1, <1>2 DEF VotedRoot
<1>6. RegFits(v, q)
  BY <1>4, <1>5, VoterFollows
<1>7. RegsFit'
  <2>1. r = [coins |-> r.coins, cast |-> r.cast]
    BY <1>4 DEF RegFits
  <2>2. DOMAIN reg' = DOMAIN reg /\ \A w \in DOMAIN reg : w # v => reg'[w] = reg[w]
    BY <1>2
  <2>3. reg'[v] = Votes(r, Append(r.coins, next), Append(r.cast, b))
    <3>1. [r EXCEPT !.coins = Append(r.coins, next)].cast = r.cast
      BY <2>1
    <3> QED BY <1>2, <1>3, <3>1 DEF Votes
  <2>4. Votes(r, Append(r.coins, next), Append(r.cast, b)) = q
    <3>1. PICK x, y, z, w : x = r.coins /\ y = r.cast /\ z = Append(r.coins, next) /\ w = Append(r.cast, b)
      OBVIOUS
    <3>2. r = [coins |-> x, cast |-> y]
      BY <2>1, <3>1
    <3>3. Votes(r, z, w) = [coins |-> z, cast |-> w]
      BY <3>2, VotedFields
    <3> QED BY <3>1, <3>3
  <2>5. reg'[v] = q
    BY <2>3, <2>4
  <2>6. \A w \in DOMAIN reg' : RegFits(w, reg'[w])
    BY <1>6, <2>2, <2>5 DEF IInv, RegsFit
  <2> QED BY <2>6 DEF RegsFit
<1>8. BallotsFit' /\ DOMAIN ballot' = DOMAIN ballot
  BY <1>2, BallotStays
<1>9. VotesFit'
  <2> PICK c : c = VotingCoin(v, b, data, from)
    OBVIOUS
  <2> PICK n : n = [coin |-> c, data |-> data, from |-> from]
    OBVIOUS
  <2> PICK p : p = <<v, b>>
    OBVIOUS
  <2>1. vote' = Extend(vote, p, n)
    BY <1>2, MintedCoinsAgree
  <2>2. VoteFits(p, n)
    <3>1. n.coin = c /\ n.data = data /\ n.from = from /\ n = [coin |-> n.coin, data |-> n.data, from |-> n.from]
      OBVIOUS
    <3>2. p[1] = v /\ p[2] = b /\ p = <<p[1], p[2]>>
      OBVIOUS
    <3> QED BY <3>1, <3>2 DEF VoteFits
  <2>3. \A o \in DOMAIN vote : o[2] \in DOMAIN ballot /\ VoteFits(o, vote[o])
    BY DEF IInv, VotesFit
  <2>4. p[2] \in DOMAIN ballot
    BY <1>2
  <2>5. \A o \in DOMAIN vote' : o[2] \in DOMAIN ballot /\ VoteFits(o, vote'[o])
    BY <2>1, <2>2, <2>3, <2>4 DEF Extend
  <2> QED BY <1>8, <2>5 DEF VotesFit
<1> QED BY <1>2, <1>7, <1>8, <1>9 DEF IInv, ElectionFits, TreeFits, SumsFit

\* A Voting Coin's next coin is where the SDK computes it from the new vote.
LEMMA VoteFollows ==
  ASSUME NEW v, NEW b, NEW d, NEW f, NEW data, NEW from
  PROVE  CatOuter(Recreate(CatInner(VotingCoin(v, b, d, f)), RueVotingState(v, b, data, from)))
           = VotingCoin(v, b, data, from)
<1>1. CatInner(VotingCoin(v, b, d, f)) =
        LayerPuzzle(FinalizerFull("voting_coin_finalizer", VotingCoinHint(v, b)), VotingRoot,
                    VotingStateHash(v, b, d, f))
  BY LayersOpen DEF VotingCoin
<1>2. RueVotingState(v, b, data, from) = VotingStateHash(v, b, data, from)
  BY DEF RueVotingState, VotingStateHash
<1> QED BY <1>1, <1>2, LayerRecreates DEF VotingCoin

Updates(r, x, y) == [[r EXCEPT !.data = x] EXCEPT !.coin = y]

\* What an update leaves in the record of a Voting Coin.
LEMMA UpdatedFields ==
  ASSUME NEW a, NEW d, NEW f, NEW r, r = [coin |-> a, data |-> d, from |-> f], NEW x, NEW y
  PROVE  Updates(r, x, y) = [coin |-> y, data |-> x, from |-> f]
<1>1. PICK r2 : r2 = [r EXCEPT !.data = x]
  OBVIOUS
<1>2. [r EXCEPT !.data = x] = [coin |-> a, data |-> x, from |-> f]
  OBVIOUS
<1>3. r2 = [coin |-> a, data |-> x, from |-> f]
  BY <1>1, <1>2
<1>4. [r2 EXCEPT !.coin = y] = [coin |-> y, data |-> x, from |-> f]
  BY <1>3
<1> QED BY <1>1, <1>4 DEF Updates

\* An update of a vote preserves the invariant.
LEMMA UpdateFits ==
  ASSUME IInv, NEW v \in Voter, NEW b \in Ballot, NEW data, UpdateVote(v, b, data)
  PROVE  IInv'
<1> PICK p : p = <<v, b>>
  OBVIOUS
<1> PICK r : r = vote[p]
  OBVIOUS
<1> PICK next : next = CatOuter(Recreate(CatInner(r.coin), RueVotingState(v, b, data, r.from)))
  OBVIOUS
<1> PICK q : q = [coin |-> next, data |-> data, from |-> r.from]
  OBVIOUS
<1>1. /\ p \in DOMAIN vote
      /\ SpendBallot(b, OracleOf(b), ballot[b].state)
      /\ vote' = [vote EXCEPT ![p].data = data,
                    ![p].coin = CatOuter(Recreate(CatInner(@), RueVotingState(v, b, data, vote[p].from)))]
      /\ state' = state /\ election' = election /\ tree' = tree /\ reg' = reg
  BY DEF UpdateVote
<1>2. VoteFits(p, r) /\ p[2] \in DOMAIN ballot
  BY <1>1 DEF IInv, VotesFit
<1>3. p[1] = v /\ p[2] = b
  OBVIOUS
<1>4. r = [coin |-> r.coin, data |-> r.data, from |-> r.from] /\ r.coin = VotingCoin(v, b, r.data, r.from)
  BY <1>2, <1>3 DEF VoteFits
<1>5. next = VotingCoin(v, b, data, r.from)
  BY <1>4, VoteFollows
<1>6. VoteFits(p, q)
  <2>1. q.coin = next /\ q.data = data /\ q.from = r.from /\ q = [coin |-> q.coin, data |-> q.data, from |-> q.from]
    OBVIOUS
  <2> QED BY <1>3, <1>5, <2>1 DEF VoteFits
<1>7. BallotsFit' /\ DOMAIN ballot' = DOMAIN ballot
  BY <1>1, <1>2, <1>3, BallotStays
<1>8. VotesFit'
  <2>1. DOMAIN vote' = DOMAIN vote /\ \A o \in DOMAIN vote : o # p => vote'[o] = vote[o]
    BY <1>1
  <2>2. vote'[p] = Updates(r, data, next)
    <3>1. [r EXCEPT !.data = data].coin = r.coin
      BY <1>4
    <3> QED BY <1>1, <3>1 DEF Updates
  <2>3. Updates(r, data, next) = q
    <3>1. PICK x, y, z : x = r.coin /\ y = r.data /\ z = r.from
      OBVIOUS
    <3>2. r = [coin |-> x, data |-> y, from |-> z]
      BY <1>4, <3>1
    <3>3. Updates(r, data, next) = [coin |-> next, data |-> data, from |-> z]
      BY <3>2, UpdatedFields
    <3> QED BY <3>1, <3>3
  <2>4. \A o \in DOMAIN vote' : o[2] \in DOMAIN ballot /\ VoteFits(o, vote'[o])
    BY <1>1, <1>2, <1>6, <2>1, <2>2, <2>3 DEF IInv, VotesFit
  <2> QED BY <1>7, <2>4 DEF VotesFit
<1> QED BY <1>1, <1>7, <1>8 DEF IInv, ElectionFits, TreeFits, SumsFit, RegsFit

\* Every step preserves the invariant.
LEMMA StepFits ==
  ASSUME IInv, [Next]_vars
  PROVE  IInv'
<1>1. ASSUME NEW v \in Voter, Leave(v) PROVE IInv'
  BY <1>1, LeaveFits
<1>2. ASSUME NEW v \in Voter, NEW amount \in Amount[v], Register(v, amount) PROVE IInv'
  BY <1>2, RegisterFits
<1>3. ASSUME NEW b \in Ballot, FinalizeBallot(b) PROVE IInv'
  BY <1>3, FinalizeFits
<1>4. ASSUME NEW b \in Ballot, AnnounceBallot(b) PROVE IInv'
  BY <1>4, AnnounceFits
<1>5. ASSUME NEW b \in Ballot, NEW options \in Modes[b], LaunchBallot(b, options) PROVE IInv'
  BY <1>5, LaunchFits
<1>6. ASSUME NEW v \in Voter, NEW b \in Ballot, NEW data \in Option, Cast(v, b, data) PROVE IInv'
  BY <1>6, CastFits
<1>7. ASSUME NEW v \in Voter, NEW b \in Ballot, NEW data \in Option, UpdateVote(v, b, data) PROVE IInv'
  BY <1>7, UpdateFits
<1>8. CASE UNCHANGED vars
  BY <1>8 DEF vars, IInv, ElectionFits, TreeFits, SumsFit, RegsFit, VotesFit, BallotsFit
<1> QED BY <1>1, <1>2, <1>3, <1>4, <1>5, <1>6, <1>7, <1>8 DEF Next

\* Every reachable state keeps the invariant: each coin is the one the SDK's
\* computation gives for the tracked state, the trees are those behind the
\* roots, and the count and the weight are those of the registered voters.
THEOREM CoinsFollow == Spec => []IInv
<1>1. Init => IInv
  BY InitFits
<1>2. IInv /\ [Next]_vars => IInv'
  BY StepFits
<1> QED BY <1>1, <1>2, PTL DEF Spec

----------------------------------------------------------------------------
(* What the SDK finds and builds, from the invariant.                       *)

\* A ballot's coin tells whether the ballot is decided.
LEMMA DecidedShows ==
  ASSUME NEW b, NEW leaves, NEW s, s.finalized \in BOOLEAN,
         ~s.finalized => s = FreshBallot,
         NEW coin, coin = SingletonOuter(b, BallotInner(b, leaves, s))
  PROVE  (coin # SingletonOuter(b, BallotInner(b, leaves, FreshBallot))) = s.finalized
<1>1. CASE ~s.finalized
  BY <1>1
<1>2. CASE s.finalized
  <2> PICK f : f = FreshBallot
    OBVIOUS
  <2>1. SUFFICES ASSUME coin = SingletonOuter(b, BallotInner(b, leaves, f))
                 PROVE  FALSE
    BY <1>2
  <2>2. \A t : SingletonInner(SingletonOuter(b, BallotInner(b, leaves, t)))[3][3] = BallotStateHash(t)
    BY LayersOpen DEF BallotInner, LayerPuzzle, Curry
  <2>3. BallotStateHash(s) = BallotStateHash(f)
    BY <2>1, <2>2
  <2>4. \A t : BallotStateHash(t)[2] = Bool(t.finalized)
    BY DEF BallotStateHash, Pair
  <2>5. Bool(s.finalized) = Bool(f.finalized)
    BY <2>3, <2>4
  <2>6. Bool(s.finalized) = Atom(<<"bytes", <<1>>>>)
    BY <1>2 DEF Bool
  <2>7. Bool(f.finalized) = Atom(<<"bytes", <<>>>>)
    BY DEF Bool, FreshBallot, Nil
  <2>8. Atom(<<"bytes", <<1>>>>) # Atom(<<"bytes", <<>>>>)
    <3>1. Atom(<<"bytes", <<1>>>>)[2][2] = <<1>> /\ Atom(<<"bytes", <<>>>>)[2][2] = <<>>
      BY DEF Atom
    <3>2. <<1>> # <<>>
      <4>1. Len(<<1>>) = 1 /\ Len(<<>>) = 0
        OBVIOUS
      <4> QED BY <4>1
    <3> QED BY <3>1, <3>2
  <2>9. Bool(s.finalized) # Bool(f.finalized)
    BY <2>6, <2>7, <2>8
  <2> QED BY <2>5, <2>9
<1> QED BY <1>1, <1>2

\* In an election without lock, a replay from a genesis without lock ends in
\* the same state.
LEMMA ReplayedState ==
  ASSUME IInv, state.lock = NoLock
  PROVE  Replayed = state
<1>1. PICK s : s = state
  OBVIOUS
<1>2. PICK a, b, c, e, g, l : /\ a = s.root /\ b = s.count /\ c = s.weight
                              /\ e = Name("ceremony") /\ g = Name("vk") /\ l = NoLock
  OBVIOUS
<1>3. s = [root |-> a, count |-> b, weight |-> c, start |-> StartHeight,
           ceremony |-> e, maxVoters |-> MaxVoters, vk |-> g, lock |-> l]
  BY <1>1, <1>2 DEF IInv, ElectionFits, StateFits
<1>4. [s EXCEPT !.lock = l] = s
  BY <1>3
<1> QED BY <1>1, <1>2, <1>4 DEF Replayed

\* The invariant has every coin where the SDK looks for it.
LEMMA CoinsFound == IInv => CoinsAreWhereTheSdkLooks
<1> SUFFICES ASSUME IInv PROVE CoinsAreWhereTheSdkLooks
  OBVIOUS
<1>1. ASSUME state.lock = NoLock
      PROVE  election = SingletonOuter(ElectionId, ElectionInner(Replayed))
  BY <1>1, ReplayedState DEF IInv, ElectionFits
<1>2. ASSUME NEW v \in DOMAIN reg
      PROVE  Coin(v) = CatOuter(RegistrationInner(v, VotedBallotsRoot(reg[v].cast)))
  BY DEF IInv, RegsFit, RegFits, Coin, Last
<1>3. ASSUME NEW p \in DOMAIN vote
      PROVE  vote[p].coin = VotingCoin(p[1], p[2], vote[p].data, vote[p].from)
  BY DEF IInv, VotesFit, VoteFits
<1>4. ASSUME NEW b \in DOMAIN ballot
      PROVE  /\ ballot[b].coin = SingletonOuter(b, BallotInner(b, LeavesOf(b), ballot[b].state))
             /\ ReadsFinalized(b) = ballot[b].state.finalized
  <2> PICK s : s = ballot[b].state
    OBVIOUS
  <2> PICK leaves : leaves = LeavesOf(b)
    OBVIOUS
  <2>1. /\ ballot[b].coin = SingletonOuter(b, BallotInner(b, leaves, s))
        /\ s.finalized \in BOOLEAN
        /\ ~s.finalized => s = FreshBallot
    BY DEF IInv, BallotsFit, BallotFits, LeavesOf
  <2>2. (ballot[b].coin # SingletonOuter(b, BallotInner(b, leaves, FreshBallot))) = s.finalized
    BY <2>1, DecidedShows
  <2> QED BY <2>1, <2>2 DEF ReadsFinalized, FirstCoin
<1> QED BY <1>1, <1>2, <1>3, <1>4 DEF CoinsAreWhereTheSdkLooks

\* Every live coin is found by the puzzle hash the SDK computes from the state
\* it tracks, and the reader tells a decided ballot from an open one.
THEOREM SdkFindsTheCoins == Spec => []CoinsAreWhereTheSdkLooks
<1>1. IInv => CoinsAreWhereTheSdkLooks
  BY CoinsFound
<1> QED BY <1>1, CoinsFollow, PTL

\* The lists of options that an election's ballots may have.
LEMMA OptionListFacts ==
  ASSUME NEW b \in Ballot, NEW options \in Modes[b]
  PROVE  options \in OptionLists /\ options \in Seq(Range(options))
<1>1. Modes[b] \in Range(Modes)
  BY CoinPuzzlesAssumption DEF Range
<1>2. options \in OptionLists
  BY <1>1 DEF OptionLists
<1> QED BY <1>2, CoinPuzzlesAssumption

\* Every option of a list passes its ballot's check with the SDK's proof.
LEMMA OptionsVoted == IInv => ListedOptionsCanBeVoted
<1> SUFFICES ASSUME IInv, NEW b \in DOMAIN ballot,
                    NEW data \in Option \cup Range(ballot[b].options),
                    NEW options, options = ballot[b].options
             PROVE  VoteIsAllowed(OptionsRoot[options], data, ProofOf[options][data])
                      <=> options = <<>> \/ data \in Range(options)
  BY DEF ListedOptionsCanBeVoted
<1>1. b \in Ballot /\ options \in Modes[b]
  BY DEF IInv, BallotsFit, BallotFits
<1>2. options \in OptionLists /\ options \in Seq(Range(options))
  BY <1>1, OptionListFacts
<1>3. OptionsRoot[options] = VoteOptionsRoot(options)
  BY <1>2 DEF OptionsRoot
<1>4. data \in Option \cup UNION {Range(o) : o \in OptionLists}
  BY <1>2
<1>5. ProofOf[options][data] = OptionProof(options, data)
  BY <1>2, <1>4 DEF ProofOf
<1> QED BY <1>2, <1>3, <1>5, VotesAllowed

\* A ballot's coin takes exactly the options of its list, each with the proof
\* the SDK makes, and a free ballot's coin any option.
THEOREM OptionsCanBeVoted == Spec => []ListedOptionsCanBeVoted
<1>1. IInv => ListedOptionsCanBeVoted
  BY OptionsVoted
<1> QED BY <1>1, CoinsFollow, PTL

\* The requests of every spend are what the action layer runs.
LEMMA RequestsRun == IInv => LayerRunsWhatWasAsked
<1> SUFFICES ASSUME IInv, NEW asked \in ActionLists
             PROVE  RunLayer(CurriedArg(SingletonInner(election), 2), SolutionFor[asked]) = asked
  BY DEF LayerRunsWhatWasAsked
<1>1. CurriedArg(SingletonInner(election), 2) = TreeRoot(ElectionLeaves)
  BY LayersOpen, ElectionTree DEF IInv, ElectionFits, ElectionInner
<1>2. SolutionFor[asked] = LayerSolution(ElectionLeaves, asked)
  BY DEF SolutionFor
<1>3. PICK n \in 1 .. 3 : asked \in [1 .. n -> [puzzle : Range(ElectionLeaves), solution : 1 .. 2]]
  BY DEF ActionLists
<1>4. asked \in [1 .. n -> [puzzle : {ElectionLeaves[i] : i \in 1 .. Len(ElectionLeaves)}, solution : 1 .. 2]]
  BY <1>3, ElectionTree
<1>5. Len(ElectionLeaves) \in Nat /\ n \in Nat
  BY ElectionTree
<1>6. RunLayer(TreeRoot(ElectionLeaves), LayerSolution(ElectionLeaves, asked)) = asked
  BY <1>4, <1>5, LayerRunsRequests
<1> QED BY <1>1, <1>2, <1>6

\* The live coin's layer runs every list of requests as it was asked.
THEOREM ElectionRunsRequests == Spec => []LayerRunsWhatWasAsked
<1>1. IInv => LayerRunsWhatWasAsked
  BY RequestsRun
<1> QED BY <1>1, CoinsFollow, PTL

----------------------------------------------------------------------------
(* The spends the SDK builds.                                               *)

\* Without a lock, the SDK reveals the puzzle of the Election Singleton and an
\* action that its layer runs.
LEMMA ElectionRevealed ==
  ASSUME IInv, state.lock = NoLock, NEW action, Contains(ElectionLeaves, action)
  PROVE  RevealsElection(action)
<1>1. Replayed = state /\ StateFits(state) /\ election = SingletonOuter(ElectionId, ElectionInner(state))
  BY ReplayedState DEF IInv, ElectionFits
<1>2. ElectionReveal(Replayed) = ElectionInner(state)
  BY <1>1, StatesAgree DEF ElectionReveal, ElectionInner
<1>3. CurriedArg(ElectionInner(state), 2) = TreeRoot(ElectionLeaves)
  BY LayersOpen, ElectionTree DEF ElectionInner
<1>4. Len(ElectionLeaves) \in Nat
  BY ElectionTree
<1>5. Runs(ElectionInner(state), ElectionLeaves, action)
  BY <1>3, <1>4, LeavesRun
<1> QED BY <1>1, <1>2, <1>5 DEF RevealsElection

\* A Registration Coin runs the actions of its tree.
LEMMA RegistrationRuns ==
  ASSUME NEW v, NEW voted, NEW action \in {MintAction, ReleaseAction}
  PROVE  Runs(CatInner(CatOuter(RegistrationInner(v, voted))), RegistrationLeaves, action)
<1>1. CatInner(CatOuter(RegistrationInner(v, voted))) = RegistrationInner(v, voted)
  BY LayersOpen
<1>2. CurriedArg(RegistrationInner(v, voted), 2) = TreeRoot(RegistrationLeaves)
  BY LayersOpen, RegistrationTree DEF RegistrationInner
<1>3. Contains(RegistrationLeaves, action) /\ Len(RegistrationLeaves) \in Nat
  BY RegistrationTree
<1>4. Runs(RegistrationInner(v, voted), RegistrationLeaves, action)
  BY <1>2, <1>3, LeavesRun
<1> QED BY <1>1, <1>4

\* A registration by the SDK is accepted.
LEMMA SdkRegistrationAccepted ==
  ASSUME IInv, state.lock = NoLock, NEW v \in Voter, NEW amount \in Amount[v],
         SlotOf[v] \notin DOMAIN tree, amount >= CollateralAmount
  PROVE  SdkRegisters(v, amount)
<1>1. Root(LeafHashes) = state.root
  BY DEF IInv, ElectionFits, LeafHashes, VoterLeaves
<1>2. RevealsElection(RegisterAction)
  BY ElectionRevealed, ElectionTree
<1>3. ComputeRoot(EmptyLeaf, SlotOf[v], Prove(VoterLeaves(tree), SlotOf[v])) = Root(VoterLeaves(tree))
  <2>1. IsTree(tree) /\ SlotOf[v] \in Slots
    BY CoinPuzzlesAssumption DEF IInv, TreeFits
  <2>2. IsTree(VoterLeaves(tree)) /\ EmptyLeaf = LeafAt(VoterLeaves(tree), SlotOf[v])
    BY <2>1, VoterLeavesFacts
  <2> QED BY <2>1, <2>2, ProofsTell
<1>4. RueRegisterAccepts(RegisterAction, state, v, Siblings(v), amount)
  <2>1. Siblings(v) = Prove(VoterLeaves(tree), SlotOf[v]) /\ Root(VoterLeaves(tree)) = state.root
    BY <1>1 DEF Siblings, LeafHashes, VoterLeaves
  <2>2. amount >= Unsigned(CurriedArg(RegisterAction, 8)[2])
    BY FreshCoinsAgree
  <2> QED BY <1>3, <2>1, <2>2 DEF RueRegisterAccepts
<1> QED BY <1>1, <1>2, <1>4, FreshCoinsAgree DEF SdkRegisters

\* A creation of a ballot by the SDK is accepted.
LEMMA SdkBallotAccepted ==
  ASSUME IInv, state.lock = NoLock, NEW options
  PROVE  SdkCreatesBallots(options)
<1>1. RevealsElection(CreateBallotAction)
  BY ElectionRevealed, ElectionTree
<1>2. state.lock = CurriedArg(CreateBallotAction, 3)
  BY FreshCoinsAgree
<1> QED BY <1>1, <1>2 DEF SdkCreatesBallots, RueModeLockOk

\* One step of the walk back through a voter's coins.
WalkStep(v, walk, k) ==
  LET coins == reg[v].coins
      cast  == reg[v].cast
      found == SubSeq(cast, k, Len(coins) - 1)
  IN  IF coins[k] = FreshRegistrationCoin(v) THEN [ok |-> TRUE, ballots |-> found]
      ELSE IF k > 1 /\ coins[k] = CatOuter(RegistrationInner(v,
                                    VotedBallotsRoot(Append(found, cast[k - 1]))))
           THEN walk[k - 1]
           ELSE [ok |-> FALSE, ballots |-> <<>>]

\* The walk of voted ballots as its recursive definition says.
LEMMA WalkDef ==
  ASSUME NEW v, NEW n \in Nat, n = Len(reg[v].coins)
  PROVE  \E walk : /\ walk = [k \in 1 .. n |-> WalkStep(v, walk, k)]
                   /\ WalkedBallots(v) = walk[n]
<1> DEFINE Is(m, g) == g = [k \in 1 .. m |-> WalkStep(v, g, k)]
           N == {m \in Nat : \E g : Is(m, g)}
<1>1. 0 \in N
  <2>1. Is(0, [k \in 1 .. 0 |-> <<>>])
    OBVIOUS
  <2> HIDE DEF Is
  <2> QED BY <2>1
<1>2. ASSUME NEW m \in N PROVE m + 1 \in N
  <2>1. m \in Nat
    OBVIOUS
  <2>2. PICK g : Is(m, g)
    OBVIOUS
  <2> DEFINE h == [k \in 1 .. m + 1 |-> IF k <= m THEN g[k] ELSE WalkStep(v, g, m + 1)]
  <2>3. ASSUME NEW k \in 1 .. m + 1 PROVE h[k] = WalkStep(v, h, k)
    <3>1. h[k] = WalkStep(v, g, k)
      <4>1. CASE k <= m
        <5>1. k \in 1 .. m
          BY <2>1, <4>1
        <5>2. g[k] = WalkStep(v, g, k)
          BY <2>2, <5>1, Zenon
        <5> QED BY <4>1, <5>2
      <4>2. CASE k = m + 1
        <5>1. ~(m + 1 <= m)
          BY <2>1
        <5> QED BY <4>2, <5>1
      <4> QED BY <2>1, <4>1, <4>2
    <3>2. k > 1 => h[k - 1] = g[k - 1]
      BY <2>1
    <3> HIDE DEF h
    <3>3. WalkStep(v, g, k) = WalkStep(v, h, k)
      <4>1. PICK x, y, z, w, e : /\ x = reg[v].coins[k] /\ y = FreshRegistrationCoin(v)
              /\ z = SubSeq(reg[v].cast, k, Len(reg[v].coins) - 1)
              /\ w = CatOuter(RegistrationInner(v, VotedBallotsRoot(
                       Append(SubSeq(reg[v].cast, k, Len(reg[v].coins) - 1), reg[v].cast[k - 1]))))
              /\ e = <<>>
        OBVIOUS
      <4>2. \A f : WalkStep(v, f, k) = IF x = y THEN [ok |-> TRUE, ballots |-> z]
                                       ELSE IF k > 1 /\ x = w THEN f[k - 1]
                                       ELSE [ok |-> FALSE, ballots |-> e]
        BY <4>1 DEF WalkStep
      <4> QED BY <3>2, <4>2
    <3> QED BY <3>1, <3>3
  <2>4. Is(m + 1, h)
    BY <2>3
  <2> HIDE DEF h, Is
  <2> QED BY <2>1, <2>4
<1>3. N = Nat
  <2> HIDE DEF N
  <2>1. N \in SUBSET Nat
    BY DEF N
  <2> QED BY <1>1, <1>2, <2>1, NumberInduction
<1>4. \E g : Is(n, g)
  BY <1>3
<1> DEFINE walk == CHOOSE g : Is(n, g)
<1>5. Is(n, walk)
  <2> HIDE DEF Is
  <2> QED BY <1>4
<1>6. WalkedBallots(v) = walk[n]
  BY DEF WalkedBallots, WalkStep
<1> HIDE DEF walk
<1> QED BY <1>5, <1>6

\* The parts of sequences of at most one element.
LEMMA SubSeqOfOne ==
  ASSUME NEW S, NEW s \in Seq(S)
  PROVE  /\ Len(s) = 0 => s = <<>> /\ SubSeq(s, 1, 0) = s
         /\ Len(s) = 1 => SubSeq(s, 2, 1) = <<>> /\ SubSeq(s, 1, 1) = s /\ Append(<<>>, s[1]) = s
OBVIOUS

\* The walk ends at the fresh coin, with the ballots that give the live coin.
LEMMA WalkFindsTheVotes ==
  ASSUME IInv, NEW v \in DOMAIN reg, Len(reg[v].cast) <= 1
  PROVE  /\ WalkedBallots(v).ok
         /\ Coin(v) = CatOuter(RegistrationInner(v, VotedBallotsRoot(WalkedBallots(v).ballots)))
<1> PICK fresh : fresh = FreshRegistrationCoin(v)
  OBVIOUS
<1> PICK cast : cast = reg[v].cast
  OBVIOUS
<1> PICK coins : coins = reg[v].coins
  OBVIOUS
<1>1. /\ Apart(cast) /\ IsSeq(coins) /\ Len(coins) = Len(cast) + 1 /\ coins[1] = fresh
      /\ coins[Len(coins)] = CatOuter(RegistrationInner(v, VotedBallotsRoot(cast)))
  BY DEF IInv, RegsFit, RegFits
<1>2. cast \in Seq(Ballot) /\ (Len(cast) = 0 \/ Len(cast) = 1)
  <2>1. cast \in Seq(Ballot)
    BY <1>1 DEF Apart
  <2>2. PICK n : n = Len(cast)
    OBVIOUS
  <2>3. n \in Nat /\ n <= 1
    BY <2>1, <2>2
  <2>4. n = 0 \/ n = 1
    BY <2>3
  <2> QED BY <2>1, <2>2, <2>4
<1>3. PICK n : n = Len(coins)
  OBVIOUS
<1>4. n \in Nat /\ n = Len(cast) + 1
  BY <1>1, <1>2, <1>3
<1>5. PICK walk : walk = [k \in 1 .. n |-> WalkStep(v, walk, k)] /\ WalkedBallots(v) = walk[n]
  BY <1>3, <1>4, WalkDef
<1>6. Coin(v) = coins[n] /\ coins[n] = CatOuter(RegistrationInner(v, VotedBallotsRoot(cast)))
  BY <1>1, <1>3 DEF Coin, Last
<1>7. fresh = CatOuter(RegistrationInner(v, VotedBallotsRoot(<<>>)))
  BY NoVotes DEF FreshRegistrationCoin
<1>8. \A k \in 1 .. n : coins[k] = fresh => walk[k] = [ok |-> TRUE, ballots |-> SubSeq(cast, k, n - 1)]
  <2> SUFFICES ASSUME NEW k \in 1 .. n, coins[k] = fresh
               PROVE  walk[k] = [ok |-> TRUE, ballots |-> SubSeq(cast, k, n - 1)]
    OBVIOUS
  <2>1. walk[k] = WalkStep(v, walk, k)
    BY <1>5
  <2>2. WalkStep(v, walk, k) = [ok |-> TRUE, ballots |-> SubSeq(cast, k, n - 1)]
    BY <1>3 DEF WalkStep
  <2> QED BY <2>1, <2>2
<1> DEFINE Good(w) == /\ w.ok
                      /\ coins[n] = CatOuter(RegistrationInner(v, VotedBallotsRoot(w.ballots)))
<1>9. ASSUME NEW found, coins[n] = CatOuter(RegistrationInner(v, VotedBallotsRoot(found)))
      PROVE  Good([ok |-> TRUE, ballots |-> found])
  BY <1>9
<1>10. CASE Len(cast) = 0
  <2>1. n = 1 /\ SubSeq(cast, 1, 0) = cast
    BY <1>2, <1>4, <1>10, SubSeqOfOne
  <2>2. walk[1] = [ok |-> TRUE, ballots |-> SubSeq(cast, 1, 0)]
    BY <1>1, <1>8, <2>1
  <2>3. walk[n] = [ok |-> TRUE, ballots |-> cast]
    BY <2>1, <2>2
  <2>4. Good(walk[n])
    <3> HIDE DEF Good
    <3> QED BY <1>6, <1>9, <2>3
  <2> QED BY <1>5, <1>6, <2>4
<1>11. CASE Len(cast) = 1
  <2>1. n = 2 /\ SubSeq(cast, 2, 1) = <<>> /\ SubSeq(cast, 1, 1) = cast /\ Append(<<>>, cast[1]) = cast
    BY <1>2, <1>4, <1>11, SubSeqOfOne
  <2>2. CASE coins[2] = fresh
    <3>1. walk[2] = [ok |-> TRUE, ballots |-> SubSeq(cast, 2, 1)]
      BY <1>8, <2>1, <2>2
    <3>2. walk[n] = [ok |-> TRUE, ballots |-> <<>>]
      BY <2>1, <3>1
    <3>3. coins[n] = CatOuter(RegistrationInner(v, VotedBallotsRoot(<<>>)))
      BY <1>7, <2>1, <2>2
    <3>4. Good(walk[n])
      <4> HIDE DEF Good
      <4> QED BY <1>9, <3>2, <3>3
    <3> QED BY <1>5, <1>6, <3>4
  <2>3. CASE coins[2] # fresh
    <3>1. walk[2] = walk[1]
      <4>1. walk[2] = WalkStep(v, walk, 2)
        BY <1>5, <2>1
      <4>2. coins[2] = CatOuter(RegistrationInner(v, VotedBallotsRoot(Append(<<>>, cast[1]))))
        BY <1>6, <2>1
      <4>3. PICK found : found = SubSeq(cast, 2, 1)
        OBVIOUS
      <4>4. coins[2] = CatOuter(RegistrationInner(v, VotedBallotsRoot(Append(found, cast[1]))))
        BY <2>1, <4>2, <4>3
      <4>5. /\ 2 > 1 /\ 2 - 1 = 1 /\ Len(coins) - 1 = 1
        BY <1>3, <2>1
      <4>6. WalkStep(v, walk, 2) = walk[1]
        BY <2>3, <4>3, <4>4, <4>5 DEF WalkStep
      <4> QED BY <4>1, <4>6
    <3>2. walk[1] = [ok |-> TRUE, ballots |-> SubSeq(cast, 1, 1)]
      BY <1>1, <1>8, <2>1
    <3>3. walk[n] = [ok |-> TRUE, ballots |-> cast]
      BY <2>1, <3>1, <3>2
    <3>4. Good(walk[n])
      <4> HIDE DEF Good
      <4> QED BY <1>6, <1>9, <3>3
    <3> QED BY <1>5, <1>6, <3>4
  <2> QED BY <2>2, <2>3
<1> QED BY <1>2, <1>10, <1>11

\* A release of a coin with at most one vote is accepted.
LEMMA SdkReleaseAccepted ==
  ASSUME IInv, state.lock = NoLock, NEW v \in Members, Len(reg[v].cast) <= 1
  PROVE  SdkReleases(v)
<1>1. v \in DOMAIN reg /\ SlotOf[v] \in DOMAIN tree /\ tree[SlotOf[v]].voter = v
  BY DEF Members
<1>2. RevealsElection(DeregisterAction)
  BY ElectionRevealed, ElectionTree
<1>3. RueDeregisterAccepts(state, v, Siblings(v), tree[SlotOf[v]].amount)
  <2>1. Siblings(v) = Prove(VoterLeaves(tree), SlotOf[v]) /\ Root(VoterLeaves(tree)) = state.root
    BY DEF IInv, ElectionFits, Siblings, LeafHashes, VoterLeaves
  <2>2. IsTree(tree)
    BY DEF IInv, TreeFits
  <2>3. PICK i : i = SlotOf[v]
    OBVIOUS
  <2>4. PICK u : u = Without(tree, i)
    OBVIOUS
  <2>5. ComputeRoot(ActiveLeaf(tree[i].voter, tree[i].amount), i, Prove(VoterLeaves(tree), i)) = Root(VoterLeaves(tree))
    BY <1>1, <2>2, <2>3, <2>4, LeavesTree
  <2> QED BY <1>1, <2>1, <2>3, <2>5 DEF RueDeregisterAccepts
<1>4. WalkedBallots(v).ok
      /\ Coin(v) = CatOuter(RegistrationInner(v, VotedBallotsRoot(WalkedBallots(v).ballots)))
  BY <1>1, WalkFindsTheVotes
<1>5. Runs(CatInner(Coin(v)), RegistrationLeaves, ReleaseAction)
  <2>1. PICK voted : voted = VotedBallotsRoot(WalkedBallots(v).ballots)
    OBVIOUS
  <2>2. Coin(v) = CatOuter(RegistrationInner(v, voted))
    BY <1>4, <2>1
  <2> QED BY <2>2, RegistrationRuns
<1> QED BY <1>2, <1>3, <1>4, <1>5 DEF SdkReleases

\* The coin of an open free ballot is the one the SDK reveals.
LEMMA OpenBallotRevealed ==
  ASSUME IInv, NEW b \in DOMAIN ballot, Free(b), Open(b), NEW action,
         action \in {FreeOracle(b), FreeFinalize(b)}
  PROVE  RevealsBallot(b, OpenInner(b), action)
<1> PICK r : r = ballot[b]
  OBVIOUS
<1> PICK leaves : leaves = FreeLeaves(b)
  OBVIOUS
<1>1. /\ b \in Ballot /\ r.options \in Modes[b]
      /\ r.coin = SingletonOuter(b, BallotInner(b, LeavesOf(b), r.state))
      /\ ~r.state.finalized =>
            r.state = FreshBallot
            /\ (r.parent = Launcher \/ r.parent = BallotInner(b, LeavesOf(b), FreshBallot))
  BY DEF IInv, BallotsFit, BallotFits, LeavesOf
<1>2. r.options = <<>> /\ ~r.state.finalized
  BY DEF Free, Open
<1>3. OptionsRoot[r.options] = FreeRoot
  <2>1. r.options \in OptionLists
    BY <1>1, OptionListFacts
  <2>2. OptionsRoot[r.options] = VoteOptionsRoot(r.options)
    BY <2>1 DEF OptionsRoot
  <2> QED BY <1>2, <2>2 DEF VoteOptionsRoot
<1>4. LeavesOf(b) = leaves
  BY <1>3 DEF LeavesOf, FreeLeaves, LauncherMemo
<1>5. r.coin = SingletonOuter(b, OpenInner(b))
  BY <1>1, <1>2, <1>4 DEF OpenInner
<1>6. BallotLineage(b, OpenInner(b)) = r.parent
  BY <1>1, <1>2, <1>4 DEF BallotLineage, OpenInner
<1>7. Runs(OpenInner(b), leaves, action)
  <2>1. leaves = BallotLeaves(b, LauncherMemo(b).root, LauncherMemo(b).weight, FreeRoot)
    BY DEF FreeLeaves
  <2>2. PICK x, y : x = LauncherMemo(b).root /\ y = LauncherMemo(b).weight
    OBVIOUS
  <2>3. leaves = BallotLeaves(b, x, y, FreeRoot)
    BY <2>1, <2>2
  <2>4. /\ ActionRoot3(leaves) = TreeRoot(leaves) /\ Len(leaves) = 3
        /\ Contains(leaves, FinalizeAction(b, x, y)) /\ Contains(leaves, OracleAction(b, FreeRoot))
    BY <2>3, BallotTree
  <2>5. Contains(leaves, action)
    BY <2>2, <2>4 DEF FreeOracle, FreeFinalize
  <2>6. CurriedArg(OpenInner(b), 2) = TreeRoot(leaves)
    BY <2>4, LayersOpen DEF OpenInner, BallotInner
  <2> QED BY <2>4, <2>5, <2>6, LeavesRun
<1> QED BY <1>5, <1>6, <1>7 DEF RevealsBallot

\* What the oracle of a free ballot announces.
LEMMA FreeOracleSays ==
  ASSUME NEW b
  PROVE  RueOracleMessage(FreeOracle(b)) = RueAssertedMessage(b, CloseHeight, FreeRoot)
BY OraclesAgree DEF FreeOracle

\* A first vote on a free ballot is accepted if the voter locked the
\* configured amount.
LEMMA SdkVoteAccepted ==
  ASSUME IInv, NEW b \in DOMAIN ballot, Free(b), Open(b), NEW v \in Members, reg[v].cast = <<>>
  PROVE  SdkCasts(v, b) <=> tree[SlotOf[v]].amount = CollateralAmount
<1>1. RevealsBallot(b, OpenInner(b), FreeOracle(b))
  BY OpenBallotRevealed
<1>2. v \in DOMAIN reg
  BY DEF Members
<1>3. Coin(v) = FreshRegistrationCoin(v)
  <2>1. Coin(v) = CatOuter(RegistrationInner(v, VotedBallotsRoot(reg[v].cast)))
    BY <1>2 DEF IInv, RegsFit, RegFits, Coin, Last
  <2> QED BY <2>1, NoVotes DEF FreshRegistrationCoin
<1>4. Runs(CatInner(Coin(v)), RegistrationLeaves, MintAction)
  BY <1>3, RegistrationRuns DEF FreshRegistrationCoin
<1>5. RueNotVoted(VotedRoot(v), b, EmptySiblings)
  <2>1. VotedRoot(v) = EmptySubtree[TreeDepth]
    BY <1>3, VotedRootReads DEF VotedRoot, FreshRegistrationCoin
  <2>2. SlotOf[b] \in Slots
    BY CoinPuzzlesAssumption DEF IInv, BallotsFit, BallotFits
  <2> QED BY <2>1, <2>2, EmptyTree DEF RueNotVoted
<1>6. (\A k \in 0 .. CollateralAmount : KeepsAmount(v, k)) <=> tree[SlotOf[v]].amount = CollateralAmount
  <2>1. CollateralAmount \in Nat
    BY CoinPuzzlesAssumption, ClvmAssumption
  <2>2. 0 \in 0 .. CollateralAmount
    BY <2>1
  <2> QED BY <2>1, <2>2 DEF KeepsAmount
<1> QED BY <1>1, <1>3, <1>4, <1>5, <1>6, FreeOracleSays DEF SdkCasts

\* An update of a vote on a free ballot is accepted.
LEMMA SdkUpdateAccepted ==
  ASSUME IInv, NEW b \in DOMAIN ballot, Free(b), Open(b), NEW p \in DOMAIN vote, p[2] = b,
         NEW v, v = p[1]
  PROVE  SdkUpdates(v, b)
<1>1. RevealsBallot(b, OpenInner(b), FreeOracle(b))
  BY OpenBallotRevealed
<1>2. p = <<v, b>> /\ vote[p].coin = VotingCoin(v, b, vote[p].data, vote[p].from)
  BY DEF IInv, VotesFit, VoteFits
<1>3. Runs(CatInner(vote[p].coin), <<Mod("update_vote")>>, Mod("update_vote"))
  <2>1. PICK d, f : d = vote[p].data /\ f = vote[p].from
    OBVIOUS
  <2>2. PICK inner : inner = LayerPuzzle(FinalizerFull("voting_coin_finalizer", VotingCoinHint(v, b)),
                               VotingRoot, VotingStateHash(v, b, d, f))
    OBVIOUS
  <2>3. CatInner(vote[p].coin) = inner
    BY <1>2, <2>1, <2>2, LayersOpen DEF VotingCoin
  <2>4. PICK leaves : leaves = <<Mod("update_vote")>>
    OBVIOUS
  <2>5. CurriedArg(inner, 2) = TreeRoot(leaves) /\ Len(leaves) \in Nat /\ Contains(leaves, Mod("update_vote"))
    BY <2>2, <2>4, LayersOpen, VotingTree
  <2>6. Runs(inner, leaves, Mod("update_vote"))
    BY <2>5, LeavesRun
  <2> QED BY <2>3, <2>4, <2>6
<1> QED BY <1>1, <1>2, <1>3, FreeOracleSays DEF SdkUpdates

\* A decision on a free ballot is accepted, if its scalars are plain.
LEMMA SdkDecisionAccepted ==
  ASSUME IInv, NEW b \in DOMAIN ballot, Free(b), Open(b)
  PROVE  SdkFinalizes(b, PlainScalars)
<1>1. RevealsBallot(b, OpenInner(b), FreeFinalize(b))
  BY OpenBallotRevealed
<1>2. \A n \in PlainScalars : n \in 0 .. MaxInt /\ ~(n > 0 /\ HasSign(BigEndian[n][1]))
  BY DEF PlainScalars
<1>3. \A n \in PlainScalars : UintAtom(n) = ScalarAtom(n)
  BY <1>2 DEF UintAtom, ScalarAtom
<1>4. \A n \in PlainScalars : ScalarAtom(n) = ClvmInt(n)
  BY <1>2, <1>3, EncodersAgree
<1> QED BY <1>1, <1>4 DEF SdkFinalizes

\* The spends of the SDK are accepted in every state of the invariant.
LEMMA SpendsAccepted == IInv => SdkSpendsAreAccepted
<1> SUFFICES ASSUME IInv, state.lock = NoLock
             PROVE  /\ \A v \in Voter : \A amount \in Amount[v] :
                         SlotOf[v] \notin DOMAIN tree /\ amount >= CollateralAmount => SdkRegisters(v, amount)
                    /\ \A v \in Members : Len(reg[v].cast) <= 1 => SdkReleases(v)
                    /\ \A options \in OptionLists : SdkCreatesBallots(options)
                    /\ \A b \in {c \in DOMAIN ballot : Free(c) /\ Open(c)} :
                         /\ SdkFinalizes(b, PlainScalars)
                         /\ \A v \in Members :
                              reg[v].cast = <<>> =>
                                (SdkCasts(v, b) <=> tree[SlotOf[v]].amount = CollateralAmount)
                         /\ \A p \in DOMAIN vote : p[2] = b => SdkUpdates(p[1], b)
  BY DEF SdkSpendsAreAccepted
<1>1. \A v \in Voter : \A amount \in Amount[v] :
        SlotOf[v] \notin DOMAIN tree /\ amount >= CollateralAmount => SdkRegisters(v, amount)
  BY SdkRegistrationAccepted
<1>2. \A v \in Members : Len(reg[v].cast) <= 1 => SdkReleases(v)
  BY SdkReleaseAccepted
<1>3. \A options \in OptionLists : SdkCreatesBallots(options)
  BY SdkBallotAccepted
<1>4. ASSUME NEW b \in DOMAIN ballot, Free(b), Open(b)
      PROVE  /\ SdkFinalizes(b, PlainScalars)
             /\ \A v \in Members :
                  reg[v].cast = <<>> =>
                    (SdkCasts(v, b) <=> tree[SlotOf[v]].amount = CollateralAmount)
             /\ \A p \in DOMAIN vote : p[2] = b => SdkUpdates(p[1], b)
  BY <1>4, SdkDecisionAccepted, SdkVoteAccepted, SdkUpdateAccepted
<1> QED BY <1>1, <1>2, <1>3, <1>4

\* In an election without lock the coins accept what the SDK builds: any
\* registration in a free slot, the release of a member who voted at most
\* once, new ballots, and on open free ballots updates, decisions, and first
\* votes of those who locked the configured collateral and no more.
THEOREM SdkSpendsGoThrough == Spec => []SdkSpendsAreAccepted
<1>1. IInv => SdkSpendsAreAccepted
  BY SpendsAccepted
<1> QED BY <1>1, CoinsFollow, PTL
=============================================================================
