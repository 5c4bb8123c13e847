------------------------ MODULE CeremonyPuzzlesProofs -------------------------
(***************************************************************************)
(* What the SDK reads back from the coins of a ceremony, and the bundles   *)
(* it builds for them, for any parameters, contributions and keys.         *)
(***************************************************************************)
EXTENDS CeremonyPuzzles, ClvmProofs

(* What the SDK hashes is what the puzzles carry.                           *)

\* The parameters of a ceremony are a record of them.
LEMMA ParamsFit ==
  ASSUME NEW p \in Parameters
  PROVE  /\ p.start \in 0 .. MaxInt /\ p.length \in 0 .. MaxInt
         /\ p.minimum \in 0 .. MaxInt /\ p.maxVoters \in 0 .. MaxInt
         /\ p = [start |-> p.start, length |-> p.length,
                 minimum |-> p.minimum, maxVoters |-> p.maxVoters]
BY DEF Parameters

\* Both encoders write the integers of a ceremony's puzzles alike.
LEMMA PuzzlesAgree ==
  ASSUME NEW p \in Parameters
  PROVE  /\ ContributePuzzle(p) = ContributeHash(p)
         /\ CommittedFinalize(p) = FinalizeHash(p)
<1>1. \A n \in 0 .. MaxInt : ClvmInt(n) = UintAtom(n)
  BY EncodersAgree
<1>2. /\ ClvmInt(p.start) = UintAtom(p.start) /\ ClvmInt(p.length) = UintAtom(p.length)
      /\ ClvmInt(p.minimum) = UintAtom(p.minimum) /\ ClvmInt(p.maxVoters) = UintAtom(p.maxVoters)
  BY <1>1, ParamsFit
<1> QED BY <1>2 DEF ContributePuzzle, ContributeHash, CommittedFinalize, FinalizeHash

\* An integer a puzzle finds in an argument is the one that was written.
LEMMA AtomsRead ==
  ASSUME NEW n \in 0 .. MaxInt
  PROVE  Unsigned(ClvmInt(n)[2][2]) = n /\ Unsigned(UintAtom(n)[2][2]) = n
<1>1. ClvmInt(n)[2][2] = SdkBytes(n) /\ UintAtom(n)[2][2] = SdkBytes(n)
  BY EncodersAgree DEF Atom
<1> QED BY <1>1, EncodersAgree

\* Two integers have two atoms.
LEMMA AtomsDiffer ==
  ASSUME NEW n \in 0 .. MaxInt, NEW m \in 0 .. MaxInt, n # m
  PROVE  ClvmInt(n) # ClvmInt(m) /\ UintAtom(n) # UintAtom(m)
<1>1. /\ Unsigned(ClvmInt(n)[2][2]) = n /\ Unsigned(UintAtom(n)[2][2]) = n
      /\ Unsigned(ClvmInt(m)[2][2]) = m /\ Unsigned(UintAtom(m)[2][2]) = m
  BY AtomsRead
<1> QED BY <1>1

\* What the curried puzzles have at the places the actions read.
LEMMA ArgumentsRead ==
  ASSUME NEW p \in Parameters
  PROVE  /\ CurriedArg(ContributePuzzle(p), 1) = CeremonyId
         /\ IntArg(ContributePuzzle(p), 2) = p.start
         /\ IntArg(ContributePuzzle(p), 3) = p.length
         /\ CurriedArg(ContributePuzzle(p), 4) = MarkerMod
         /\ CurriedArg(CommittedFinalize(p), 1) = CeremonyId
         /\ IntArg(CommittedFinalize(p), 2) = p.start
         /\ IntArg(CommittedFinalize(p), 3) = p.length
         /\ IntArg(CommittedFinalize(p), 4) = p.maxVoters
         /\ CurriedArg(CommittedFinalize(p), 5) = MarkerMod
         /\ CurriedArg(CommittedFinalize(p), 6) = VoucherMod
         /\ IntArg(CommittedFinalize(p), 7) = p.minimum
<1>1. /\ Unsigned(ClvmInt(p.start)[2][2]) = p.start
      /\ Unsigned(ClvmInt(p.length)[2][2]) = p.length
      /\ Unsigned(ClvmInt(p.minimum)[2][2]) = p.minimum
      /\ Unsigned(ClvmInt(p.maxVoters)[2][2]) = p.maxVoters
  BY ParamsFit, AtomsRead
<1> HIDE DEF ClvmInt
<1> QED
  BY <1>1 DEF ContributePuzzle, CommittedFinalize, CurriedArg, IntArg, Curry, Atom

\* The tree of a ceremony's two actions.
LEMMA LeavesOfCeremony ==
  ASSUME NEW p \in Parameters
  PROVE  /\ Len(ActionLeaves(p)) = 2
         /\ {ActionLeaves(p)[1], ActionLeaves(p)[2]} = {ContributeHash(p), FinalizeHash(p)}
         /\ Contains(ActionLeaves(p), ContributeHash(p))
         /\ Contains(ActionLeaves(p), FinalizeHash(p))
         /\ ActionsRoot(p) = TreeRoot(ActionLeaves(p))
<1>1. ModName(ContributeHash(p)) = "contribute" /\ ModName(FinalizeHash(p)) = "finalize"
  BY DEF ContributeHash, FinalizeHash, ModName, Curry, Mod
<1>2. /\ Order[ModName(ContributeHash(p))] \in Nat /\ Order[ModName(FinalizeHash(p))] \in Nat
      /\ Order[ModName(ContributeHash(p))] # Order[ModName(FinalizeHash(p))]
  BY <1>1, CeremonyPuzzlesAssumption
<1> HIDE DEF ContributeHash, FinalizeHash
<1>3. /\ Len(ActionLeaves(p)) = 2
      /\ {ActionLeaves(p)[1], ActionLeaves(p)[2]} = {ContributeHash(p), FinalizeHash(p)}
      /\ Contains(ActionLeaves(p), ContributeHash(p))
      /\ Contains(ActionLeaves(p), FinalizeHash(p))
  BY <1>2, TwoLeaves DEF ActionLeaves
<1>4. ActionsRoot(p) = TreeRoot(ActionLeaves(p))
  BY <1>3, RootsByHand DEF ActionsRoot
<1> QED BY <1>3, <1>4

\* The layer of a ceremony's coin runs both of its actions.
LEMMA CeremonyRuns ==
  ASSUME NEW p \in Parameters, NEW h
  PROVE  /\ Runs(InnerWith(p, h), ActionLeaves(p), ContributePuzzle(p))
         /\ Runs(InnerWith(p, h), ActionLeaves(p), CommittedFinalize(p))
<1>1. CurriedArg(InnerWith(p, h), 2) = TreeRoot(ActionLeaves(p))
  <2>1. CurriedArg(InnerWith(p, h), 2) = ActionsRoot(p)
    BY DEF InnerWith, LayerPuzzle, CurriedArg, Curry, Atom
  <2> QED BY <2>1, LeavesOfCeremony
<1>2. Len(ActionLeaves(p)) \in Nat
  BY LeavesOfCeremony
<1> QED BY <1>1, <1>2, LeavesOfCeremony, PuzzlesAgree, LeavesRun

\* The finalizer puts a new state in the same puzzle.
LEMMA CeremonyRecreates ==
  ASSUME NEW p, NEW h, NEW g
  PROVE  /\ SingletonInner(SingletonOuter(CeremonyId, InnerWith(p, h))) = InnerWith(p, h)
         /\ Recreate(InnerWith(p, h), g) = InnerWith(p, g)
<1> DEFINE first == Curry(Mod("ceremony_finalizer"), <<Atom(ActionLayer), Atom(CeremonyId)>>)
           finalizer == Curry(first, <<Atom(first)>>)
<1>1. InnerWith(p, h) = Curry(ActionLayer, <<finalizer, Atom(ActionsRoot(p)), h>>)
  BY DEF InnerWith, LayerPuzzle, FinalizerFull
<1>2. InnerWith(p, g) = Curry(ActionLayer, <<finalizer, Atom(ActionsRoot(p)), g>>)
  BY DEF InnerWith, LayerPuzzle, FinalizerFull
<1>3. finalizer[2] = first /\ CurriedArg(finalizer, 1) = first
  <2> HIDE DEF first
  <2> QED BY DEF Curry, CurriedArg, Atom
<1>4. CurriedArg(first, 1) = ActionLayer
  BY DEF Curry, CurriedArg, Atom
<1>5. finalizer = Curry(first, <<Atom(first)>>)
  OBVIOUS
<1>6. InnerWith(p, h)[3][1] = finalizer /\ CurriedArg(InnerWith(p, h), 2) = ActionsRoot(p)
  <2> HIDE DEF finalizer, first
  <2> QED BY <1>1 DEF Curry, CurriedArg, Atom
<1> HIDE DEF finalizer, first
<1>7. Recreate(InnerWith(p, h), g) = InnerWith(p, g)
  BY <1>2, <1>3, <1>4, <1>5, <1>6 DEF Recreate
<1>8. SingletonInner(SingletonOuter(CeremonyId, InnerWith(p, h))) = InnerWith(p, h)
  BY DEF SingletonInner, SingletonOuter, Curry
<1> QED BY <1>7, <1>8

\* The SDK hashes a ceremony's state as the finalizer in Rue does.
LEMMA StatesAgree ==
  ASSUME NEW s, s.count \in 0 .. MaxInt, s.finalized \in BOOLEAN
  PROVE  RueState(s) = StateHash(s)
<1>1. 0 \in 0 .. MaxInt /\ 1 \in 0 .. MaxInt
  BY ClvmAssumption
<1>2. \A n \in 0 .. MaxInt : ClvmInt(n) = UintAtom(n)
  BY EncodersAgree
<1>3. ClvmInt(IF s.finalized THEN 1 ELSE 0) = UintAtom(IF s.finalized THEN 1 ELSE 0)
  BY <1>1, <1>2
<1> QED BY <1>2, <1>3 DEF RueState, StateHash

----------------------------------------------------------------------------
(* What the decoders make of a solution.                                    *)

\* The fields of a solution, counted along its list.
LEMMA FieldDef ==
  ASSUME NEW node, NEW n \in Nat \ {0}
  PROVE  \E after :
           /\ after[0] = node
           /\ \A k \in 1 .. n - 1 : after[k] = Rest(after[k - 1])
           /\ \A i \in 1 .. n :
                FieldOf(node, i, n) = IF i = n THEN after[n - 1] ELSE First(after[i - 1])
<1> DEFINE Is(m, g) == g = [k \in 0 .. m |-> IF k = 0 THEN node ELSE Rest(g[k - 1])]
           N == {m \in Nat : \E g : Is(m, g)}
<1>1. 0 \in N
  <2>1. Is(0, [k \in 0 .. 0 |-> node])
    OBVIOUS
  <2> HIDE DEF Is
  <2> QED BY <2>1
<1>2. ASSUME NEW m \in N PROVE m + 1 \in N
  <2>1. m \in Nat
    OBVIOUS
  <2>2. PICK g : Is(m, g)
    OBVIOUS
  <2> DEFINE h == [k \in 0 .. m + 1 |-> IF k <= m THEN g[k] ELSE Rest(g[m])]
  <2>3. ASSUME NEW k \in 0 .. m + 1 PROVE h[k] = IF k = 0 THEN node ELSE Rest(h[k - 1])
    <3>1. h[k] = IF k = 0 THEN node ELSE Rest(g[k - 1])
      <4>1. k <= m => g[k] = IF k = 0 THEN node ELSE Rest(g[k - 1])
        BY <2>1, <2>2
      <4>2. ~(k <= m) => k = m + 1 /\ k # 0 /\ k - 1 = m
        BY <2>1
      <4> QED BY <2>1, <4>1, <4>2
    <3>2. k # 0 => h[k - 1] = g[k - 1]
      BY <2>1
    <3> HIDE DEF h
    <3> QED BY <3>1, <3>2
  <2>4. Is(m + 1, h)
    BY <2>3
  <2> HIDE DEF h, Is
  <2> QED BY <2>1, <2>4
<1>3. N = Nat
  <2> HIDE DEF N
  <2>1. N \in SUBSET Nat
    BY DEF N
  <2> QED BY <1>1, <1>2, <2>1, NumberInduction
<1>4. \E g : Is(n - 1, g)
  BY <1>3
<1> DEFINE after == CHOOSE g : Is(n - 1, g)
<1>5. Is(n - 1, after)
  <2> HIDE DEF Is
  <2> QED BY <1>4
<1>6. \A i \in 1 .. n : FieldOf(node, i, n) = IF i = n THEN after[n - 1] ELSE First(after[i - 1])
  BY DEF FieldOf
<1> HIDE DEF after
<1>7. after[0] = node /\ \A k \in 1 .. n - 1 : after[k] = Rest(after[k - 1])
  BY <1>5
<1> QED BY <1>6, <1>7

\* The fields of a list of three.
LEMMA FieldsOfThree ==
  ASSUME NEW node
  PROVE  /\ FieldOf(node, 1, 3) = First(node)
         /\ FieldOf(node, 2, 3) = First(Rest(node))
         /\ FieldOf(node, 3, 3) = Rest(Rest(node))
<1>0. 3 \in Nat \ {0}
  OBVIOUS
<1>1. PICK after :
        /\ after[0] = node
        /\ \A k \in 1 .. 3 - 1 : after[k] = Rest(after[k - 1])
        /\ \A i \in 1 .. 3 : FieldOf(node, i, 3) = IF i = 3 THEN after[3 - 1] ELSE First(after[i - 1])
  BY <1>0, FieldDef
<1>2. after[1] = Rest(after[0]) /\ after[2] = Rest(after[1])
  BY <1>1
<1>3. /\ FieldOf(node, 1, 3) = First(after[0]) /\ FieldOf(node, 2, 3) = First(after[1])
      /\ FieldOf(node, 3, 3) = after[2]
  BY <1>1
<1> QED BY <1>1, <1>2, <1>3

\* The fields of a list of five.
LEMMA FieldsOfFive ==
  ASSUME NEW node
  PROVE  /\ FieldOf(node, 1, 5) = First(node)
         /\ FieldOf(node, 2, 5) = First(Rest(node))
         /\ FieldOf(node, 3, 5) = First(Rest(Rest(node)))
         /\ FieldOf(node, 4, 5) = First(Rest(Rest(Rest(node))))
         /\ FieldOf(node, 5, 5) = Rest(Rest(Rest(Rest(node))))
<1> SUFFICES ASSUME NEW n \in Nat \ {0}
             PROVE  n = 5 =>
                      /\ FieldOf(node, 1, n) = First(node)
                      /\ FieldOf(node, 2, n) = First(Rest(node))
                      /\ FieldOf(node, 3, n) = First(Rest(Rest(node)))
                      /\ FieldOf(node, 4, n) = First(Rest(Rest(Rest(node))))
                      /\ FieldOf(node, 5, n) = Rest(Rest(Rest(Rest(node))))
  OBVIOUS
<1>1. PICK after :
        /\ after[0] = node
        /\ \A k \in 1 .. n - 1 : after[k] = Rest(after[k - 1])
        /\ \A i \in 1 .. n : FieldOf(node, i, n) = IF i = n THEN after[n - 1] ELSE First(after[i - 1])
  BY FieldDef
<1> HAVE n = 5
<1>2. /\ after[1] = Rest(after[0]) /\ after[2] = Rest(after[1])
      /\ after[3] = Rest(after[2]) /\ after[4] = Rest(after[3])
  <2>1. /\ 1 \in 1 .. n - 1 /\ 2 \in 1 .. n - 1 /\ 3 \in 1 .. n - 1 /\ 4 \in 1 .. n - 1
        /\ 1 - 1 = 0 /\ 2 - 1 = 1 /\ 3 - 1 = 2 /\ 4 - 1 = 3
    OBVIOUS
  <2>2. after[1] = Rest(after[1 - 1]) /\ after[2] = Rest(after[2 - 1])
    BY <1>1, <2>1
  <2>3. after[3] = Rest(after[3 - 1]) /\ after[4] = Rest(after[4 - 1])
    BY <1>1, <2>1
  <2> QED BY <2>1, <2>2, <2>3
<1>3. /\ FieldOf(node, 1, n) = First(after[0]) /\ FieldOf(node, 2, n) = First(after[1])
      /\ FieldOf(node, 3, n) = First(after[2]) /\ FieldOf(node, 4, n) = First(after[3])
      /\ FieldOf(node, 5, n) = after[4]
  BY <1>1
<1> QED BY <1>1, <1>2, <1>3

\* Pairs, atoms and what is neither are told apart.
LEMMA Nodes ==
  /\ \A l, r : First(Pair(l, r)) = l /\ Rest(Pair(l, r)) = r
  /\ \A a : First(Atom(a)) = NoNode /\ Rest(Atom(a)) = NoNode
  /\ First(NoNode) = NoNode /\ Rest(NoNode) = NoNode
  /\ First(NotSpent) = NoNode /\ Rest(NotSpent) = NoNode
  /\ \A l, r : ~IsAtom(Pair(l, r)) /\ Pair(l, r) # NoNode
  /\ \A a : IsAtom(Atom(a)) /\ Atom(a)[2] = a
  /\ ~IsAtom(NoNode)
BY DEF First, Rest, IsPair, IsAtom, Pair, Atom, NoNode, NotSpent

\* Where the readers find an action and its solutions in that of a coin.
LEMMA SolutionReads ==
  /\ \A proof, action, solutions :
       LET s == SingletonSolution(proof, action, solutions)
       IN  /\ ActionRun(s) = action /\ ActionSolution(s) = Head(solutions)
           /\ Rest(ActionSolutions(s)) = More(solutions)
  /\ ActionSolution(NotSpent) = NoNode
<1>1. ASSUME NEW proof, NEW action, NEW solutions
      PROVE  LET s == SingletonSolution(proof, action, solutions)
             IN  /\ ActionRun(s) = action /\ ActionSolution(s) = Head(solutions)
                 /\ Rest(ActionSolutions(s)) = More(solutions)
  BY Nodes DEF ActionRun, ActionSolution, ActionSolutions, LayerIn, SingletonSolution
<1>2. ActionSolution(NotSpent) = NoNode
  BY Nodes DEF ActionSolution, ActionSolutions, LayerIn
<1> QED BY <1>1, <1>2

\* The rest of a list is empty after its only element.
LEMMA OneSolution ==
  ASSUME NEW list, Len(list) \in Nat
  PROVE  More(list) = Nil <=> Len(list) = 1
BY DEF More, Nil, Atom

\* The shapes the decoders look for, and their lengths.
LEMMA ShapeLengths ==
  /\ Len(ContributeShape) = 5 /\ DOMAIN ContributeShape = 1 .. 5
  /\ Len(FinalizeShape) = 3 /\ DOMAIN FinalizeShape = 1 .. 3
<1>1. Len(ContributeShape) = 5
  BY DEF ContributeShape
<1>2. DOMAIN ContributeShape = 1 .. 5
  BY DEF ContributeShape
<1>3. Len(FinalizeShape) = 3
  BY DEF FinalizeShape
<1>4. DOMAIN FinalizeShape = 1 .. 3
  BY DEF FinalizeShape
<1> QED BY <1>1, <1>2, <1>3, <1>4

\* What decodes is no failure, and has the content of its fields.
LEMMA Decoded ==
  \A f : [fields |-> f] # Failed /\ [fields |-> f].fields = f
<1>1. ASSUME NEW f PROVE [fields |-> f] # Failed
  <2>1. DOMAIN [fields |-> f] = {"fields"} /\ DOMAIN Failed = {"failed"}
    BY DEF Failed
  <2>2. "fields" # "failed"
    OBVIOUS
  <2> QED BY <2>1, <2>2
<1> QED BY <1>1

\* A contribution decodes as what was contributed if it is as the SDK makes
\* it, and not at all if it is not.
LEMMA ContributeDecodes ==
  ASSUME NEW c, NEW prev
  PROVE  LET d == Decode(ContributeSolution(c, prev), ContributeShape)
         IN  IF ListedShape(c, prev)
             THEN /\ d # Failed
                  /\ d.fields = <<c.pk, c.hash, prev, c.entropy[2], c.payload[2]>>
             ELSE d = Failed
<1> DEFINE node == ContributeSolution(c, prev)
           f == [i \in 1 .. 5 |-> FieldOf(node, i, 5)]
           ok(i) == IsAtom(f[i]) /\ (ContributeShape[i] = "hash" => f[i][2][1] = "bytes32")
           d == Decode(node, ContributeShape)
<1>1. /\ f[1] = Atom(c.pk) /\ f[2] = Atom(c.hash) /\ f[3] = Atom(prev)
      /\ f[4] = c.entropy /\ f[5] = c.payload
  BY FieldsOfFive, Nodes DEF ContributeSolution
<1>2. d = IF \A i \in 1 .. 5 : ok(i) THEN [fields |-> [i \in 1 .. 5 |-> f[i][2]]] ELSE Failed
  BY ShapeLengths DEF Decode
<1>3. ContributeShape[1] # "hash" /\ ContributeShape[2] = "hash" /\ ContributeShape[3] = "hash"
      /\ ContributeShape[4] # "hash" /\ ContributeShape[5] # "hash"
  BY DEF ContributeShape
<1> HIDE DEF f
<1>4. (\A i \in 1 .. 5 : ok(i)) <=> ListedShape(c, prev)
  <2>1. f[1][2] = c.pk /\ f[2][2] = c.hash /\ f[3][2] = prev
        /\ IsAtom(f[1]) /\ IsAtom(f[2]) /\ IsAtom(f[3])
    BY <1>1, Nodes
  <2>2. (\A i \in 1 .. 5 : ok(i)) <=> ok(1) /\ ok(2) /\ ok(3) /\ ok(4) /\ ok(5)
    <3>1. \A i \in 1 .. 5 : i = 1 \/ i = 2 \/ i = 3 \/ i = 4 \/ i = 5
      OBVIOUS
    <3> HIDE DEF ok
    <3> QED BY <3>1
  <2> QED BY <1>1, <1>3, <2>1, <2>2 DEF ListedShape
<1>5. [i \in 1 .. 5 |-> f[i][2]] = <<c.pk, c.hash, prev, c.entropy[2], c.payload[2]>>
  BY <1>1, Nodes
<1> HIDE DEF d, ok, node
<1>6. CASE ListedShape(c, prev)
  <2>1. d = [fields |-> [i \in 1 .. 5 |-> f[i][2]]]
    BY <1>2, <1>4, <1>6
  <2>2. PICK g : g = [i \in 1 .. 5 |-> f[i][2]]
    OBVIOUS
  <2>3. d # Failed /\ d.fields = g
    BY <2>1, <2>2, Decoded
  <2> QED BY <1>5, <1>6, <2>2, <2>3 DEF d, node
<1>7. CASE ~ListedShape(c, prev)
  BY <1>2, <1>4, <1>7 DEF d, node
<1> QED BY <1>6, <1>7

\* No contribution decodes as a seal: its first field is a public key.
LEMMA ContributionIsNoSeal ==
  ASSUME NEW c, NEW prev, c.pk[1] = "bytes48"
  PROVE  Decode(ContributeSolution(c, prev), FinalizeShape) = Failed
<1> DEFINE node == ContributeSolution(c, prev)
<1>1. FieldOf(node, 1, 3) = Atom(c.pk)
  BY FieldsOfThree, Nodes DEF ContributeSolution
<1> HIDE DEF node
<1>2. FieldOf(node, 1, 3)[2][1] # "bytes32"
  BY <1>1, Nodes
<1>3. Len(FinalizeShape) = 3 /\ 1 \in DOMAIN FinalizeShape /\ FinalizeShape[1] = "hash"
  BY ShapeLengths DEF FinalizeShape
<1>4. Decode(node, FinalizeShape) = Failed
  BY <1>2, <1>3 DEF Decode
<1> QED BY <1>4 DEF node

\* A seal decodes as a seal exactly if it is as the SDK makes it, and then not
\* as a contribution.
LEMMA FinalizeDecodes ==
  ASSUME NEW seal
  PROVE  LET d == Decode(FinalizeSolution(seal), FinalizeShape)
         IN  IF SealedShape(seal)
             THEN /\ d # Failed /\ d.fields[1] = seal.vk /\ d.fields[2] = seal.root
                  /\ Decode(FinalizeSolution(seal), ContributeShape) = Failed
             ELSE d = Failed
<1> DEFINE node == FinalizeSolution(seal)
           f == [i \in 1 .. 3 |-> FieldOf(node, i, 3)]
           ok(i) == IsAtom(f[i]) /\ (FinalizeShape[i] = "hash" => f[i][2][1] = "bytes32")
           d == Decode(node, FinalizeShape)
<1>1. f[1] = Atom(seal.vk) /\ f[2] = Atom(seal.root) /\ f[3] = seal.bytes
  BY FieldsOfThree, Nodes DEF FinalizeSolution
<1>2. d = IF \A i \in 1 .. 3 : ok(i) THEN [fields |-> [i \in 1 .. 3 |-> f[i][2]]] ELSE Failed
  BY ShapeLengths DEF Decode
<1>3. FinalizeShape[1] = "hash" /\ FinalizeShape[2] = "hash" /\ FinalizeShape[3] # "hash"
  BY DEF FinalizeShape
<1> HIDE DEF f
<1>4. (\A i \in 1 .. 3 : ok(i)) <=> SealedShape(seal)
  <2>1. f[1][2] = seal.vk /\ f[2][2] = seal.root /\ IsAtom(f[1]) /\ IsAtom(f[2])
    BY <1>1, Nodes
  <2>2. (\A i \in 1 .. 3 : ok(i)) <=> ok(1) /\ ok(2) /\ ok(3)
    <3>1. \A i \in 1 .. 3 : i = 1 \/ i = 2 \/ i = 3
      OBVIOUS
    <3> HIDE DEF ok
    <3> QED BY <3>1
  <2> QED BY <1>1, <1>3, <2>1, <2>2 DEF SealedShape
<1>5. IsAtom(seal.bytes) => Decode(node, ContributeShape) = Failed
  <2> SUFFICES ASSUME IsAtom(seal.bytes) PROVE Decode(node, ContributeShape) = Failed
    OBVIOUS
  <2>1. FieldOf(node, 3, 5) = First(seal.bytes)
    BY FieldsOfFive, Nodes DEF FinalizeSolution
  <2>2. First(seal.bytes) = NoNode
    BY DEF First, IsPair, IsAtom
  <2> HIDE DEF node
  <2>3. Len(ContributeShape) = 5 /\ 3 \in DOMAIN ContributeShape
    BY ShapeLengths
  <2> QED BY <2>1, <2>2, <2>3, Nodes DEF Decode
<1>6. f[1][2] = seal.vk /\ f[2][2] = seal.root
  BY <1>1, Nodes
<1> HIDE DEF d, ok, node
<1>7. CASE SealedShape(seal)
  <2>1. d = [fields |-> [i \in 1 .. 3 |-> f[i][2]]]
    BY <1>2, <1>4, <1>7
  <2>2. PICK g : g = [i \in 1 .. 3 |-> f[i][2]]
    OBVIOUS
  <2>3. d # Failed /\ d.fields = g
    BY <2>1, <2>2, Decoded
  <2>4. g[1] = seal.vk /\ g[2] = seal.root
    BY <1>6, <2>2
  <2>5. Decode(node, ContributeShape) = Failed
    BY <1>5, <1>7 DEF SealedShape
  <2> QED BY <1>7, <2>3, <2>4, <2>5 DEF d, node
<1>8. CASE ~SealedShape(seal)
  BY <1>2, <1>4, <1>8 DEF d, node
<1> QED BY <1>7, <1>8

----------------------------------------------------------------------------
(* What the readers make of a spend.                                        *)

\* A record of a ceremony's state, and one that a coin may carry.
HasFields(s) ==
  s = [count |-> s.count, last |-> s.last, finalized |-> s.finalized,
       vk |-> s.vk, root |-> s.root]

IsState(s) == HasFields(s) /\ s.count \in 0 .. MaxInt /\ s.finalized \in BOOLEAN

\* A state is not the mark of a failed read.
LEMMA StateIsNoFailure == \A s : HasFields(s) => s # Failed
<1> SUFFICES ASSUME NEW s, HasFields(s) PROVE s # Failed
  OBVIOUS
<1>1. DOMAIN s = {"count", "last", "finalized", "vk", "root"}
  BY DEF HasFields
<1>2. DOMAIN Failed = {"failed"}
  BY DEF Failed
<1>3. "count" # "failed"
  OBVIOUS
<1> QED BY <1>1, <1>2, <1>3

\* States are equal if their fields are.
LEMMA SameState ==
  ASSUME NEW s, NEW t, HasFields(s), HasFields(t), s.count = t.count, s.last = t.last,
         s.finalized = t.finalized, s.vk = t.vk, s.root = t.root
  PROVE  s = t
BY DEF HasFields

ContributedTo(t, s, x, y) == t = [s EXCEPT !.count = x, !.last = y]
SealedBy(t, s, x, y) == t = [s EXCEPT !.finalized = TRUE, !.vk = x, !.root = y]

\* A contribution changes the count and the last hash.
LEMMA StateCounts ==
  ASSUME NEW s, HasFields(s), NEW x, NEW y, NEW t, ContributedTo(t, s, x, y)
  PROVE  /\ HasFields(t) /\ t.count = x /\ t.last = y
         /\ t.finalized = s.finalized /\ t.vk = s.vk /\ t.root = s.root
<1>1. t.count = x /\ t.last = y
  BY DEF HasFields, ContributedTo
<1>2. t.finalized = s.finalized /\ t.vk = s.vk /\ t.root = s.root
  BY DEF HasFields, ContributedTo
<1>3. HasFields(t)
  BY DEF HasFields, ContributedTo
<1> QED BY <1>1, <1>2, <1>3

\* A seal keeps the count and the last hash.
LEMMA StateSeals ==
  ASSUME NEW s, HasFields(s), NEW x, NEW y, NEW t, SealedBy(t, s, x, y)
  PROVE  /\ HasFields(t) /\ t.count = s.count /\ t.last = s.last
         /\ t.finalized /\ t.finalized \in BOOLEAN /\ t.vk = x /\ t.root = y
<1>1. t.count = s.count /\ t.vk = x /\ t.root = y /\ t.last = s.last
  BY DEF HasFields, SealedBy
<1>2. t.finalized /\ t.finalized \in BOOLEAN
  BY DEF HasFields, SealedBy
<1>3. HasFields(t)
  BY DEF HasFields, SealedBy
<1> QED BY <1>1, <1>2, <1>3

\* A reader that is lost stays lost.
LEMMA LostStaysLost == \A coin : AfterSpend(Failed, coin) = Failed
BY DEF AfterSpend

\* A reader counts a contribution as the SDK makes them, and is lost on another.
LEMMA ReadsContribution ==
  ASSUME NEW s, HasFields(s), NEW coin, NEW c, NEW prev, c.pk[1] = "bytes48",
         ActionSolution(coin.solution) = ContributeSolution(c, prev)
  PROVE  IF ListedShape(c, prev) THEN ContributedTo(AfterSpend(s, coin), s, s.count + 1, c.hash)
         ELSE AfterSpend(s, coin) = Failed
<1> DEFINE d == Decode(ContributeSolution(c, prev), ContributeShape)
           z == Decode(ContributeSolution(c, prev), FinalizeShape)
<1>1. s # Failed
  BY StateIsNoFailure
<1>2. z = Failed
  BY ContributionIsNoSeal
<1>3. AfterSpend(s, coin) = IF d # Failed THEN [s EXCEPT !.count = @ + 1, !.last = d.fields[2]]
                            ELSE Failed
  BY <1>1, <1>2 DEF AfterSpend
<1> HIDE DEF d
<1>4. CASE ListedShape(c, prev)
  <2>1. d # Failed /\ d.fields = <<c.pk, c.hash, prev, c.entropy[2], c.payload[2]>>
    BY <1>4, ContributeDecodes DEF d
  <2>2. d.fields[2] = c.hash
    BY <2>1
  <2> QED BY <1>3, <1>4, <2>1, <2>2 DEF ContributedTo
<1>5. CASE ~ListedShape(c, prev)
  <2>1. d = Failed
    BY <1>5, ContributeDecodes DEF d
  <2> QED BY <1>3, <1>5, <2>1
<1> QED BY <1>4, <1>5

\* A reader follows a seal as the SDK makes it; another it takes for a
\* contribution, or is lost.
LEMMA ReadsSeal ==
  ASSUME NEW s, HasFields(s), NEW coin, NEW seal,
         ActionSolution(coin.solution) = FinalizeSolution(seal)
  PROVE  IF SealedShape(seal) THEN SealedBy(AfterSpend(s, coin), s, seal.vk, seal.root)
         ELSE \/ AfterSpend(s, coin) = Failed
              \/ \E l : ContributedTo(AfterSpend(s, coin), s, s.count + 1, l)
<1> DEFINE d == Decode(FinalizeSolution(seal), ContributeShape)
           z == Decode(FinalizeSolution(seal), FinalizeShape)
<1>1. s # Failed
  BY StateIsNoFailure
<1>2. AfterSpend(s, coin) =
        IF d # Failed THEN [s EXCEPT !.count = @ + 1, !.last = d.fields[2]]
        ELSE IF z # Failed
             THEN [s EXCEPT !.finalized = TRUE, !.vk = z.fields[1], !.root = z.fields[2]]
        ELSE Failed
  BY <1>1 DEF AfterSpend
<1> HIDE DEF d, z
<1>3. CASE SealedShape(seal)
  <2>1. d = Failed /\ z # Failed /\ z.fields[1] = seal.vk /\ z.fields[2] = seal.root
    BY <1>3, FinalizeDecodes DEF d, z
  <2> QED BY <1>2, <1>3, <2>1 DEF SealedBy
<1>4. CASE ~SealedShape(seal)
  <2>1. z = Failed
    BY <1>4, FinalizeDecodes DEF z
  <2>2. PICK l : l = d.fields[2]
    OBVIOUS
  <2>3. d # Failed => ContributedTo(AfterSpend(s, coin), s, s.count + 1, l)
    BY <1>2, <2>2 DEF ContributedTo
  <2> QED BY <1>2, <1>4, <2>1, <2>3
<1> QED BY <1>3, <1>4

\* The reader's states along n coins, as its recursion says.
Walks(c, n, g) == g = [k \in 0 .. n |-> IF k = 0 THEN Genesis ELSE AfterSpend(g[k - 1], c[k])]

LEMMA WalkExists == ASSUME NEW c, NEW n \in Nat PROVE \E g : Walks(c, n, g)
<1> DEFINE N == {m \in Nat : \E g : Walks(c, m, g)}
<1>1. 0 \in N
  <2>1. Walks(c, 0, [k \in 0 .. 0 |-> Genesis])
    BY DEF Walks
  <2> QED BY <2>1
<1>2. ASSUME NEW m \in N PROVE m + 1 \in N
  <2>1. m \in Nat
    OBVIOUS
  <2>2. PICK g : Walks(c, m, g)
    OBVIOUS
  <2> DEFINE h == [k \in 0 .. m + 1 |-> IF k <= m THEN g[k] ELSE AfterSpend(g[m], c[m + 1])]
  <2>3. ASSUME NEW k \in 0 .. m + 1 PROVE h[k] = IF k = 0 THEN Genesis ELSE AfterSpend(h[k - 1], c[k])
    <3>1. h[k] = IF k = 0 THEN Genesis ELSE AfterSpend(g[k - 1], c[k])
      <4>1. k <= m => g[k] = IF k = 0 THEN Genesis ELSE AfterSpend(g[k - 1], c[k])
        BY <2>1, <2>2 DEF Walks
      <4>2. ~(k <= m) => k = m + 1 /\ k # 0 /\ k - 1 = m
        BY <2>1
      <4> QED BY <2>1, <4>1, <4>2
    <3>2. k # 0 => h[k - 1] = g[k - 1]
      BY <2>1
    <3> HIDE DEF h
    <3> QED BY <3>1, <3>2
  <2>4. Walks(c, m + 1, h)
    BY <2>3 DEF Walks
  <2> HIDE DEF h
  <2> QED BY <2>1, <2>4
<1>3. N = Nat
  <2> HIDE DEF N
  <2>1. N \in SUBSET Nat
    BY DEF N
  <2> QED BY <1>1, <1>2, <2>1, NumberInduction
<1> QED BY <1>3

\* What the recursion says of each state.
LEMMA WalkSteps ==
  ASSUME NEW c, NEW n \in Nat, NEW g, Walks(c, n, g)
  PROVE  g[0] = Genesis /\ \A k \in 1 .. n : g[k] = AfterSpend(g[k - 1], c[k])
BY DEF Walks

\* Walks along the same coins are the same.
LEMMA WalksAgree ==
  ASSUME NEW c, NEW d, NEW n \in Nat, NEW m \in Nat, n <= m, NEW g, NEW h,
         Walks(c, n, g), Walks(d, m, h), \A k \in 1 .. n : c[k] = d[k]
  PROVE  g[n] = h[n]
<1>1. g[0] = Genesis /\ \A k \in 1 .. n : g[k] = AfterSpend(g[k - 1], c[k])
  BY WalkSteps
<1>2. h[0] = Genesis /\ \A k \in 1 .. m : h[k] = AfterSpend(h[k - 1], d[k])
  BY WalkSteps
<1> DEFINE N == {k \in Nat : k <= n => g[k] = h[k]}
<1>3. 0 \in N
  BY <1>1, <1>2
<1>4. ASSUME NEW k \in N PROVE k + 1 \in N
  <2> SUFFICES ASSUME k + 1 <= n PROVE g[k + 1] = h[k + 1]
    OBVIOUS
  <2>1. k \in Nat /\ k + 1 \in 1 .. n /\ k + 1 \in 1 .. m /\ (k + 1) - 1 = k /\ k <= n
    OBVIOUS
  <2>2. g[k] = h[k]
    BY <2>1
  <2>3. g[k + 1] = AfterSpend(g[k], c[k + 1]) /\ h[k + 1] = AfterSpend(h[k], d[k + 1])
    BY <1>1, <1>2, <2>1
  <2> QED BY <2>1, <2>2, <2>3
<1>5. N = Nat
  <2> HIDE DEF N
  <2>1. N \in SUBSET Nat
    BY DEF N
  <2> QED BY <1>3, <1>4, <2>1, NumberInduction
<1> QED BY <1>5

TheWalk(c, n) == CHOOSE g : Walks(c, n, g)

\* The reader's state is the end of its walk.
LEMMA CurrentStateDef == CurrentState = TheWalk(coins, Len(coins) - 1)[Len(coins) - 1]
BY DEF CurrentState, TheWalk, Walks

\* A spend takes the reader one step on.
LEMMA WalkStep ==
  ASSUME Len(coins) \in Nat \ {0}, Len(coins') = Len(coins) + 1,
         \A k \in 1 .. Len(coins) - 1 : coins'[k] = coins[k]
  PROVE  CurrentState' = AfterSpend(CurrentState, coins'[Len(coins)])
<1>1. PICK n \in Nat : n = Len(coins) - 1 /\ Len(coins') - 1 = n + 1
  OBVIOUS
<1>2. PICK c, d : c = coins /\ d = coins'
  OBVIOUS
<1>3. CurrentState = TheWalk(c, n)[n]
  BY <1>1, <1>2, CurrentStateDef
<1>4. CurrentState' = TheWalk(d, n + 1)[n + 1]
  BY <1>1, <1>2 DEF CurrentState, TheWalk, Walks
<1>5. PICK g, h : g = TheWalk(c, n) /\ h = TheWalk(d, n + 1)
  OBVIOUS
<1>6. Walks(c, n, g) /\ Walks(d, n + 1, h)
  <2>1. (\E x : Walks(c, n, x)) /\ (\E x : Walks(d, n + 1, x))
    <3>1. n + 1 \in Nat
      OBVIOUS
    <3> QED BY <3>1, WalkExists
  <2> QED BY <1>5, <2>1 DEF TheWalk
<1>7. \A k \in 1 .. n : c[k] = d[k]
  BY <1>1, <1>2
<1>8. g[n] = h[n]
  <2>1. n + 1 \in Nat /\ n <= n + 1
    OBVIOUS
  <2> QED BY <1>6, <1>7, <2>1, WalksAgree
<1>9. h[n + 1] = AfterSpend(h[n], d[n + 1])
  <2>1. n + 1 \in Nat /\ n + 1 \in 1 .. n + 1 /\ (n + 1) - 1 = n
    OBVIOUS
  <2> QED BY <1>6, <2>1, WalkSteps
<1>10. d[n + 1] = coins'[Len(coins)]
  BY <1>1, <1>2
<1> QED BY <1>3, <1>4, <1>5, <1>8, <1>9, <1>10

----------------------------------------------------------------------------
(* The inductive invariant.  who[k] is the contribution of the k-th spend   *)
(* of a lineage that the SDK could have made.                               *)

LastOf(who, n) == IF n = 0 THEN VkSeed ELSE who[n].hash

IsCoin(c) == c = [ph |-> c.ph, solution |-> c.solution, height |-> c.height]

Deployed == params \in Ceremonies /\ memo = LauncherMemo(params) /\ height \in Nat

\* Only the last coin is unspent, and it carries the state.
Lineage ==
  /\ coins \in Seq(Range(coins))
  /\ Len(coins) \in Nat \ {0}
  /\ \A k \in 1 .. Len(coins) : IsCoin(coins[k])
  /\ \A k \in 1 .. Len(coins) - 1 : ActionSolution(coins[k].solution) # NoNode
  /\ coins[Len(coins)].solution = NotSpent
  /\ coins[Len(coins)].ph = SingletonOuter(CeremonyId, InnerWith(params, StateHash(state)))

\* The last contribution is one that can be followed; the last spend of a
\* sealed ceremony was no contribution.
Sealed ==
  /\ state.last \in Predecessors
  /\ IF state.finalized
     THEN /\ Len(coins) > 1
          /\ ModName(ActionRun(coins[Len(coins) - 1].solution)) = "finalize"
     ELSE state.vk = Zero32 /\ state.root = Zero32

\* What a reader that is lost may take for the state: it has missed either the
\* seal or a contribution.
Behind(r) ==
  /\ HasFields(r) /\ r.count \in Nat /\ r.finalized \in BOOLEAN
  /\ r.finalized => state.finalized
  /\ r.finalized = state.finalized => r.count < state.count

ReadState ==
  IF AllPlain THEN CurrentState = state ELSE CurrentState = Failed \/ Behind(CurrentState)

\* The k-th spend is a contribution on top of the one before it.
ContributionAt(who, k) ==
  /\ ActionSolution(coins[k].solution) = ContributeSolution(who[k], LastOf(who, k - 1))
  /\ ListedShape(who[k], LastOf(who, k - 1))
  /\ coins[k].height \in params.start .. params.start + params.length - 1
  /\ \E c \in created :
       /\ c.parent = <<"singleton", k>>
       /\ c.ph = MarkerPuzzle(who[k].pk, who[k].hash, LastOf(who, k - 1))
       /\ c.memos[2] = who[k].entropy

Contributions ==
  \E who \in [1 .. state.count -> Contribution] :
    /\ Len(coins) = state.count + (IF state.finalized THEN 2 ELSE 1)
    /\ state.last = LastOf(who, state.count)
    /\ \A k \in 1 .. state.count : ContributionAt(who, k)

\* A voucher of a key and a size: of the ceremony's line, or of another's.
IsVoucher(c, vk, m) ==
  /\ c.ph = VoucherPuzzle(vk, m) /\ c.memos = <<Atom(CeremonyId)>> /\ c.generation \in Nat
  /\ c = [parent |-> c.parent, generation |-> c.generation, ph |-> c.ph, memos |-> c.memos]
  /\ \/ c.parent = Outside(vk, m)
     \/ /\ state.finalized /\ vk = state.vk /\ m = params.maxVoters
        /\ c.parent[1] # "outside"

\* Each line has one voucher that is not spent, the newest.
Vouched ==
  /\ spent \subseteq created
  /\ \A c \in created : c.ph[2] # MarkerMod => \E vk, m : IsVoucher(c, vk, m)
  /\ \A c \in created : c.ph[2] = MarkerMod => c.parent[1] # "outside"
  /\ \A c \in created \ spent, u \in created :
       c.ph[2] # MarkerMod /\ u.ph = c.ph /\ u.parent = c.parent => u.generation <= c.generation
  /\ state.finalized => \E c \in created \ spent : IsVoucher(c, state.vk, params.maxVoters)
  /\ \A vk, m : (\E c \in created : c.parent = Outside(vk, m)) =>
       \E c \in created \ spent : IsVoucher(c, vk, m) /\ c.parent = Outside(vk, m)

IInv ==
  /\ Deployed /\ IsState(state) /\ Lineage /\ Sealed /\ ReadState
  /\ AllPlain => Contributions
  /\ Vouched

----------------------------------------------------------------------------
(* It holds initially.                                                      *)

\* The lineage of a ceremony just deployed.
LEMMA OneCoin ==
  ASSUME NEW c
  PROVE  /\ <<c>> \in Seq(Range(<<c>>)) /\ Len(<<c>>) = 1 /\ <<c>>[1] = c
<1>1. Range(<<c>>) = {c}
  BY DEF Range
<1>2. <<c>> \in Seq({c})
  OBVIOUS
<1> QED BY <1>1, <1>2

\* A deployed ceremony satisfies the invariant.
LEMMA InitInvariant == Init => IInv
<1> SUFFICES ASSUME Init PROVE IInv
  OBVIOUS
<1> USE DEF Init
<1> DEFINE c == [ph |-> DeployedCeremony(params), solution |-> NotSpent, height |-> 0]
<1>1. Deployed
  BY DEF Deployed
<1>2. /\ IsState(state) /\ state.count = 0 /\ state.finalized = FALSE /\ state.last = VkSeed
      /\ state.vk = Zero32 /\ state.root = Zero32
  BY ClvmAssumption DEF IsState, HasFields, Genesis
<1>3. Len(coins) = 1 /\ coins[1] = c /\ coins \in Seq(Range(coins))
  <2>1. coins = <<c>>
    OBVIOUS
  <2> HIDE DEF c
  <2> QED BY <2>1, OneCoin
<1>4. Lineage
  <2>1. /\ c.ph = SingletonOuter(CeremonyId, InnerWith(params, StateHash(state)))
        /\ c.solution = NotSpent /\ IsCoin(c)
    BY DEF DeployedCeremony, IsCoin
  <2> HIDE DEF c, Init
  <2> QED BY <1>3, <2>1 DEF Lineage
<1>5. Sealed
  <2> HIDE DEF Init, c
  <2> QED BY <1>2 DEF Sealed, Predecessors
<1>6. ReadState
  <2>1. AllPlain
    BY <1>3 DEF AllPlain, SpentCoins
  <2>2. CurrentState = Genesis
    <3>1. PICK g : g = TheWalk(coins, 0)
      OBVIOUS
    <3>2. Walks(coins, 0, g)
      <4>1. 0 \in Nat
        OBVIOUS
      <4> QED BY <3>1, <4>1, WalkExists DEF TheWalk
    <3>3. g[0] = Genesis
      BY <3>2 DEF Walks
    <3>4. CurrentState = g[0]
      <4>1. Len(coins) - 1 = 0
        BY <1>3
      <4> HIDE DEF Init, c
      <4> QED BY <3>1, <4>1, CurrentStateDef
    <3> QED BY <3>3, <3>4
  <2>3. state = Genesis
    OBVIOUS
  <2> HIDE DEF Init
  <2> QED BY <2>1, <2>2, <2>3 DEF ReadState
<1>7. Contributions
  <2> DEFINE who == [k \in 1 .. state.count |-> CHOOSE e : e \in Contribution]
  <2>1. who \in [1 .. state.count -> Contribution]
    BY <1>2
  <2>2. state.last = LastOf(who, state.count)
    BY <1>2 DEF LastOf
  <2>3. \A k \in 1 .. state.count : ContributionAt(who, k)
    BY <1>2
  <2>4. Len(coins) = state.count + (IF state.finalized THEN 2 ELSE 1)
    BY <1>2, <1>3
  <2> HIDE DEF who
  <2> QED BY <2>1, <2>2, <2>3, <2>4 DEF Contributions
<1>8. Vouched
  BY <1>2 DEF Vouched
<1> QED BY <1>1, <1>2, <1>4, <1>5, <1>6, <1>7, <1>8 DEF IInv

----------------------------------------------------------------------------
(* What a spend of the singleton does to its lineage.                       *)

\* The elements of a sequence are those at its places.
LEMMA RangeSeq ==
  ASSUME NEW S, NEW s \in Seq(S)
  PROVE  s \in Seq(Range(s))
<1>1. s \in [1 .. Len(s) -> Range(s)] /\ Len(s) \in Nat
  BY DEF Range
<1> QED BY <1>1

\* What a spend leaves of the record of a coin.
LEMMA CoinSpent ==
  ASSUME NEW c, IsCoin(c), NEW x, NEW h
  PROVE  [[c EXCEPT !.solution = x] EXCEPT !.height = h] =
           [ph |-> c.ph, solution |-> x, height |-> h]
<1> DEFINE p == c.ph
           y == c.solution
           z == c.height
<1>1. c = [ph |-> p, solution |-> y, height |-> z]
  BY DEF IsCoin
<1> HIDE DEF p, y, z
<1>2. [[ph |-> p, solution |-> y, height |-> z] EXCEPT !.solution = x] =
        [ph |-> p, solution |-> x, height |-> z]
  OBVIOUS
<1>3. [[ph |-> p, solution |-> x, height |-> z] EXCEPT !.height = h] =
        [ph |-> p, solution |-> x, height |-> h]
  OBVIOUS
<1>4. [[c EXCEPT !.solution = x] EXCEPT !.height = h] = [ph |-> p, solution |-> x, height |-> h]
  BY <1>1, <1>2, <1>3
<1> QED BY <1>4 DEF p

\* What a reader sees of a spend.
Shows(coin, action, solutions) ==
  /\ ActionRun(coin.solution) = action
  /\ ActionSolution(coin.solution) = Head(solutions)
  /\ Rest(ActionSolutions(coin.solution)) = More(solutions)
  /\ coin.height = height

\* What any spend of the singleton does to the lineage and its last coin.
LEMMA SpendFacts ==
  ASSUME Deployed, IsState(state), Lineage,
         NEW action, NEW solutions, NEW new, NEW outputs, IsState(new),
         Head(solutions) # NoNode,
         SpendSingleton(action, solutions, new, outputs), params' = params
  PROVE  /\ state' = new /\ created' = created \cup outputs
         /\ Lineage'
         /\ Len(coins') = Len(coins) + 1
         /\ \A k \in 1 .. Len(coins) - 1 : coins'[k] = coins[k]
         /\ Shows(coins'[Len(coins)], action, solutions)
<1> DEFINE n == Len(coins)
           inner == SingletonInner(coins[n].ph)
           done == SingletonSolution(TrueProof, action, solutions)
           last == [ph       |-> SingletonOuter(CeremonyId, Recreate(inner, RueState(new))),
                    solution |-> NotSpent, height |-> 0]
           old == [ph |-> coins[n].ph, solution |-> done, height |-> height]
           S == Range(coins)
           both == [coins EXCEPT ![n] = old]
<1>1. n \in Nat \ {0} /\ coins \in Seq(S)
  BY DEF Lineage, IsState
<1>2. /\ state' = new /\ created' = created \cup outputs
      /\ coins' = Append([coins EXCEPT ![n].solution = done, ![n].height = height], last)
  BY DEF SpendSingleton
<1>3. [coins EXCEPT ![n].solution = done, ![n].height = height] = both
  <2>1. coins[n] = [ph |-> coins[n].ph, solution |-> coins[n].solution, height |-> coins[n].height]
    BY <1>1 DEF Lineage, IsCoin
  <2>2. [[coins[n] EXCEPT !.solution = done] EXCEPT !.height = height] = old
    <3> HIDE DEF done
    <3> QED BY <2>1, CoinSpent DEF IsCoin
  <2> HIDE DEF done, old, n
  <2> QED BY <1>1, <2>2
<1>4. /\ both \in Seq(S \cup {old}) /\ Len(both) = n
      /\ both[n] = old /\ \A k \in 1 .. n - 1 : both[k] = coins[k]
  <2> HIDE DEF old, S
  <2> QED BY <1>1
<1>5. /\ coins' \in Seq((S \cup {old}) \cup {last}) /\ Len(coins') = n + 1
      /\ coins'[n + 1] = last /\ \A k \in 1 .. n : coins'[k] = both[k]
  <2>1. coins' = Append(both, last)
    BY <1>2, <1>3
  <2> HIDE DEF both, last, S, old, n
  <2> QED BY <1>4, <2>1, AppendAny
<1>6. coins' \in Seq(Range(coins'))
  <2> HIDE DEF S, old, last
  <2> QED BY <1>5, RangeSeq
<1>7. coins'[n] = old /\ \A k \in 1 .. n - 1 : coins'[k] = coins[k]
  <2> HIDE DEF both, old
  <2> QED BY <1>1, <1>4, <1>5
<1>8. IsCoin(old) /\ IsCoin(last)
  BY DEF IsCoin
<1>9. \A k \in 1 .. n + 1 : IsCoin(coins'[k])
  <2>1. \A k \in 1 .. n - 1 : IsCoin(coins[k])
    BY <1>1 DEF Lineage
  <2> HIDE DEF old, last
  <2> QED BY <1>1, <1>5, <1>7, <1>8, <2>1
<1>10. Shows(old, action, solutions)
  <2>1. old.solution = done /\ old.height = height
    OBVIOUS
  <2> HIDE DEF old
  <2> QED BY <2>1, SolutionReads DEF Shows
<1>11. last.solution = NotSpent
       /\ last.ph = SingletonOuter(CeremonyId, InnerWith(params, StateHash(new)))
  <2>1. inner = InnerWith(params, StateHash(state))
    BY CeremonyRecreates DEF Lineage
  <2>2. RueState(new) = StateHash(new)
    BY StatesAgree DEF IsState
  <2>3. Recreate(inner, RueState(new)) = InnerWith(params, StateHash(new))
    <3> HIDE DEF inner
    <3> QED BY <2>1, <2>2, CeremonyRecreates
  <2> QED BY <2>3
<1> HIDE DEF old, last
<1>12. \A k \in 1 .. n : ActionSolution(coins'[k].solution) # NoNode
  <2>1. \A k \in 1 .. n - 1 : ActionSolution(coins'[k].solution) # NoNode
    BY <1>7 DEF Lineage
  <2>2. ActionSolution(coins'[n].solution) # NoNode
    BY <1>7, <1>10 DEF Shows
  <2>3. \A k \in 1 .. n : k \in 1 .. n - 1 \/ k = n
    BY <1>1
  <2> QED BY <2>1, <2>2, <2>3
<1>13. Lineage'
  <2>1. Len(coins') \in Nat \ {0} /\ Len(coins') - 1 = n
    BY <1>1, <1>5
  <2> QED BY <1>2, <1>5, <1>6, <1>9, <1>11, <1>12, <2>1 DEF Lineage
<1> QED BY <1>2, <1>5, <1>7, <1>10, <1>13

\* The fields of a contribution's solution, and of a seal's.
LEMMA SolutionsTell ==
  /\ \A c, prev, d, before :
       ContributeSolution(c, prev) = ContributeSolution(d, before) =>
         /\ c.pk = d.pk /\ c.hash = d.hash /\ prev = before
         /\ c.entropy = d.entropy /\ c.payload = d.payload
  /\ \A seal, other :
       FinalizeSolution(seal) = FinalizeSolution(other) =>
         seal.vk = other.vk /\ seal.root = other.root /\ seal.bytes = other.bytes
  /\ \A c, prev : ContributeSolution(c, prev) # NoNode
  /\ \A seal : FinalizeSolution(seal) # NoNode
<1>1. \A l, r, x, y : Pair(l, r) = Pair(x, y) => l = x /\ r = y
  BY DEF Pair
<1>2. \A x, y : Atom(x) = Atom(y) => x = y
  BY DEF Atom
<1>3. \A l, r : Pair(l, r) # NoNode
  BY Nodes
<1>4. ASSUME NEW c, NEW prev, NEW d, NEW before,
             ContributeSolution(c, prev) = ContributeSolution(d, before)
      PROVE  /\ c.pk = d.pk /\ c.hash = d.hash /\ prev = before
             /\ c.entropy = d.entropy /\ c.payload = d.payload
  <2>1. Atom(c.pk) = Atom(d.pk)
        /\ Pair(Atom(c.hash), Pair(Atom(prev), Pair(c.entropy, c.payload)))
             = Pair(Atom(d.hash), Pair(Atom(before), Pair(d.entropy, d.payload)))
    BY <1>1, <1>4 DEF ContributeSolution
  <2>2. Atom(c.hash) = Atom(d.hash)
        /\ Pair(Atom(prev), Pair(c.entropy, c.payload))
             = Pair(Atom(before), Pair(d.entropy, d.payload))
    BY <1>1, <2>1
  <2>3. Atom(prev) = Atom(before) /\ Pair(c.entropy, c.payload) = Pair(d.entropy, d.payload)
    BY <1>1, <2>2
  <2> QED BY <1>1, <1>2, <2>1, <2>2, <2>3
<1>5. ASSUME NEW seal, NEW other, FinalizeSolution(seal) = FinalizeSolution(other)
      PROVE  seal.vk = other.vk /\ seal.root = other.root /\ seal.bytes = other.bytes
  <2>1. Atom(seal.vk) = Atom(other.vk)
        /\ Pair(Atom(seal.root), seal.bytes) = Pair(Atom(other.root), other.bytes)
    BY <1>1, <1>5 DEF FinalizeSolution
  <2> QED BY <1>1, <1>2, <2>1
<1> QED BY <1>3, <1>4, <1>5 DEF ContributeSolution, FinalizeSolution

\* When a spend that ran contributions, or a seal, is one of the SDK's.
LEMMA PlainContribution ==
  ASSUME NEW coin, NEW p, NEW solutions, NEW c \in Contribution, NEW prev \in Predecessors,
         Shows(coin, ContributePuzzle(p), solutions), Len(solutions) \in Nat,
         Head(solutions) = ContributeSolution(c, prev)
  PROVE  Plain(coin) <=> Len(solutions) = 1 /\ ListedShape(c, prev)
<1>1. ModName(ActionRun(coin.solution)) = "contribute"
  BY DEF Shows, ContributePuzzle, ModName, Curry, Mod
<1>2. ActionSolution(coin.solution) = ContributeSolution(c, prev)
      /\ (Rest(ActionSolutions(coin.solution)) = Nil <=> Len(solutions) = 1)
  BY OneSolution DEF Shows
<1>3. (\E d \in Contribution, before \in Predecessors :
         ContributeSolution(c, prev) = ContributeSolution(d, before) /\ ListedShape(d, before))
      <=> ListedShape(c, prev)
  BY SolutionsTell DEF ListedShape
<1> QED BY <1>1, <1>2, <1>3 DEF Plain

LEMMA PlainSeal ==
  ASSUME NEW coin, NEW p, NEW seal \in Seal,
         Shows(coin, CommittedFinalize(p), <<FinalizeSolution(seal)>>)
  PROVE  /\ Plain(coin) <=> SealedShape(seal)
         /\ ModName(ActionRun(coin.solution)) = "finalize"
         /\ ActionSolution(coin.solution) = FinalizeSolution(seal)
<1>1. ModName(ActionRun(coin.solution)) = "finalize" /\ "finalize" # "contribute"
  BY DEF Shows, CommittedFinalize, ModName, Curry, Mod
<1>2. ActionSolution(coin.solution) = FinalizeSolution(seal)
      /\ Rest(ActionSolutions(coin.solution)) = Nil
  <2>1. Len(<<FinalizeSolution(seal)>>) = 1 /\ Head(<<FinalizeSolution(seal)>>) = FinalizeSolution(seal)
    <3>1. PICK x : x = FinalizeSolution(seal)
      OBVIOUS
    <3> QED BY <3>1
  <2> QED BY <2>1, OneSolution DEF Shows
<1>3. (\E other \in Seal : FinalizeSolution(seal) = FinalizeSolution(other) /\ SealedShape(other))
      <=> SealedShape(seal)
  BY SolutionsTell DEF SealedShape
<1> QED BY <1>1, <1>2, <1>3 DEF Plain

\* A spend keeps a lineage that the SDK could have made if it is one of those.
LEMMA AllPlainStep ==
  ASSUME Len(coins) \in Nat \ {0}, Len(coins') = Len(coins) + 1,
         \A k \in 1 .. Len(coins) - 1 : coins'[k] = coins[k]
  PROVE  AllPlain' <=> AllPlain /\ Plain(coins'[Len(coins)])
<1>1. PICK n \in Nat \ {0} : n = Len(coins) /\ Len(coins') - 1 = n
  OBVIOUS
<1>2. AllPlain <=> \A k \in 1 .. n - 1 : Plain(coins[k])
  BY <1>1 DEF AllPlain, SpentCoins
<1>3. AllPlain' <=> \A k \in 1 .. n : Plain(coins'[k])
  BY <1>1 DEF AllPlain, SpentCoins
<1>4. \A k \in 1 .. n : k \in 1 .. n - 1 \/ k = n
  OBVIOUS
<1>5. \A k \in 1 .. n - 1 : k \in 1 .. n /\ coins'[k] = coins[k]
  BY <1>1
<1>6. n \in 1 .. n
  OBVIOUS
<1> QED BY <1>1, <1>2, <1>3, <1>4, <1>5, <1>6

----------------------------------------------------------------------------
(* Every step keeps the invariant.                                          *)

\* Vouchers are no markers, and no voucher has the puzzle of another key or size.
LEMMA VouchersDiffer ==
  /\ \A vk, m : VoucherPuzzle(vk, m)[2] # MarkerMod
  /\ \A pk, hash, prev : MarkerPuzzle(pk, hash, prev)[2] = MarkerMod
  /\ \A vk, m, wk, o : VoucherPuzzle(vk, m) = VoucherPuzzle(wk, o) => vk = wk /\ m = o
<1>1. ASSUME NEW vk, NEW m PROVE VoucherPuzzle(vk, m)[2] # MarkerMod
  BY DEF VoucherPuzzle, Curry, MarkerMod, Mod
<1>2. \A pk, hash, prev : MarkerPuzzle(pk, hash, prev)[2] = MarkerMod
  BY DEF MarkerPuzzle, Curry
<1>3. ASSUME NEW vk, NEW m PROVE VoucherPuzzle(vk, m)[2][3][2][2] = VoucherMessage(vk, m)
  BY DEF VoucherPuzzle, Curry, Atom
<1>4. ASSUME NEW vk, NEW m PROVE VoucherMessage(vk, m)[2] = vk /\ VoucherMessage(vk, m)[3] = m
  BY DEF VoucherMessage
<1> QED BY <1>1, <1>2, <1>3, <1>4

\* What a batch of contributions asks for.
LEMMA BatchFacts ==
  ASSUME Deployed, IsState(state), NEW batch \in Batches, Contribute(batch)
  PROVE  /\ Len(batch) \in Nat \ {0} /\ batch \in [1 .. Len(batch) -> Contribution]
         /\ state.count + Len(batch) \in 0 .. MaxInt
         /\ ~state.finalized
         /\ params.start <= height /\ height < params.start + params.length
<1> DEFINE action == ContributePuzzle(params)
<1>1. /\ \A i \in 1 .. Len(batch) :
           RueContributes(action, StateBefore(batch, i), batch[i], Before(batch, i))
      /\ state.count + Len(batch) <= MaxContributions
  BY DEF Contribute
<1>2. PICK n \in 1 .. MaxBatch : batch \in [1 .. n -> Contribution]
  BY DEF Batches
<1>3. n \in Nat \ {0} /\ MaxContributions \in Nat /\ MaxContributions <= MaxInt /\ MaxInt \in Nat
  BY CeremonyPuzzlesAssumption, ClvmAssumption
<1>4. Len(batch) = n
  BY <1>2, <1>3
<1>5. RueContributes(action, StateBefore(batch, 1), batch[1], Before(batch, 1))
  BY <1>1, <1>3, <1>4
<1>6. StateBefore(batch, 1).finalized = state.finalized
  <2>1. PICK x, y, t : ContributedTo(t, state, x, y) /\ t = StateBefore(batch, 1)
    BY DEF ContributedTo, StateBefore
  <2> QED BY <2>1, StateCounts DEF IsState
<1>7. IntArg(action, 2) = params.start /\ IntArg(action, 3) = params.length
  <2>1. params \in Parameters
    BY CeremonyPuzzlesAssumption DEF Deployed
  <2> QED BY <2>1, ArgumentsRead
<1> HIDE DEF action
<1>8. ~state.finalized /\ params.start <= height /\ height < params.start + params.length
  BY <1>5, <1>6, <1>7 DEF RueContributes
<1>9. state.count + n \in 0 .. MaxInt
  <2>1. state.count \in Nat
    BY ClvmAssumption DEF IsState
  <2> QED BY <1>1, <1>3, <1>4, <2>1
<1> QED BY <1>2, <1>3, <1>4, <1>8, <1>9

\* The length of a list, and its first element.
LEMMA ListHead ==
  ASSUME NEW S, NEW n \in Nat \ {0}, NEW g \in [1 .. n -> S]
  PROVE  Len(g) = n /\ Head(g) = g[1]
<1>1. g \in Seq(S) /\ Len(g) = n
  BY FunctionAsSequence
<1> QED BY <1>1

\* New markers leave the vouchers of an open ceremony as they are.
LEMMA MarkersAdded ==
  ASSUME Vouched, NEW M, created' = created \cup M, spent' = spent, params' = params,
         ~state.finalized, ~state'.finalized,
         \A c \in M : c.ph[2] = MarkerMod /\ c.parent[1] # "outside"
  PROVE  Vouched'
<1>1. ASSUME NEW c, NEW vk, NEW m PROVE IsVoucher(c, vk, m)' <=> IsVoucher(c, vk, m)
  BY DEF IsVoucher
<1>2. \A vk, m : Outside(vk, m)[1] = "outside"
  BY DEF Outside
<1>3. \A c \in created' : c \in created \/ (c.ph[2] = MarkerMod /\ c.parent[1] # "outside")
  OBVIOUS
<1>4. spent' \subseteq created'
  BY DEF Vouched
<1>5. \A c \in created' : c.ph[2] # MarkerMod => \E vk, m : IsVoucher(c, vk, m)'
  BY <1>1, <1>3 DEF Vouched
<1>6. \A c \in created' : c.ph[2] = MarkerMod => c.parent[1] # "outside"
  BY <1>3 DEF Vouched
<1>7. \A c \in created' \ spent', u \in created' :
        c.ph[2] # MarkerMod /\ u.ph = c.ph /\ u.parent = c.parent => u.generation <= c.generation
  BY <1>3 DEF Vouched
<1>8. ASSUME NEW vk, NEW m, NEW d \in created', d.parent = Outside(vk, m)
      PROVE  \E c \in created' \ spent' : IsVoucher(c, vk, m)' /\ c.parent = Outside(vk, m)
  <2>1. d \in created
    BY <1>2, <1>3, <1>8
  <2>2. PICK c \in created \ spent : IsVoucher(c, vk, m) /\ c.parent = Outside(vk, m)
    BY <1>8, <2>1 DEF Vouched
  <2> QED BY <1>1, <2>2
<1> QED BY <1>4, <1>5, <1>6, <1>7, <1>8 DEF Vouched

\* Contributions preserve the invariant.
LEMMA ContributeInvariant ==
  ASSUME IInv, NEW batch \in Batches, Contribute(batch)
  PROVE  IInv'
<1>1. Deployed /\ IsState(state) /\ Lineage /\ Sealed /\ ReadState /\ Vouched
  BY DEF IInv
<1>2. PICK n \in Nat \ {0} : n = Len(batch)
  BY <1>1, BatchFacts
<1>3. /\ batch \in [1 .. n -> Contribution] /\ state.count + n \in 0 .. MaxInt
      /\ ~state.finalized /\ params.start <= height /\ height < params.start + params.length
  BY <1>1, <1>2, BatchFacts
<1> DEFINE action == ContributePuzzle(params)
           given == [i \in 1 .. n |-> ContributeSolution(batch[i], Before(batch, i))]
           markers == {RueMarker(action, batch[i], Before(batch, i)) : i \in 1 .. n}
           c == batch[1]
           k == Len(coins)
<1>4. /\ SpendSingleton(action, given, StateBefore(batch, n + 1), markers)
      /\ height' = height /\ params' = params /\ memo' = memo /\ spent' = spent
  BY <1>2 DEF Contribute
<1>5. PICK new : new = StateBefore(batch, n + 1)
  OBVIOUS
<1>6. /\ HasFields(new) /\ new.count = state.count + n /\ new.last = batch[n].hash
      /\ new.finalized = FALSE /\ new.vk = state.vk /\ new.root = state.root
  <2>1. (n + 1) - 1 = n /\ n + 1 # 1
    OBVIOUS
  <2>2. Before(batch, n + 1) = batch[n].hash
    BY <2>1 DEF Before
  <2>3. ContributedTo(new, state, state.count + n, batch[n].hash)
    BY <1>5, <2>1, <2>2 DEF ContributedTo, StateBefore
  <2>4. state.finalized = FALSE
    BY <1>1, <1>3 DEF IsState
  <2> QED BY <1>1, <2>3, <2>4, StateCounts DEF IsState
<1>7. IsState(new)
  BY <1>3, <1>6 DEF IsState
<1>8. Len(given) = n /\ Head(given) = ContributeSolution(c, state.last)
  <2>1. given \in [1 .. n -> {given[i] : i \in 1 .. n}]
    OBVIOUS
  <2>2. given[1] = ContributeSolution(c, state.last)
    BY DEF Before
  <2> HIDE DEF given
  <2> QED BY <2>1, <2>2, ListHead
<1>9. c \in Contribution /\ state.last \in Predecessors /\ c.pk[1] = "bytes48"
  BY <1>1, <1>3, CeremonyPuzzlesAssumption DEF Sealed
<1> HIDE DEF action, given, markers, c
<1>10. Head(given) # NoNode
  BY <1>8, SolutionsTell
<1>11. /\ state' = new /\ created' = created \cup markers
       /\ Lineage'
       /\ Len(coins') = k + 1
       /\ \A i \in 1 .. k - 1 : coins'[i] = coins[i]
       /\ Shows(coins'[k], action, given)
  BY <1>1, <1>4, <1>5, <1>7, <1>10, SpendFacts
<1>12. k \in Nat \ {0}
  BY <1>1 DEF Lineage
<1>13. Plain(coins'[k]) <=> n = 1 /\ ListedShape(c, state.last)
  BY <1>8, <1>9, <1>11, PlainContribution DEF action
<1>14. AllPlain' <=> AllPlain /\ n = 1 /\ ListedShape(c, state.last)
  BY <1>11, <1>12, <1>13, AllPlainStep
<1>15. CurrentState' = AfterSpend(CurrentState, coins'[k])
  BY <1>11, <1>12, WalkStep
<1>16. ActionSolution(coins'[k].solution) = ContributeSolution(c, state.last)
  BY <1>8, <1>11 DEF Shows
<1>17. PICK s, r : s = CurrentState /\ r = CurrentState'
  OBVIOUS
<1>18. HasFields(s) => IF ListedShape(c, state.last) THEN ContributedTo(r, s, s.count + 1, c.hash)
                       ELSE r = Failed
  BY <1>9, <1>15, <1>16, <1>17, ReadsContribution
<1>19. ReadState'
  <2>1. CASE AllPlain /\ n = 1 /\ ListedShape(c, state.last)
    <3>1. s = state /\ HasFields(s)
      BY <1>1, <1>17, <2>1 DEF ReadState, IsState
    <3>2. ContributedTo(r, s, s.count + 1, c.hash)
      BY <1>18, <2>1, <3>1
    <3>3. /\ HasFields(r) /\ r.count = s.count + 1 /\ r.last = c.hash
          /\ r.finalized = s.finalized /\ r.vk = s.vk /\ r.root = s.root
      BY <3>1, <3>2, StateCounts
    <3>4. s.finalized = FALSE
      BY <1>1, <1>3, <3>1 DEF IsState
    <3>5. r = new
      BY <1>6, <2>1, <3>1, <3>3, <3>4, SameState DEF c
    <3> QED BY <1>11, <1>14, <1>17, <2>1, <3>5 DEF ReadState
  <2>2. CASE ~(AllPlain /\ n = 1 /\ ListedShape(c, state.last))
    <3> SUFFICES ASSUME r # Failed PROVE Behind(r)'
      BY <1>14, <1>17, <2>2 DEF ReadState
    <3>1. s # Failed
      BY <1>15, <1>17, LostStaysLost
    <3>2. s = state \/ Behind(s)
      BY <1>1, <1>17, <3>1 DEF ReadState
    <3>3. HasFields(s) /\ s.count \in Nat /\ s.finalized = FALSE /\ s.count <= state.count
      <4>1. state.finalized = FALSE /\ state.count \in Nat
        BY <1>1, <1>3, ClvmAssumption DEF IsState
      <4> QED BY <1>1, <3>2, <4>1 DEF Behind, IsState
    <3>4. AllPlain /\ ListedShape(c, state.last) => n # 1
      BY <2>2
    <3>5. ListedShape(c, state.last) /\ ContributedTo(r, s, s.count + 1, c.hash)
      BY <1>18, <3>3
    <3>6. HasFields(r) /\ r.count = s.count + 1 /\ r.finalized = s.finalized
      BY <3>3, <3>5, StateCounts
    <3>7. r.count < new.count
      <4>1. state.count \in Nat
        BY <1>1, ClvmAssumption DEF IsState
      <4>2. CASE AllPlain
        <5>1. n # 1
          BY <3>4, <3>5, <4>2
        <5> QED BY <1>6, <3>3, <3>6, <4>1, <5>1
      <4>3. CASE ~AllPlain
        <5>1. Behind(s)
          BY <1>1, <1>17, <3>1, <4>3 DEF ReadState
        <5>2. s.count < state.count
          <6>1. state.finalized = FALSE
            BY <1>1, <1>3 DEF IsState
          <6> QED BY <3>3, <5>1, <6>1 DEF Behind
        <5> QED BY <1>6, <3>3, <3>6, <4>1, <5>2
      <4> QED BY <4>2, <4>3
    <3>8. r.count \in Nat
      BY <3>3, <3>6
    <3> QED BY <1>11, <3>3, <3>6, <3>7, <3>8 DEF Behind
  <2> QED BY <2>1, <2>2
<1>20. Sealed'
  <2>1. new.last \in Predecessors
    <3>1. batch[n] \in Contribution
      BY <1>3
    <3> QED BY <1>6, <3>1 DEF Predecessors
  <2>2. state.vk = Zero32 /\ state.root = Zero32
    BY <1>1, <1>3 DEF Sealed
  <2> QED BY <1>6, <1>11, <2>1, <2>2 DEF Sealed, Predecessors
<1>21. CurriedArg(action, 1) = CeremonyId /\ CurriedArg(action, 4) = MarkerMod
  <2>1. params \in Parameters
    BY <1>1, CeremonyPuzzlesAssumption DEF Deployed
  <2> QED BY <2>1, ArgumentsRead DEF action
<1>22. ASSUME NEW e, NEW prev
       PROVE  /\ RueMarker(action, e, prev).ph = MarkerPuzzle(e.pk, e.hash, prev)
              /\ RueMarker(action, e, prev).parent = <<"singleton", k>>
              /\ RueMarker(action, e, prev).memos[2] = e.entropy
  BY <1>21 DEF RueMarker, MarkerPuzzle, ThisCoin
<1>23. Vouched'
  <2>1. \A d \in markers : d.ph[2] = MarkerMod /\ d.parent[1] # "outside"
    <3>1. <<"singleton", k>>[1] # "outside"
      OBVIOUS
    <3> QED BY <1>22, <3>1, VouchersDiffer DEF markers
  <2>2. ~state'.finalized
    BY <1>6, <1>11
  <2> QED BY <1>1, <1>3, <1>4, <1>11, <2>1, <2>2, MarkersAdded
<1>24. AllPlain' => Contributions'
  <2> SUFFICES ASSUME AllPlain, n = 1, ListedShape(c, state.last) PROVE Contributions'
    BY <1>14
  <2>1. PICK m \in Nat : m = state.count
    BY <1>1, ClvmAssumption DEF IsState
  <2>2. PICK who \in [1 .. m -> Contribution] :
          k = m + 1 /\ state.last = LastOf(who, m) /\ \A i \in 1 .. m : ContributionAt(who, i)
    BY <1>3, <2>1 DEF IInv, Contributions
  <2>3. PICK more \in [1 .. m + 1 -> Contribution] :
          more[m + 1] = c /\ \A i \in 1 .. m : more[i] = who[i]
    <3> DEFINE f == [i \in 1 .. m + 1 |-> IF i <= m THEN who[i] ELSE c]
    <3>1. /\ f \in [1 .. m + 1 -> Contribution] /\ f[m + 1] = c
          /\ \A i \in 1 .. m : f[i] = who[i]
      BY <1>9
    <3> HIDE DEF f
    <3> QED BY <3>1
  <2>4. /\ \A i \in 0 .. m : LastOf(more, i) = LastOf(who, i)
        /\ LastOf(more, m + 1) = c.hash
    <3>1. \A i \in 0 .. m : i = 0 \/ i \in 1 .. m
      OBVIOUS
    <3>2. m + 1 # 0
      OBVIOUS
    <3> QED BY <2>3, <3>1, <3>2 DEF LastOf
  <2>5. ASSUME NEW i \in 1 .. m PROVE ContributionAt(more, i)'
    <3>1. ContributionAt(who, i)
      BY <2>2
    <3>2. more[i] = who[i] /\ LastOf(more, i - 1) = LastOf(who, i - 1)
      BY <2>3, <2>4
    <3>3. coins'[i] = coins[i]
      BY <1>11, <2>2
    <3> QED BY <1>4, <1>11, <3>1, <3>2, <3>3 DEF ContributionAt
  <2>6. ContributionAt(more, m + 1)'
    <3>1. more[m + 1] = c /\ LastOf(more, (m + 1) - 1) = state.last
      BY <2>2, <2>3, <2>4
    <3>2. ActionSolution(coins'[m + 1].solution) = ContributeSolution(c, state.last)
          /\ coins'[m + 1].height = height
      BY <1>11, <1>16, <2>2 DEF Shows
    <3>3. height \in params.start .. params.start + params.length - 1
      <4>1. params \in Parameters /\ height \in Nat
        BY <1>1, CeremonyPuzzlesAssumption DEF Deployed
      <4>2. params.start \in Nat /\ params.length \in Nat
        BY <4>1, ParamsFit, ClvmAssumption
      <4> QED BY <1>3, <4>1, <4>2
    <3>4. PICK d : d = RueMarker(action, c, state.last)
      OBVIOUS
    <3>5. d \in created'
      <4>1. RueMarker(action, batch[1], Before(batch, 1)) \in markers
        BY DEF markers
      <4> QED BY <1>11, <3>4, <4>1 DEF c, Before
    <3>6. d.parent = <<"singleton", m + 1>> /\ d.ph = MarkerPuzzle(c.pk, c.hash, state.last)
          /\ d.memos[2] = c.entropy
      BY <1>22, <2>2, <3>4
    <3> QED BY <1>4, <3>1, <3>2, <3>3, <3>5, <3>6 DEF ContributionAt
  <2>7. \A i \in 1 .. m + 1 : i \in 1 .. m \/ i = m + 1
    OBVIOUS
  <2>8. \A i \in 1 .. m + 1 : ContributionAt(more, i)'
    BY <2>5, <2>6, <2>7
  <2>9. /\ state'.count = m + 1 /\ state'.last = c.hash /\ ~state'.finalized
        /\ Len(coins') = (m + 1) + 1
    BY <1>6, <1>11, <2>1, <2>2 DEF c
  <2> QED BY <2>3, <2>4, <2>8, <2>9 DEF Contributions
<1>25. Deployed' /\ IsState(state)'
  BY <1>1, <1>4, <1>7, <1>11 DEF Deployed
<1> QED BY <1>11, <1>19, <1>20, <1>23, <1>24, <1>25 DEF IInv

\* A seal preserves the invariant, and creates the first voucher of its line.
LEMMA FinalizeInvariant ==
  ASSUME IInv, NEW seal \in Seal, Finalize(seal)
  PROVE  IInv'
<1>1. Deployed /\ IsState(state) /\ Lineage /\ Sealed /\ ReadState /\ Vouched
  BY DEF IInv
<1> DEFINE action == CommittedFinalize(params)
           given == <<FinalizeSolution(seal)>>
           k == Len(coins)
<1>0. PICK mark, voucher, x, y, size :
        /\ mark = RueSeal(action, seal) /\ voucher = RueVoucher(action, seal.vk)
        /\ x = seal.vk /\ y = seal.root /\ size = params.maxVoters
  OBVIOUS
<1>2. PICK new : SealedBy(new, state, x, y)
                 /\ new = [state EXCEPT !.finalized = TRUE, !.vk = x, !.root = y]
  BY DEF SealedBy
<1>3. /\ RueFinalizes(action, state)
      /\ SpendSingleton(action, given, new, {mark, voucher})
      /\ height' = height /\ params' = params /\ memo' = memo /\ spent' = spent
  BY <1>0, <1>2 DEF Finalize
<1>4. /\ HasFields(new) /\ new.count = state.count /\ new.last = state.last
      /\ new.finalized = TRUE /\ new.vk = x /\ new.root = y
  <2>1. /\ HasFields(new) /\ new.count = state.count /\ new.last = state.last
        /\ new.finalized /\ new.finalized \in BOOLEAN /\ new.vk = x /\ new.root = y
    BY <1>1, <1>2, StateSeals DEF IsState
  <2> QED BY <2>1
<1>5. IsState(new)
  BY <1>1, <1>4 DEF IsState
<1>6. ~state.finalized /\ state.finalized = FALSE /\ state.count \in Nat
  BY <1>1, <1>3, ClvmAssumption DEF RueFinalizes, IsState
<1>7. Head(given) = FinalizeSolution(seal)
  <2>1. PICK given1 : given1 = FinalizeSolution(seal)
    OBVIOUS
  <2> QED BY <2>1
<1> HIDE DEF action, given
<1>8. Head(given) # NoNode
  BY <1>7, SolutionsTell
<1>9. /\ state' = new /\ created' = created \cup {mark, voucher}
      /\ Lineage'
      /\ Len(coins') = k + 1
      /\ \A i \in 1 .. k - 1 : coins'[i] = coins[i]
      /\ Shows(coins'[k], action, given)
  BY <1>1, <1>3, <1>5, <1>8, SpendFacts
<1>10. k \in Nat \ {0}
  BY <1>1 DEF Lineage
<1>11. PICK coin : coin = coins'[k]
  OBVIOUS
<1>12. /\ Plain(coin) <=> SealedShape(seal)
       /\ ModName(ActionRun(coin.solution)) = "finalize"
       /\ ActionSolution(coin.solution) = FinalizeSolution(seal)
  BY <1>9, <1>11, PlainSeal DEF action, given
<1>13. AllPlain' <=> AllPlain /\ SealedShape(seal)
  BY <1>9, <1>10, <1>11, <1>12, AllPlainStep
<1>14. PICK s, r : s = CurrentState /\ r = CurrentState' /\ r = AfterSpend(s, coin)
  BY <1>9, <1>10, <1>11, WalkStep
<1>15. HasFields(s) =>
         IF SealedShape(seal) THEN SealedBy(r, s, x, y)
         ELSE r = Failed \/ \E l : ContributedTo(r, s, s.count + 1, l)
  BY <1>0, <1>12, <1>14, ReadsSeal
<1>16. ReadState'
  <2>1. CASE AllPlain /\ SealedShape(seal)
    <3>1. s = state /\ HasFields(s)
      BY <1>1, <1>14, <2>1 DEF ReadState, IsState
    <3>2. SealedBy(r, s, x, y)
      BY <1>15, <2>1, <3>1
    <3>3. /\ HasFields(r) /\ r.count = s.count /\ r.last = s.last
          /\ r.finalized /\ r.finalized \in BOOLEAN /\ r.vk = x /\ r.root = y
      BY <3>1, <3>2, StateSeals
    <3>4. r = new
      BY <1>4, <3>1, <3>3, SameState
    <3> QED BY <1>9, <1>13, <1>14, <2>1, <3>4 DEF ReadState
  <2>2. CASE ~(AllPlain /\ SealedShape(seal))
    <3> SUFFICES ASSUME r # Failed PROVE Behind(r)'
      BY <1>13, <1>14, <2>2 DEF ReadState
    <3>1. s # Failed
      BY <1>14, LostStaysLost
    <3>2. s = state \/ Behind(s)
      BY <1>1, <1>14, <3>1 DEF ReadState
    <3>3. HasFields(s) /\ s.count \in Nat /\ s.finalized = FALSE
      BY <1>1, <1>6, <3>2 DEF Behind, IsState
    <3>4. CASE SealedShape(seal)
      <4>1. SealedBy(r, s, x, y)
        BY <1>15, <3>3, <3>4
      <4>2. HasFields(r) /\ r.count = s.count /\ r.finalized /\ r.finalized \in BOOLEAN
        BY <3>3, <4>1, StateSeals
      <4>3. Behind(s)
        BY <1>1, <1>14, <2>2, <3>1, <3>4 DEF ReadState
      <4>4. s.count < state.count
        BY <1>6, <3>3, <4>3 DEF Behind
      <4> QED BY <1>4, <1>9, <3>3, <4>2, <4>4 DEF Behind
    <3>5. CASE ~SealedShape(seal)
      <4>1. PICK l : ContributedTo(r, s, s.count + 1, l)
        BY <1>15, <3>3, <3>5
      <4>2. HasFields(r) /\ r.count = s.count + 1 /\ r.finalized = FALSE
        BY <3>3, <4>1, StateCounts
      <4>3. r.count \in Nat
        BY <3>3, <4>2
      <4>4. r.finalized # new.finalized
        BY <1>4, <4>2
      <4> QED BY <1>4, <1>9, <4>2, <4>3, <4>4 DEF Behind
    <3> QED BY <3>4, <3>5
  <2> QED BY <2>1, <2>2
<1>17. Sealed'
  <2>1. state'.last \in Predecessors
    BY <1>1, <1>4, <1>9 DEF Sealed
  <2>2. Len(coins') > 1 /\ Len(coins') - 1 = k
    BY <1>9, <1>10
  <2> QED BY <1>4, <1>9, <1>11, <1>12, <2>1, <2>2 DEF Sealed, Predecessors
<1>18. AllPlain' => Contributions'
  <2> SUFFICES ASSUME AllPlain PROVE Contributions'
    BY <1>13
  <2>1. PICK m \in Nat : m = state.count
    BY <1>6
  <2>2. PICK who \in [1 .. m -> Contribution] :
          k = m + 1 /\ state.last = LastOf(who, m) /\ \A i \in 1 .. m : ContributionAt(who, i)
    BY <1>6, <2>1 DEF IInv, Contributions
  <2>3. ASSUME NEW i \in 1 .. m PROVE ContributionAt(who, i)'
    <3>1. ContributionAt(who, i)
      BY <2>2
    <3>2. coins'[i] = coins[i]
      BY <1>9, <2>2
    <3> QED BY <1>3, <1>9, <3>1, <3>2 DEF ContributionAt
  <2>4. state'.count = m /\ state'.last = state.last /\ state'.finalized /\ Len(coins') = m + 2
    BY <1>4, <1>9, <2>1, <2>2
  <2> QED BY <2>2, <2>3, <2>4 DEF Contributions
<1>19. /\ CurriedArg(action, 1) = CeremonyId /\ IntArg(action, 4) = params.maxVoters
       /\ CurriedArg(action, 5) = MarkerMod /\ CurriedArg(action, 6) = VoucherMod
  <2>1. params \in Parameters
    BY <1>1, CeremonyPuzzlesAssumption DEF Deployed
  <2> QED BY <2>1, ArgumentsRead DEF action
<1>20. mark.ph[2] = MarkerMod /\ mark.parent[1] # "outside"
  BY <1>0, <1>19 DEF RueSeal, Curry, ThisCoin
<1>21. /\ voucher.ph = VoucherPuzzle(x, size)
       /\ voucher.parent[1] # "outside" /\ voucher.memos = <<Atom(CeremonyId)>>
       /\ voucher.generation = 0
       /\ voucher = [parent |-> voucher.parent, generation |-> voucher.generation,
                     ph |-> voucher.ph, memos |-> voucher.memos]
  <2>1. voucher.ph = VoucherPuzzle(x, size)
    BY <1>0, <1>19 DEF RueVoucher, VoucherPuzzle, VoucherMessage
  <2>2. voucher.parent[1] # "outside"
    BY <1>0 DEF RueVoucher, ThisCoin
  <2>3. voucher.memos = <<Atom(CeremonyId)>> /\ voucher.generation = 0
    BY <1>0, <1>19 DEF RueVoucher
  <2>4. voucher = [parent |-> voucher.parent, generation |-> voucher.generation,
                   ph |-> voucher.ph, memos |-> voucher.memos]
    BY <1>0 DEF RueVoucher
  <2> QED BY <2>1, <2>2, <2>3, <2>4
<1>22. Vouched'
  <2>1. \A vk, m : Outside(vk, m)[1] = "outside"
    BY DEF Outside
  <2>2. ASSUME NEW c, NEW vk, NEW m
        PROVE  IsVoucher(c, vk, m) => c.parent[1] = "outside" /\ IsVoucher(c, vk, m)'
    BY <1>3, <1>6, <2>1 DEF IsVoucher
  <2>3. \A c \in created : c.ph[2] # MarkerMod => c.parent[1] = "outside"
    BY <1>1, <2>2 DEF Vouched
  <2>4. voucher.ph[2] # MarkerMod
    BY <1>21, VouchersDiffer
  <2>5. voucher \notin created /\ spent \subseteq created
    BY <1>1, <1>21, <2>3, <2>4 DEF Vouched
  <2>6. voucher.generation \in Nat
    BY <1>21
  <2>7. IsVoucher(voucher, x, size)'
    BY <1>0, <1>3, <1>4, <1>9, <1>21, <2>6 DEF IsVoucher
  <2>8. \A c \in created' : c \in created \/ c = mark \/ c = voucher
    BY <1>9
  <2>9. \A c \in created' : c.ph[2] # MarkerMod => \E vk, m : IsVoucher(c, vk, m)'
    <3> SUFFICES ASSUME NEW c \in created', c.ph[2] # MarkerMod
                 PROVE  \E vk, m : IsVoucher(c, vk, m)'
      OBVIOUS
    <3>1. CASE c \in created
      <4>1. PICK vk, m : IsVoucher(c, vk, m)
        BY <1>1, <3>1 DEF Vouched
      <4> QED BY <2>2, <4>1
    <3>2. CASE c = voucher
      <4>1. IsVoucher(c, x, size)'
        BY <2>7, <3>2
      <4> QED BY <4>1
    <3> QED BY <1>20, <2>8, <3>1, <3>2
  <2>10. \A c \in created' : c.ph[2] = MarkerMod => c.parent[1] # "outside"
    BY <1>1, <1>20, <1>21, <2>8 DEF Vouched
  <2>11. ASSUME NEW c \in created' \ spent', NEW u \in created',
                c.ph[2] # MarkerMod, u.ph = c.ph, u.parent = c.parent
         PROVE  u.generation <= c.generation
    <3>1. c # mark /\ u # mark
      BY <1>20, <2>11
    <3>2. CASE c = voucher
      <4>1. u = voucher
        BY <1>21, <2>3, <2>8, <2>11, <3>1, <3>2
      <4> QED BY <2>6, <3>2, <4>1
    <3>3. CASE c \in created
      <4>1. u \in created
        BY <1>21, <2>3, <2>8, <2>11, <3>1, <3>3
      <4> QED BY <1>1, <1>3, <2>11, <3>3, <4>1 DEF Vouched
    <3> QED BY <2>8, <3>1, <3>2, <3>3
  <2>12. \E c \in created' \ spent' : IsVoucher(c, state.vk, params.maxVoters)'
    <3>1. voucher \in created' \ spent'
      BY <1>3, <1>9, <2>5
    <3>2. state'.vk = x /\ params'.maxVoters = size
      BY <1>0, <1>3, <1>4, <1>9
    <3>3. IsVoucher(voucher, state.vk, params.maxVoters)'
      BY <2>7, <3>2
    <3> QED BY <3>1, <3>3
  <2>13. ASSUME NEW vk, NEW m, NEW d \in created', d.parent = Outside(vk, m)
         PROVE  \E c \in created' \ spent' : IsVoucher(c, vk, m)' /\ c.parent = Outside(vk, m)
    <3>1. d \in created
      BY <1>20, <1>21, <2>1, <2>8, <2>13
    <3>2. PICK c \in created \ spent : IsVoucher(c, vk, m) /\ c.parent = Outside(vk, m)
      BY <1>1, <2>13, <3>1 DEF Vouched
    <3> QED BY <1>3, <1>9, <2>2, <3>2
  <2> QED BY <1>3, <1>9, <2>5, <2>9, <2>10, <2>11, <2>12, <2>13 DEF Vouched
<1>23. Deployed' /\ IsState(state)'
  BY <1>1, <1>3, <1>5, <1>9 DEF Deployed
<1> QED BY <1>9, <1>16, <1>17, <1>18, <1>22, <1>23 DEF IInv

\* A voucher that is spent recreates itself, one generation on.
LEMMA VoucherRecreates ==
  ASSUME NEW c, NEW vk, NEW m, IsVoucher(c, vk, m), NEW w, w = RueRecreated(c)
  PROVE  /\ w = [parent |-> w.parent, generation |-> w.generation, ph |-> w.ph, memos |-> w.memos]
         /\ w.parent = c.parent /\ w.ph = c.ph /\ w.memos = c.memos
         /\ w.generation = c.generation + 1 /\ c.generation \in Nat /\ w.generation \in Nat
<1> DEFINE first == Curry(VoucherMod,
                      <<Atom(VoucherMod), Atom(VoucherMessage(vk, m)), Atom(CeremonyId)>>)
<1>1. c.ph = Curry(first, <<Atom(first)>>)
  BY DEF IsVoucher, VoucherPuzzle
<1>2. CurriedArg(first, 3) = CeremonyId
  BY DEF Curry, CurriedArg, Atom
<1> HIDE DEF first
<1>3. CurriedArg(c.ph, 1) = first /\ c.ph[2] = first
  BY <1>1 DEF Curry, CurriedArg, Atom
<1>4. c.memos = <<Atom(CeremonyId)>> /\ c.generation \in Nat
  BY DEF IsVoucher
<1>5. w.parent = c.parent /\ w.generation = c.generation + 1
  BY DEF RueRecreated
<1>6. w.ph = c.ph
  BY <1>1, <1>3 DEF RueRecreated
<1>7. w.memos = <<Atom(CeremonyId)>>
  BY <1>2, <1>3 DEF RueRecreated
<1>8. w = [parent |-> w.parent, generation |-> w.generation, ph |-> w.ph, memos |-> w.memos]
  BY DEF RueRecreated
<1>9. w.generation \in Nat
  BY <1>4, <1>5
<1> QED BY <1>4, <1>5, <1>6, <1>7, <1>8, <1>9

\* The coins of the singleton and what they say are those of the step before.
LEMMA SameLineage ==
  ASSUME Deployed, IsState(state), Lineage, Sealed, ReadState, AllPlain => Contributions,
         height' \in Nat, created \subseteq created', UNCHANGED <<params, memo, coins, state>>
  PROVE  /\ Deployed' /\ IsState(state)' /\ Lineage' /\ Sealed' /\ ReadState'
         /\ AllPlain' => Contributions'
<1>1. Deployed' /\ IsState(state)' /\ Sealed'
  BY DEF Deployed, Sealed
<1>2. Lineage'
  BY DEF Lineage
<1>3. AllPlain' <=> AllPlain
  BY DEF AllPlain, SpentCoins
<1>4. CurrentState' = CurrentState
  BY DEF CurrentState
<1>5. ReadState'
  BY <1>3, <1>4 DEF ReadState, Behind
<1>6. ASSUME Contributions PROVE Contributions'
  <2>1. PICK m \in Nat : m = state.count
    BY ClvmAssumption DEF IsState
  <2>2. PICK who \in [1 .. m -> Contribution] :
          /\ Len(coins) = state.count + (IF state.finalized THEN 2 ELSE 1)
          /\ state.last = LastOf(who, m) /\ \A k \in 1 .. m : ContributionAt(who, k)
    BY <1>6, <2>1 DEF Contributions
  <2>3. \A k \in 1 .. m : ContributionAt(who, k)'
    BY <2>2 DEF ContributionAt
  <2> QED BY <2>1, <2>2, <2>3 DEF Contributions
<1> QED BY <1>1, <1>2, <1>3, <1>5, <1>6

\* A linked election preserves the invariant: its line has one unspent voucher.
LEMMA LinkInvariant ==
  ASSUME IInv, NEW vk, NEW m, DeployLinkedElection(vk, m)
  PROVE  IInv'
<1>1. /\ Deployed /\ IsState(state) /\ Lineage /\ Sealed /\ ReadState /\ Vouched
      /\ AllPlain => Contributions
  BY DEF IInv
<1>2. PICK c \in Vouchers(vk, m) :
        spent' = spent \cup {c} /\ created' = created \cup {RueRecreated(c)}
  BY DEF DeployLinkedElection
<1>3. height' = height /\ params' = params /\ memo' = memo /\ coins' = coins /\ state' = state
  BY DEF DeployLinkedElection
<1>4. PICK w : w = RueRecreated(c)
  OBVIOUS
<1>5. c \in created /\ c \notin spent /\ c.ph[2] # MarkerMod
  BY VouchersDiffer DEF Vouchers
<1>6. PICK ck, cm : IsVoucher(c, ck, cm)
  BY <1>1, <1>5 DEF Vouched
<1>7. /\ w = [parent |-> w.parent, generation |-> w.generation, ph |-> w.ph, memos |-> w.memos]
      /\ w.parent = c.parent /\ w.ph = c.ph /\ w.memos = c.memos
      /\ w.generation = c.generation + 1 /\ c.generation \in Nat /\ w.generation \in Nat
  BY <1>4, <1>6, VoucherRecreates
<1>8. spent' = spent \cup {c} /\ created' = created \cup {w}
  BY <1>2, <1>4
<1>9. \A u \in created : u.ph = c.ph /\ u.parent = c.parent => u.generation <= c.generation
  BY <1>1, <1>5 DEF Vouched
<1>10. w \notin created /\ w # c
  <2>1. ~(c.generation + 1 <= c.generation)
    BY <1>7
  <2> QED BY <1>5, <1>7, <1>9, <2>1
<1>11. spent \subseteq created
  BY <1>1 DEF Vouched
<1>12. ASSUME NEW d, NEW v, NEW o PROVE IsVoucher(d, v, o)' <=> IsVoucher(d, v, o)
  BY <1>3 DEF IsVoucher
<1>13. ASSUME NEW v, NEW o, IsVoucher(c, v, o) PROVE IsVoucher(w, v, o)
  BY <1>7, <1>13 DEF IsVoucher
<1>14. w \in created' \ spent' /\ \A d \in created \ spent : d = c \/ d \in created' \ spent'
  BY <1>8, <1>10, <1>11
<1>15. \A d \in created' : d.ph[2] # MarkerMod => \E v, o : IsVoucher(d, v, o)'
  BY <1>1, <1>6, <1>8, <1>12, <1>13 DEF Vouched
<1>16. \A d \in created' : d.ph[2] = MarkerMod => d.parent[1] # "outside"
  BY <1>1, <1>5, <1>7, <1>8 DEF Vouched
<1>17. ASSUME NEW a \in created' \ spent', NEW u \in created',
              a.ph[2] # MarkerMod, u.ph = a.ph, u.parent = a.parent
       PROVE  u.generation <= a.generation
  <2>1. CASE a = w
    <3>1. CASE u = w
      BY <1>7, <2>1, <3>1
    <3>2. CASE u \in created
      <4>1. u.generation <= c.generation
        BY <1>7, <1>9, <1>17, <2>1, <3>2
      <4>2. PICK uk, um : IsVoucher(u, uk, um)
        BY <1>1, <1>17, <3>2 DEF Vouched
      <4>3. u.generation \in Nat
        BY <4>2 DEF IsVoucher
      <4> QED BY <1>7, <2>1, <4>1, <4>3
    <3> QED BY <1>8, <3>1, <3>2
  <2>2. CASE a # w
    <3>1. a \in created \ spent /\ a # c
      BY <1>8, <2>2
    <3>2. CASE u \in created
      BY <1>1, <1>17, <3>1, <3>2 DEF Vouched
    <3>3. CASE u = w
      <4>1. a.ph = c.ph /\ a.parent = c.parent
        BY <1>7, <1>17, <3>3
      <4>2. a.generation <= c.generation /\ c.generation <= a.generation
        BY <1>1, <1>5, <1>9, <1>17, <3>1, <4>1 DEF Vouched
      <4>3. PICK ak, am : IsVoucher(a, ak, am)
        BY <1>1, <1>17, <3>1 DEF Vouched
      <4>4. a.generation \in Nat /\ a.memos = c.memos
        BY <1>6, <4>3 DEF IsVoucher
      <4>5. a.generation = c.generation
        BY <1>7, <4>2, <4>4
      <4>6. a = [parent |-> a.parent, generation |-> a.generation, ph |-> a.ph, memos |-> a.memos]
            /\ c = [parent |-> c.parent, generation |-> c.generation, ph |-> c.ph, memos |-> c.memos]
        BY <1>6, <4>3 DEF IsVoucher
      <4>7. a = c
        BY <4>1, <4>4, <4>5, <4>6
      <4> QED BY <3>1, <4>7
    <3> QED BY <1>8, <3>2, <3>3
  <2> QED BY <2>1, <2>2
<1>18. state'.finalized => \E d \in created' \ spent' : IsVoucher(d, state.vk, params.maxVoters)'
  <2> SUFFICES ASSUME state.finalized
               PROVE  \E d \in created' \ spent' : IsVoucher(d, state.vk, params.maxVoters)'
    BY <1>3
  <2>1. PICK v, o : v = state.vk /\ o = params.maxVoters
    OBVIOUS
  <2>2. PICK d \in created \ spent : IsVoucher(d, v, o)
    BY <1>1, <2>1 DEF Vouched
  <2>3. \E a \in created' \ spent' : IsVoucher(a, v, o)'
    BY <1>12, <1>13, <1>14, <2>2
  <2>4. state'.vk = v /\ params'.maxVoters = o
    BY <1>3, <2>1
  <2> QED BY <2>3, <2>4
<1>19. ASSUME NEW v, NEW o, NEW d \in created', d.parent = Outside(v, o)
       PROVE  \E a \in created' \ spent' : IsVoucher(a, v, o)' /\ a.parent = Outside(v, o)
  <2>1. PICK b \in created : b.parent = Outside(v, o)
    BY <1>5, <1>7, <1>8, <1>19
  <2>2. PICK a \in created \ spent : IsVoucher(a, v, o) /\ a.parent = Outside(v, o)
    BY <1>1, <2>1 DEF Vouched
  <2> QED BY <1>7, <1>12, <1>13, <1>14, <2>2
<1>20. Vouched'
  BY <1>5, <1>8, <1>11, <1>15, <1>16, <1>17, <1>18, <1>19 DEF Vouched
<1>21. /\ Deployed' /\ IsState(state)' /\ Lineage' /\ Sealed' /\ ReadState'
       /\ AllPlain' => Contributions'
  BY <1>1, <1>3, <1>8, SameLineage DEF Deployed
<1> QED BY <1>20, <1>21 DEF IInv

\* A voucher's coin that somebody creates starts a line of its own.
LEMMA ForgeInvariant ==
  ASSUME IInv, NEW vk, NEW m, ForgeVoucher(vk, m)
  PROVE  IInv'
<1>1. /\ Deployed /\ IsState(state) /\ Lineage /\ Sealed /\ ReadState /\ Vouched
      /\ AllPlain => Contributions
  BY DEF IInv
<1>2. PICK f : f = [parent |-> Outside(vk, m), generation |-> 0,
                    ph |-> VoucherPuzzle(vk, m), memos |-> <<Atom(CeremonyId)>>]
  OBVIOUS
<1>3. /\ height' = height /\ params' = params /\ memo' = memo /\ coins' = coins /\ state' = state
      /\ spent' = spent /\ created' = created \cup {f}
      /\ \A c \in created : c.parent # Outside(vk, m)
  BY <1>2 DEF ForgeVoucher
<1>4. /\ f.parent = Outside(vk, m) /\ f.generation = 0 /\ f.ph = VoucherPuzzle(vk, m)
      /\ f.memos = <<Atom(CeremonyId)>>
      /\ f = [parent |-> f.parent, generation |-> f.generation, ph |-> f.ph, memos |-> f.memos]
  BY <1>2
<1>5. IsVoucher(f, vk, m) /\ f.ph[2] # MarkerMod
  <2>1. f.generation \in Nat
    BY <1>4
  <2> QED BY <1>4, <2>1, VouchersDiffer DEF IsVoucher
<1>6. f \notin created /\ f \notin spent /\ spent \subseteq created
  BY <1>1, <1>3, <1>4 DEF Vouched
<1>7. ASSUME NEW d, NEW v, NEW o PROVE IsVoucher(d, v, o)' <=> IsVoucher(d, v, o)
  BY <1>3 DEF IsVoucher
<1>8. \A d \in created' : d.ph[2] # MarkerMod => \E v, o : IsVoucher(d, v, o)'
  BY <1>1, <1>3, <1>5, <1>7 DEF Vouched
<1>9. \A d \in created' : d.ph[2] = MarkerMod => d.parent[1] # "outside"
  BY <1>1, <1>3, <1>5 DEF Vouched
<1>10. ASSUME NEW a \in created' \ spent', NEW u \in created',
              a.ph[2] # MarkerMod, u.ph = a.ph, u.parent = a.parent
       PROVE  u.generation <= a.generation
  <2>1. CASE a = f
    <3>1. u = f
      BY <1>3, <1>4, <1>10, <2>1
    <3> QED BY <1>4, <2>1, <3>1
  <2>2. CASE a # f
    <3>1. a \in created \ spent /\ u \in created
      BY <1>3, <1>4, <1>10, <2>2
    <3> QED BY <1>1, <1>10, <3>1 DEF Vouched
  <2> QED BY <2>1, <2>2
<1>11. state'.finalized => \E d \in created' \ spent' : IsVoucher(d, state.vk, params.maxVoters)'
  <2> SUFFICES ASSUME state.finalized
               PROVE  \E d \in created' \ spent' : IsVoucher(d, state.vk, params.maxVoters)'
    BY <1>3
  <2>1. PICK v, o : v = state.vk /\ o = params.maxVoters
    OBVIOUS
  <2>2. PICK d \in created \ spent : IsVoucher(d, v, o)
    BY <1>1, <2>1 DEF Vouched
  <2>3. d \in created' \ spent' /\ IsVoucher(d, v, o)'
    BY <1>3, <1>7, <2>2
  <2>4. state'.vk = v /\ params'.maxVoters = o
    BY <1>3, <2>1
  <2> QED BY <2>3, <2>4
<1>12. ASSUME NEW v, NEW o, NEW d \in created', d.parent = Outside(v, o)
       PROVE  \E a \in created' \ spent' : IsVoucher(a, v, o)' /\ a.parent = Outside(v, o)
  <2>1. CASE d = f
    <3>1. v = vk /\ o = m
      BY <1>4, <1>12, <2>1 DEF Outside
    <3> QED BY <1>3, <1>4, <1>5, <1>6, <1>7, <3>1
  <2>2. CASE d # f
    <3>1. PICK a \in created \ spent : IsVoucher(a, v, o) /\ a.parent = Outside(v, o)
      BY <1>1, <1>3, <1>12, <2>2 DEF Vouched
    <3> QED BY <1>3, <1>7, <3>1
  <2> QED BY <2>1, <2>2
<1>13. Vouched'
  BY <1>3, <1>6, <1>8, <1>9, <1>10, <1>11, <1>12 DEF Vouched
<1>14. /\ Deployed' /\ IsState(state)' /\ Lineage' /\ Sealed' /\ ReadState'
       /\ AllPlain' => Contributions'
  BY <1>1, <1>3, SameLineage DEF Deployed
<1> QED BY <1>13, <1>14 DEF IInv

\* What leaves the coins alone preserves the invariant.
LEMMA SameCoins ==
  ASSUME IInv, height' \in Nat, UNCHANGED <<params, memo, coins, state, created, spent>>
  PROVE  IInv'
<1>1. /\ Deployed' /\ IsState(state)' /\ Lineage' /\ Sealed' /\ ReadState'
      /\ AllPlain' => Contributions'
  BY SameLineage DEF IInv
<1>2. Vouched'
  <2>1. Vouched
    BY DEF IInv
  <2>2. ASSUME NEW d, NEW v, NEW o PROVE IsVoucher(d, v, o)' <=> IsVoucher(d, v, o)
    BY DEF IsVoucher
  <2>3. PICK v, o : v = state.vk /\ o = params.maxVoters
    OBVIOUS
  <2>4. state'.vk = v /\ params'.maxVoters = o
    BY <2>3
  <2>5. state'.finalized => \E c \in created' \ spent' : IsVoucher(c, state.vk, params.maxVoters)'
    BY <2>1, <2>2, <2>3, <2>4 DEF Vouched
  <2> QED BY <2>1, <2>2, <2>5 DEF Vouched
<1> QED BY <1>1, <1>2 DEF IInv

\* Every step preserves the invariant.
LEMMA NextInvariant == IInv /\ [Next]_vars => IInv'
<1> SUFFICES ASSUME IInv, [Next]_vars PROVE IInv'
  OBVIOUS
<1>0. height \in Nat
  BY DEF IInv, Deployed
<1>1. CASE AdvanceHeight
  BY <1>0, <1>1, SameCoins DEF AdvanceHeight
<1>2. ASSUME NEW c \in Contribution, NEW prev \in Predecessors, SignContribution(c, prev)
      PROVE  IInv'
  BY <1>0, <1>2, SameCoins DEF SignContribution
<1>3. ASSUME NEW batch \in Batches, Contribute(batch) PROVE IInv'
  BY <1>3, ContributeInvariant
<1>4. ASSUME NEW seal \in Seal, Finalize(seal) PROVE IInv'
  BY <1>4, FinalizeInvariant
<1>5. ASSUME NEW vk \in Keys, NEW size \in Sizes, ForgeVoucher(vk, size) PROVE IInv'
  BY <1>5, ForgeInvariant
<1>6. ASSUME NEW vk \in Keys, NEW size \in Sizes, DeployLinkedElection(vk, size) PROVE IInv'
  BY <1>6, LinkInvariant
<1>7. CASE UNCHANGED vars
  BY <1>0, <1>7, SameCoins DEF vars
<1> QED BY <1>1, <1>2, <1>3, <1>4, <1>5, <1>6, <1>7 DEF Next

\* The lineage of a ceremony's singleton, what the SDK's walk makes of it, its
\* contributions, its seal and the vouchers are at every moment what the code
\* of the puzzles makes of them, whatever solutions their spenders chose.
THEOREM CeremonyCoinsFollow == Spec => []IInv
<1>1. Init => IInv
  BY InitInvariant
<1>2. IInv /\ [Next]_vars => IInv'
  BY NextInvariant
<1> QED BY <1>1, <1>2, PTL DEF Spec

----------------------------------------------------------------------------
(* What the readers return for such a lineage.                              *)

\* The launcher's memo reads back as the parameters.
LEMMA MemoReads == Deployed => ReadMemo = params
<1> SUFFICES ASSUME Deployed PROVE ReadMemo = params
  OBVIOUS
<1> DEFINE p == params
<1>1. p \in Parameters /\ memo = LauncherMemo(p)
  BY CeremonyPuzzlesAssumption DEF Deployed
<1>2. /\ Unsigned(ClvmInt(p.start)[2][2]) = p.start
      /\ Unsigned(ClvmInt(p.length)[2][2]) = p.length
      /\ Unsigned(ClvmInt(p.minimum)[2][2]) = p.minimum
      /\ Unsigned(ClvmInt(p.maxVoters)[2][2]) = p.maxVoters
  BY <1>1, ParamsFit, AtomsRead
<1>3. /\ memo[1] = MemoTag /\ memo[2] = ClvmInt(p.start) /\ memo[3] = ClvmInt(p.length)
      /\ memo[4] = ClvmInt(p.minimum) /\ memo[5] = ClvmInt(p.maxVoters)
  <2> HIDE DEF ClvmInt
  <2> QED BY <1>1 DEF LauncherMemo
<1>4. ReadMemo = [start |-> p.start, length |-> p.length,
                  minimum |-> p.minimum, maxVoters |-> p.maxVoters]
  BY <1>2, <1>3 DEF ReadMemo
<1> QED BY <1>1, <1>4, ParamsFit

\* The walk ends in the state exactly along a lineage the SDK could have made.
LEMMA WalkIsRight == IInv => (CurrentState = state <=> AllPlain)
<1> SUFFICES ASSUME IInv PROVE CurrentState = state <=> AllPlain
  OBVIOUS
<1>1. state # Failed
  BY StateIsNoFailure DEF IInv, IsState
<1>2. ~Behind(state)
  <2>1. state.count \in Nat
    BY ClvmAssumption DEF IInv, IsState
  <2> QED BY <2>1 DEF Behind
<1>3. PICK r : r = CurrentState
  OBVIOUS
<1> QED BY <1>1, <1>2, <1>3 DEF IInv, ReadState

\* The record of a spend that contributed.
Recorded(r, i, c, prev) ==
  r = [pk |-> c.pk, hash |-> c.hash, prev |-> prev, height |-> coins[i].height,
       entropy |-> c.entropy[2], payload |-> c.payload[2],
       marker |-> <<<<"singleton", i>>, MarkerPuzzle(c.pk, c.hash, prev)>>]

\* A spend that contributed is listed as that contribution.
LEMMA ContributionRecorded ==
  ASSUME NEW i, NEW c \in Contribution, NEW prev, ListedShape(c, prev),
         ActionSolution(coins[i].solution) = ContributeSolution(c, prev)
  PROVE  RecordOf(i) # Failed /\ Recorded(RecordOf(i), i, c, prev)
<1> DEFINE f == <<c.pk, c.hash, prev, c.entropy[2], c.payload[2]>>
<1>1. PICK d : d = Decode(ActionSolution(coins[i].solution), ContributeShape)
  OBVIOUS
<1>2. d # Failed /\ d.fields = f
  BY <1>1, ContributeDecodes
<1>3. c.pk[1] = "bytes48"
  BY CeremonyPuzzlesAssumption
<1>4. /\ f[1] = c.pk /\ f[2] = c.hash /\ f[3] = prev
      /\ f[4] = c.entropy[2] /\ f[5] = c.payload[2]
  OBVIOUS
<1> HIDE DEF f
<1>5. Recorded(RecordOf(i), i, c, prev)
  BY <1>1, <1>2, <1>3, <1>4 DEF RecordOf, Recorded
<1>6. \A r : Recorded(r, i, c, prev) => r # Failed
  <2> SUFFICES ASSUME NEW r, Recorded(r, i, c, prev) PROVE r # Failed
    OBVIOUS
  <2>1. DOMAIN r = {"pk", "hash", "prev", "height", "entropy", "payload", "marker"}
    BY DEF Recorded
  <2>2. DOMAIN Failed = {"failed"}
    BY DEF Failed
  <2>3. "pk" # "failed"
    OBVIOUS
  <2> QED BY <2>1, <2>2, <2>3
<1> QED BY <1>5, <1>6

\* The last spend of a sealed lineage is no contribution.
LEMMA SealedIsNotListed == IInv /\ AllPlain /\ state.finalized => ListContributions = Failed
<1> SUFFICES ASSUME IInv, AllPlain, state.finalized PROVE ListContributions = Failed
  OBVIOUS
<1>1. PICK k : k = Len(coins) - 1
  OBVIOUS
<1>2. k \in SpentCoins /\ ModName(ActionRun(coins[k].solution)) = "finalize"
  <2>1. Len(coins) \in Nat /\ Len(coins) > 1
    BY DEF IInv, Lineage, Sealed
  <2> QED BY <1>1, <2>1 DEF IInv, Sealed, SpentCoins
<1>3. PICK seal \in Seal :
        ActionSolution(coins[k].solution) = FinalizeSolution(seal) /\ SealedShape(seal)
  <2>1. Plain(coins[k]) /\ "finalize" # "contribute"
    BY <1>2 DEF AllPlain
  <2> QED BY <1>2, <2>1 DEF Plain
<1>4. Decode(ActionSolution(coins[k].solution), ContributeShape) = Failed
  BY <1>3, FinalizeDecodes
<1>5. RecordOf(k) = Failed
  BY <1>4 DEF RecordOf
<1>6. Failed \in Range([i \in SpentCoins |-> RecordOf(i)])
  BY <1>2, <1>5 DEF Range
<1> QED BY <1>6 DEF ListContributions

\* The lineage of an open ceremony is listed contribution by contribution.
LEMMA OpenIsListed ==
  IInv /\ AllPlain /\ ~state.finalized =>
    ListContributions # Failed /\ Transcribes(ListContributions.records)
<1> SUFFICES ASSUME IInv, AllPlain, ~state.finalized
             PROVE  ListContributions # Failed /\ Transcribes(ListContributions.records)
  OBVIOUS
<1>1. PICK n \in Nat : n = state.count
  BY ClvmAssumption DEF IInv, IsState
<1>2. PICK who \in [1 .. n -> Contribution] :
        /\ Len(coins) = n + 1
        /\ state.last = LastOf(who, n) /\ \A k \in 1 .. n : ContributionAt(who, k)
  BY <1>1 DEF IInv, Contributions
<1>3. SpentCoins = 1 .. n
  <2>1. (n + 1) - 1 = n
    OBVIOUS
  <2> QED BY <1>2, <2>1 DEF SpentCoins
<1> DEFINE records == [i \in 1 .. n |-> RecordOf(i)]
<1>4. ASSUME NEW i \in 1 .. n
      PROVE  RecordOf(i) # Failed /\ Recorded(RecordOf(i), i, who[i], LastOf(who, i - 1))
  <2>1. /\ ActionSolution(coins[i].solution) = ContributeSolution(who[i], LastOf(who, i - 1))
        /\ ListedShape(who[i], LastOf(who, i - 1))
    BY <1>2 DEF ContributionAt
  <2>2. who[i] \in Contribution
    OBVIOUS
  <2> QED BY <2>1, <2>2, ContributionRecorded
<1>5. ListContributions = [records |-> records]
  <2>1. Failed \notin Range(records)
    BY <1>4 DEF Range
  <2> QED BY <1>3, <2>1 DEF ListContributions
<1>6. ListContributions # Failed /\ ListContributions.records = records
  <2>1. DOMAIN [records |-> records] = {"records"} /\ DOMAIN Failed = {"failed"}
    BY DEF Failed
  <2>2. "records" # "failed"
    OBVIOUS
  <2> HIDE DEF records
  <2> QED BY <1>5, <2>1, <2>2
<1>7. records \in Seq({RecordOf(i) : i \in 1 .. n}) /\ Len(records) = n /\ DOMAIN records = 1 .. n
  <2> DEFINE A == {RecordOf(i) : i \in 1 .. n}
  <2>1. records \in [1 .. n -> A] /\ DOMAIN records = 1 .. n
    OBVIOUS
  <2> HIDE DEF records, A
  <2>2. records \in Seq(A) /\ Len(records) = n
    BY <2>1, FunctionAsSequence
  <2> QED BY <2>1, <2>2 DEF A
<1>8. ASSUME NEW i \in 1 .. n
      PROVE  LET c == who[i]
             IN  /\ records[i].pk = c.pk /\ records[i].hash = c.hash
                 /\ records[i].prev = LastOf(who, i - 1)
                 /\ records[i].height = coins[i].height
                 /\ Atom(records[i].entropy) = c.entropy
                 /\ Atom(records[i].payload) = c.payload
                 /\ records[i].marker = <<<<"singleton", i>>,
                                          MarkerPuzzle(c.pk, c.hash, LastOf(who, i - 1))>>
  <2>1. PICK c \in Contribution : c = who[i]
    OBVIOUS
  <2>2. records[i] = RecordOf(i) /\ Recorded(RecordOf(i), i, c, LastOf(who, i - 1))
    BY <1>4, <2>1
  <2>3. ListedShape(c, LastOf(who, i - 1))
    BY <1>2, <2>1 DEF ContributionAt
  <2>4. Atom(c.entropy[2]) = c.entropy /\ Atom(c.payload[2]) = c.payload
    BY <2>3, CeremonyPuzzlesAssumption DEF ListedShape, IsAtom
  <2> HIDE DEF records
  <2>5. /\ records[i].pk = c.pk /\ records[i].hash = c.hash
        /\ records[i].prev = LastOf(who, i - 1)
        /\ records[i].height = coins[i].height
        /\ records[i].entropy = c.entropy[2] /\ records[i].payload = c.payload[2]
        /\ records[i].marker = <<<<"singleton", i>>,
                                 MarkerPuzzle(c.pk, c.hash, LastOf(who, i - 1))>>
    BY <2>2 DEF Recorded
  <2> QED BY <2>1, <2>4, <2>5
<1> HIDE DEF records
<1>9. ASSUME NEW i \in 1 .. n
      PROVE  LET r == records[i]
             IN  /\ r.prev = (IF i = 1 THEN VkSeed ELSE records[i - 1].hash)
                 /\ r.height \in params.start .. params.start + params.length - 1
                 /\ \E c \in Contribution :
                      /\ r.pk = c.pk /\ r.hash = c.hash
                      /\ Atom(r.entropy) = c.entropy /\ Atom(r.payload) = c.payload
                 /\ \E c \in created :
                      <<c.parent, c.ph>> = r.marker /\ c.memos[2] = Atom(r.entropy)
  <2>1. records[i].prev = (IF i = 1 THEN VkSeed ELSE records[i - 1].hash)
    <3>1. CASE i = 1
      <4>1. LastOf(who, i - 1) = VkSeed
        BY <3>1 DEF LastOf
      <4> QED BY <1>8, <3>1, <4>1
    <3>2. CASE i # 1
      <4>1. i - 1 \in 1 .. n
        BY <3>2
      <4>2. LastOf(who, i - 1) = who[i - 1].hash
        BY <4>1 DEF LastOf
      <4>3. records[i - 1].hash = who[i - 1].hash
        BY <1>8, <4>1
      <4> QED BY <1>8, <3>2, <4>2, <4>3
    <3> QED BY <3>1, <3>2
  <2>2. records[i].height \in params.start .. params.start + params.length - 1
    BY <1>2, <1>8 DEF ContributionAt
  <2>3. \E c \in Contribution :
          /\ records[i].pk = c.pk /\ records[i].hash = c.hash
          /\ Atom(records[i].entropy) = c.entropy /\ Atom(records[i].payload) = c.payload
    <3>1. who[i] \in Contribution
      OBVIOUS
    <3> QED BY <1>8, <3>1
  <2>4. \E c \in created :
          <<c.parent, c.ph>> = records[i].marker /\ c.memos[2] = Atom(records[i].entropy)
    <3>1. PICK c \in created :
            /\ c.parent = <<"singleton", i>>
            /\ c.ph = MarkerPuzzle(who[i].pk, who[i].hash, LastOf(who, i - 1))
            /\ c.memos[2] = who[i].entropy
      BY <1>2 DEF ContributionAt
    <3> QED BY <1>8, <3>1
  <2> QED BY <2>1, <2>2, <2>3, <2>4
<1>10. state.last = (IF records = <<>> THEN VkSeed ELSE Last(records).hash)
  <2>1. CASE n = 0
    <3>1. records = <<>>
      BY <1>7, <2>1
    <3> QED BY <1>2, <2>1, <3>1 DEF LastOf
  <2>2. CASE n # 0
    <3>1. records # <<>> /\ n \in 1 .. n
      BY <1>7, <2>2
    <3>2. Last(records) = records[n]
      BY <1>7 DEF Last
    <3>3. records[n].hash = who[n].hash
      BY <1>8, <3>1
    <3> QED BY <1>2, <2>2, <3>1, <3>2, <3>3 DEF LastOf
  <2> QED BY <2>1, <2>2
<1>11. Transcribes(records)
  BY <1>1, <1>7, <1>9, <1>10 DEF Transcribes
<1> QED BY <1>6, <1>11

\* The SDK rebuilds a ceremony from the chain exactly if each of its spends is
\* one that the SDK could have made, whatever its parameters are and whatever
\* solutions its spenders chose (read_ceremony_launcher_memo,
\* find_current_singleton, list_contributions_via_chain).
THEOREM CeremonyIsRebuilt == Spec => []ReaderRebuildsTheCeremony
<1>1. IInv => ReaderRebuildsTheCeremony
  <2> SUFFICES ASSUME IInv PROVE ReaderRebuildsTheCeremony
    OBVIOUS
  <2>1. ReadMemo = params
    BY MemoReads DEF IInv
  <2>2. CurrentState = state <=> AllPlain
    BY WalkIsRight
  <2>3. Last(coins).ph = SingletonOuter(CeremonyId, InnerWith(params, StateHash(state)))
    BY DEF IInv, Lineage, Last
  <2> QED BY <2>1, <2>2, <2>3, SealedIsNotListed, OpenIsListed DEF ReaderRebuildsTheCeremony
<1> QED BY <1>1, CeremonyCoinsFollow, PTL

----------------------------------------------------------------------------
(* The bundles the SDK builds.                                              *)

\* A voucher announces its message; only the key's own has this puzzle.
LEMMA VoucherAnnounces ==
  ASSUME NEW c, NEW vk, NEW m, c.ph = VoucherPuzzle(vk, m)
  PROVE  RueAnnounced(c) = VoucherMessage(vk, m)
BY DEF RueAnnounced, VoucherPuzzle, CurriedArg, Curry, Atom

\* When an election can be linked with this key and this size.
LinkDue(vk, m) ==
  \/ state.finalized /\ state.vk = vk /\ m = params.maxVoters
  \/ \E c \in created : c.parent = Outside(vk, m)

\* A voucher that the reader finds is one of the seal's or of somebody's line.
LEMMA FoundIsDue ==
  ASSUME IInv, NEW vk, NEW m, NEW c \in created, c.ph = VoucherPuzzle(vk, m)
  PROVE  IsVoucher(c, vk, m) /\ LinkDue(vk, m)
<1>1. c.ph[2] # MarkerMod
  BY VouchersDiffer
<1>2. PICK wk, o : IsVoucher(c, wk, o)
  BY <1>1 DEF IInv, Vouched
<1>3. wk = vk /\ o = m
  <2>1. VoucherPuzzle(vk, m) = VoucherPuzzle(wk, o)
    BY <1>2 DEF IsVoucher
  <2>2. VoucherPuzzle(vk, m) = VoucherPuzzle(wk, o) => vk = wk /\ m = o
    BY VouchersDiffer
  <2> QED BY <2>1, <2>2
<1> QED BY <1>2, <1>3 DEF IsVoucher, LinkDue

\* Where a link is due, its reader finds an unspent voucher.
LEMMA DueIsFound ==
  ASSUME IInv, NEW vk, NEW m, LinkDue(vk, m)
  PROVE  \E c \in Vouchers(vk, m) : IsVoucher(c, vk, m) /\ LinkAccepted(c, vk, m)
<1>1. PICK c \in created \ spent : IsVoucher(c, vk, m)
  BY DEF IInv, Vouched, LinkDue
<1>2. c.ph = VoucherPuzzle(vk, m) /\ c.memos[1] = Atom(CeremonyId)
  BY <1>1 DEF IsVoucher
<1>3. RueAnnounced(c) = VoucherMessage(vk, m)
  BY <1>2, VoucherAnnounces
<1>4. c \in Vouchers(vk, m) /\ LinkAccepted(c, vk, m)
  BY <1>1, <1>2, <1>3 DEF Vouchers, LinkAccepted
<1> QED BY <1>1, <1>4

\* Elections can be linked to a sealed ceremony, and to a forged voucher.
LEMMA Linkable == IInv => ElectionsCanBeLinked
<1> SUFFICES ASSUME IInv PROVE ElectionsCanBeLinked
  OBVIOUS
<1> SUFFICES ASSUME NEW vk \in Keys, NEW m \in Sizes
             PROVE  /\ (\E voucher \in Vouchers(vk, m) : LinkAccepted(voucher, vk, m))
                         <=> LinkDue(vk, m)
                    /\ (\E voucher \in Vouchers(vk, m) : BindingsLink(voucher, vk))
                         <=> LinkDue(vk, m) /\ m = DefaultMaxVoters
  BY DEF ElectionsCanBeLinked, LinkDue
<1>1. ASSUME NEW c \in Vouchers(vk, m) PROVE IsVoucher(c, vk, m) /\ LinkDue(vk, m)
  BY FoundIsDue DEF Vouchers
<1>2. ASSUME NEW c \in Vouchers(vk, m), BindingsLink(c, vk) PROVE m = DefaultMaxVoters
  <2>1. IsVoucher(c, vk, m)
    BY <1>1
  <2>2. PICK w : w = [c EXCEPT !.ph = VoucherPuzzle(vk, DefaultMaxVoters)]
    OBVIOUS
  <2>3. w.ph = VoucherPuzzle(vk, DefaultMaxVoters) /\ w.parent = c.parent
    BY <2>1, <2>2 DEF IsVoucher
  <2>4. w \in created
    BY <1>2, <2>2 DEF BindingsLink, LinkAccepted
  <2>5. IsVoucher(w, vk, DefaultMaxVoters)
    BY <2>3, <2>4, FoundIsDue
  <2>6. Outside(vk, m)[1] = "outside" /\ Outside(vk, DefaultMaxVoters)[1] = "outside"
    BY DEF Outside
  <2>7. CASE c.parent[1] = "outside"
    <3>1. c.parent = Outside(vk, m) /\ w.parent = Outside(vk, DefaultMaxVoters)
      BY <2>1, <2>3, <2>5, <2>7 DEF IsVoucher
    <3> QED BY <2>3, <3>1 DEF Outside
  <2>8. CASE c.parent[1] # "outside"
    BY <2>1, <2>3, <2>5, <2>6, <2>8 DEF IsVoucher
  <2> QED BY <2>7, <2>8
<1>3. ASSUME LinkDue(vk, m), m = DefaultMaxVoters
      PROVE  \E c \in Vouchers(vk, m) : BindingsLink(c, vk)
  <2>1. PICK c \in Vouchers(vk, m) : IsVoucher(c, vk, m) /\ LinkAccepted(c, vk, m)
    BY <1>3, DueIsFound
  <2>2. c.ph = VoucherPuzzle(vk, DefaultMaxVoters)
    BY <1>3 DEF Vouchers
  <2>3. [c EXCEPT !.ph = VoucherPuzzle(vk, DefaultMaxVoters)] = c
    BY <2>1, <2>2 DEF IsVoucher
  <2>4. BindingsLink(c, vk)
    BY <1>3, <2>1, <2>3 DEF BindingsLink
  <2> QED BY <2>4
<1>4. LinkDue(vk, m) => \E c \in Vouchers(vk, m) : LinkAccepted(c, vk, m)
  BY DueIsFound
<1> QED BY <1>1, <1>2, <1>3, <1>4

\* The reader's lineage proof is the coin's before the first spend only.
LEMMA ProofsName ==
  ASSUME IInv, NEW proof \in {Tip.proof, TrueProof}
  PROVE  proof = TrueProof <=> (proof = Tip.proof => coins[1].solution = NotSpent)
<1> DEFINE n == Len(coins)
<1>1. n \in Nat \ {0}
  BY DEF IInv, Lineage
<1>2. Tip.proof = CurrentProof
  BY DEF Tip
<1>3. CASE n = 1
  <2>1. CurrentProof = TrueProof
    BY <1>3 DEF CurrentProof, TrueProof
  <2>2. coins[1].solution = NotSpent
    BY <1>3 DEF IInv, Lineage
  <2> QED BY <1>2, <2>1, <2>2
<1>4. CASE n # 1
  <2>1. CurrentProof # TrueProof
    <3>1. CurrentProof = <<"lineage", n - 1, Zero32>>
      BY <1>4 DEF CurrentProof
    <3>2. PICK x : TrueProof = <<"lineage", n - 2, x>>
      BY <1>4 DEF TrueProof
    <3>3. n - 1 # n - 2
      BY <1>1
    <3> QED BY <3>1, <3>2, <3>3
  <2>2. ActionSolution(coins[1].solution) # NoNode
    <3>1. \A m \in Nat \ {0} : m # 1 => 1 \in 1 .. m - 1
      OBVIOUS
    <3>2. 1 \in 1 .. Len(coins) - 1
      BY <1>1, <1>4, <3>1
    <3> QED BY <3>2 DEF IInv, Lineage
  <2>3. coins[1].solution # NotSpent
    BY <2>2, SolutionReads
  <2> QED BY <1>2, <2>1, <2>3
<1> QED BY <1>3, <1>4

\* The bindings' state keeps count and last contribution, and has no seal.
LEMMA DropsTheSeal ==
  ASSUME NEW s, HasFields(s), NEW t, t = BindingsState(s)
  PROVE  /\ HasFields(t) /\ t.finalized = FALSE /\ t.count = s.count /\ t.last = s.last
         /\ t.vk = Zero32 /\ t.root = Zero32
<1>1. t.count = s.count /\ t.vk = Zero32 /\ t.root = Zero32 /\ t.last = s.last
  BY DEF HasFields, BindingsState
<1>2. ~t.finalized /\ t.finalized \in BOOLEAN
  BY DEF HasFields, BindingsState
<1>3. HasFields(t)
  BY DEF HasFields, BindingsState
<1> QED BY <1>1, <1>2, <1>3

\* The bindings' parameters are the ceremony's but for the size they assume.
LEMMA BindingsAssume ==
  ASSUME NEW p \in Parameters
  PROVE  LET q == BindingsParams(p)
         IN  /\ q \in Parameters
             /\ q.start = p.start /\ q.length = p.length /\ q.minimum = p.minimum
             /\ q.maxVoters = DefaultMaxVoters
             /\ p.maxVoters = DefaultMaxVoters => q = p
<1>1. DefaultMaxVoters \in 0 .. MaxInt
  BY CeremonyPuzzlesAssumption
<1> QED BY <1>1 DEF BindingsParams, Parameters

\* Two sizes make two roots.
LEMMA RootsTellSizes ==
  ASSUME NEW p \in Parameters, NEW q \in Parameters, ActionsRoot(p) = ActionsRoot(q)
  PROVE  p.maxVoters = q.maxVoters
<1> DEFINE l == ActionLeaves(p)
           k == ActionLeaves(q)
<1>1. l[1] = k[1] /\ l[2] = k[2]
  BY DEF ActionsRoot, ActionRoot2, Pair, Atom
<1>2. /\ {l[1], l[2]} = {ContributeHash(p), FinalizeHash(p)}
      /\ {k[1], k[2]} = {ContributeHash(q), FinalizeHash(q)}
  BY LeavesOfCeremony
<1>3. FinalizeHash(p) # ContributeHash(q)
  BY DEF FinalizeHash, ContributeHash, Curry, Mod
<1> HIDE DEF l, k
<1>4. FinalizeHash(p) = FinalizeHash(q)
  BY <1>1, <1>2, <1>3
<1>5. FinalizeHash(p)[3][4] = UintAtom(p.maxVoters) /\ FinalizeHash(q)[3][4] = UintAtom(q.maxVoters)
  <2> HIDE DEF UintAtom
  <2> QED BY DEF FinalizeHash, Curry
<1>6. UintAtom(p.maxVoters) = UintAtom(q.maxVoters)
  BY <1>4, <1>5
<1>7. p.maxVoters \in 0 .. MaxInt /\ q.maxVoters \in 0 .. MaxInt
  BY ParamsFit
<1> QED BY <1>6, <1>7, AtomsDiffer

\* What a coin's puzzle hash says of its root and its state.
LEMMA PuzzlesTell ==
  ASSUME NEW p, NEW q, NEW s, NEW t,
         SingletonOuter(CeremonyId, InnerWith(p, StateHash(s)))
           = SingletonOuter(CeremonyId, InnerWith(q, RueState(t)))
  PROVE  /\ ActionsRoot(p) = ActionsRoot(q)
         /\ UintAtom(s.count) = ClvmInt(t.count)
         /\ UintAtom(IF s.finalized THEN 1 ELSE 0) = ClvmInt(IF t.finalized THEN 1 ELSE 0)
<1>1. InnerWith(p, StateHash(s)) = InnerWith(q, RueState(t))
  BY CeremonyRecreates
<1>2. CurriedArg(InnerWith(p, StateHash(s)), 2) = ActionsRoot(p)
      /\ CurriedArg(InnerWith(q, RueState(t)), 2) = ActionsRoot(q)
  BY DEF InnerWith, LayerPuzzle, CurriedArg, Curry, Atom
<1>3. InnerWith(p, StateHash(s))[3][3] = StateHash(s)
      /\ InnerWith(q, RueState(t))[3][3] = RueState(t)
  BY DEF InnerWith, LayerPuzzle, Curry
<1>4. /\ StateHash(s)[2] = UintAtom(s.count) /\ RueState(t)[2] = ClvmInt(t.count)
      /\ StateHash(s)[3][3][2] = UintAtom(IF s.finalized THEN 1 ELSE 0)
      /\ RueState(t)[3][3][2] = ClvmInt(IF t.finalized THEN 1 ELSE 0)
  <2> HIDE DEF UintAtom, ClvmInt
  <2> QED BY DEF StateHash, RueState, Pair
<1> QED BY <1>1, <1>2, <1>3, <1>4

\* A bundle built on other parameters or on another state reveals no coin.
LEMMA RevealsTell ==
  ASSUME IInv, NEW q \in Parameters, NEW s, HasFields(s), s.count \in Nat,
         s.finalized \in BOOLEAN, NEW proof, NEW c, NEW funder,
         ContributionAccepted(q, s, proof, c, funder)
  PROVE  /\ params.maxVoters = q.maxVoters /\ s.finalized = state.finalized
         /\ s.count < state.count => FALSE
<1>1. Last(coins).ph = SingletonOuter(CeremonyId, InnerWith(q, RueState(s)))
  BY DEF ContributionAccepted, Reveals, Bundle
<1>2. SingletonOuter(CeremonyId, InnerWith(params, StateHash(state)))
        = SingletonOuter(CeremonyId, InnerWith(q, RueState(s)))
  BY <1>1 DEF IInv, Lineage, Last
<1>3. /\ ActionsRoot(params) = ActionsRoot(q)
      /\ UintAtom(state.count) = ClvmInt(s.count)
      /\ UintAtom(IF state.finalized THEN 1 ELSE 0) = ClvmInt(IF s.finalized THEN 1 ELSE 0)
  BY <1>2, PuzzlesTell
<1>4. params \in Parameters /\ IsState(state) /\ state.finalized \in BOOLEAN
  BY CeremonyPuzzlesAssumption DEF IInv, Deployed, IsState
<1>5. params.maxVoters = q.maxVoters
  BY <1>3, <1>4, RootsTellSizes
<1>6. \A n \in 0 .. MaxInt : ClvmInt(n) = UintAtom(n)
  BY EncodersAgree
<1>7. 0 \in 0 .. MaxInt /\ 1 \in 0 .. MaxInt /\ 0 # 1
  BY ClvmAssumption
<1>8. UintAtom(0) # UintAtom(1) /\ ClvmInt(0) = UintAtom(0) /\ ClvmInt(1) = UintAtom(1)
  BY <1>6, <1>7, AtomsDiffer
<1>9. s.finalized = state.finalized
  BY <1>3, <1>4, <1>8
<1>10. ASSUME s.count < state.count PROVE FALSE
  <2>1. state.count \in 0 .. MaxInt /\ s.count \in 0 .. MaxInt
    BY <1>4, <1>10, ClvmAssumption DEF IsState
  <2>2. UintAtom(state.count) = UintAtom(s.count)
    BY <1>3, <1>6, <2>1
  <2>3. state.count = s.count
    BY <2>1, <2>2, AtomsDiffer
  <2> QED BY <1>10, <2>1, <2>3
<1> QED BY <1>5, <1>9, <1>10

\* When a contribution's bundle is accepted, part by part.
Due(c, funder, proof) ==
  /\ funder >= 2
  /\ proof = Tip.proof => coins[1].solution = NotSpent
  /\ [pk |-> c.pk, msg |-> ContributionMessage(c.hash, state.last)] \in signed
  /\ height \in params.start .. params.start + params.length - 1
  /\ ~state.finalized

LEMMA Acceptable ==
  ASSUME IInv, NEW c \in Contribution, NEW funder \in FunderAmount,
         NEW proof \in {Tip.proof, TrueProof}
  PROVE  ContributionAccepted(params, state, proof, c, funder) <=> Due(c, funder, proof)
<1> DEFINE action == ContributePuzzle(params)
           bundle == Bundle(params, state, proof, action)
<1>1. params \in Parameters /\ height \in Nat /\ IsState(state)
  BY CeremonyPuzzlesAssumption DEF IInv, Deployed
<1>2. Funded(funder, 2) <=> funder >= 2
  BY DEF Funded
<1>3. funder >= 2 => Change(funder, 2) + 2 = funder
  <2>1. funder \in Nat
    BY CeremonyPuzzlesAssumption
  <2> QED BY <2>1 DEF Change
<1>4. Reveals(bundle) <=> proof = TrueProof
  <2>1. /\ bundle.inner = InnerWith(params, RueState(state))
        /\ bundle.leaves = ActionLeaves(params)
        /\ bundle.action = action /\ bundle.proof = proof
    BY DEF Bundle
  <2>2. RueState(state) = StateHash(state)
    BY <1>1, StatesAgree DEF IsState
  <2>3. Last(coins).ph = SingletonOuter(CeremonyId, InnerWith(params, StateHash(state)))
    BY DEF IInv, Lineage, Last
  <2>4. Contains(ActionLeaves(params), action)
    BY <1>1, LeavesOfCeremony, PuzzlesAgree
  <2>5. Runs(InnerWith(params, StateHash(state)), ActionLeaves(params), action)
    BY <1>1, CeremonyRuns
  <2> HIDE DEF bundle, action
  <2> QED BY <2>1, <2>2, <2>3, <2>4, <2>5 DEF Reveals
<1>5. RueContributes(action, state, c, state.last) <=>
        /\ ~state.finalized
        /\ params.start <= height /\ height < params.start + params.length
        /\ [pk |-> c.pk, msg |-> ContributionMessage(c.hash, state.last)] \in signed
  <2>1. IntArg(action, 2) = params.start /\ IntArg(action, 3) = params.length
        /\ CurriedArg(action, 1) = CeremonyId
    BY <1>1, ArgumentsRead
  <2> HIDE DEF action
  <2>2. RueMessage(action, c.hash, state.last) = ContributionMessage(c.hash, state.last)
    BY <2>1 DEF RueMessage, ContributionMessage
  <2> QED BY <2>1, <2>2 DEF RueContributes
<1>6. (params.start <= height /\ height < params.start + params.length)
        <=> height \in params.start .. params.start + params.length - 1
  <2>1. params.start \in Nat /\ params.length \in Nat
    BY <1>1, ParamsFit, ClvmAssumption
  <2> QED BY <1>1, <2>1
<1>7. proof = TrueProof <=> (proof = Tip.proof => coins[1].solution = NotSpent)
  BY ProofsName
<1>8. ContributionAccepted(params, state, proof, c, funder) <=>
        /\ Funded(funder, 2)
        /\ Change(funder, 2) + 2 = funder
        /\ Reveals(bundle)
        /\ RueContributes(action, state, c, state.last)
  BY DEF ContributionAccepted
<1> HIDE DEF bundle, action
<1> QED BY <1>2, <1>3, <1>4, <1>5, <1>6, <1>7, <1>8 DEF Due

\* A reader that is lost builds nothing that the chain accepts.
LEMMA LostBuildsNothing ==
  ASSUME IInv, ~AllPlain, NEW proof, NEW c, NEW funder
  PROVE  ~SdkContribute(proof, c, funder) /\ ~BindingsContribute(proof, c, funder)
<1>1. PICK r : r = CurrentState /\ r = Tip.state
  BY DEF Tip
<1> SUFFICES ASSUME r # Failed
             PROVE  ~SdkContribute(proof, c, funder) /\ ~BindingsContribute(proof, c, funder)
  BY <1>1 DEF SdkContribute, BindingsContribute
<1>2. Behind(r)
  BY <1>1 DEF IInv, ReadState
<1>3. HasFields(r) /\ r.count \in Nat /\ r.finalized \in BOOLEAN
  BY <1>2 DEF Behind
<1>4. params \in Parameters /\ ReadMemo = params /\ state.finalized \in BOOLEAN
  BY MemoReads, CeremonyPuzzlesAssumption DEF IInv, Deployed, IsState
<1>5. ~ContributionAccepted(params, r, proof, c, funder)
  BY <1>2, <1>3, <1>4, RevealsTell DEF Behind
<1>6. PICK q, z : q = BindingsParams(params) /\ z = BindingsState(r)
  OBVIOUS
<1>7. q \in Parameters
  BY <1>4, <1>6, BindingsAssume
<1>8. HasFields(z) /\ z.finalized = FALSE /\ z.count = r.count
  BY <1>3, <1>6, DropsTheSeal
<1>9. ~ContributionAccepted(q, z, proof, c, funder)
  <2> SUFFICES ASSUME ContributionAccepted(q, z, proof, c, funder) PROVE FALSE
    OBVIOUS
  <2>1. z.count \in Nat /\ z.finalized \in BOOLEAN
    BY <1>3, <1>8
  <2>2. z.finalized = state.finalized /\ ~(z.count < state.count)
    BY <1>7, <1>8, <2>1, RevealsTell
  <2>3. state.finalized = FALSE
    BY <1>8, <2>2
  <2>4. r.finalized = FALSE
    BY <1>2, <1>3, <2>3 DEF Behind
  <2> QED BY <1>2, <1>8, <2>2, <2>3, <2>4 DEF Behind
<1> QED BY <1>1, <1>4, <1>5, <1>6, <1>9 DEF SdkContribute, BindingsContribute

\* A reader that is not lost builds what the chain accepts where it is due.
LEMMA ReaderBuilds ==
  ASSUME IInv, AllPlain, NEW c \in Contribution, NEW funder \in FunderAmount,
         NEW proof \in {Tip.proof, TrueProof}
  PROVE  /\ SdkContribute(proof, c, funder) <=> Due(c, funder, proof)
         /\ BindingsContribute(proof, c, funder)
              <=> Due(c, funder, proof) /\ params.maxVoters = DefaultMaxVoters
<1>1. ReadMemo = params /\ Tip.state = state /\ state # Failed
  BY MemoReads, WalkIsRight, StateIsNoFailure DEF IInv, Tip, IsState
<1>2. PICK q, z : q = BindingsParams(params) /\ z = BindingsState(state)
  OBVIOUS
<1>3. params \in Parameters /\ HasFields(state) /\ state.finalized \in BOOLEAN /\ state.count \in Nat
  BY CeremonyPuzzlesAssumption, ClvmAssumption DEF IInv, Deployed, IsState
<1>4. /\ q \in Parameters /\ q.maxVoters = DefaultMaxVoters
      /\ params.maxVoters = DefaultMaxVoters => q = params
  BY <1>2, <1>3, BindingsAssume
<1>5. /\ HasFields(z) /\ z.finalized = FALSE /\ z.count = state.count /\ z.last = state.last
      /\ z.vk = Zero32 /\ z.root = Zero32
  BY <1>2, <1>3, DropsTheSeal
<1>6. BindingsContribute(proof, c, funder) <=> ContributionAccepted(q, z, proof, c, funder)
  BY <1>1, <1>2 DEF BindingsContribute
<1>7. ~state.finalized => z = state
  <2> SUFFICES ASSUME ~state.finalized PROVE z = state
    OBVIOUS
  <2>1. state.vk = Zero32 /\ state.root = Zero32
    BY DEF IInv, Sealed
  <2>2. state.finalized = FALSE
    BY <1>3
  <2> QED BY <1>3, <1>5, <2>1, <2>2, SameState
<1>8. ASSUME ContributionAccepted(q, z, proof, c, funder)
      PROVE  ~state.finalized /\ params.maxVoters = DefaultMaxVoters
  <2>1. z.count \in Nat /\ z.finalized \in BOOLEAN
    BY <1>3, <1>5
  <2>2. params.maxVoters = q.maxVoters /\ z.finalized = state.finalized
    BY <1>4, <1>5, <1>8, <2>1, RevealsTell
  <2> QED BY <1>4, <1>5, <2>2
<1>9. ContributionAccepted(q, z, proof, c, funder)
        <=> /\ ContributionAccepted(params, state, proof, c, funder)
            /\ ~state.finalized /\ params.maxVoters = DefaultMaxVoters
  BY <1>4, <1>7, <1>8
<1>10. SdkContribute(proof, c, funder) <=> ContributionAccepted(params, state, proof, c, funder)
  BY <1>1 DEF SdkContribute
<1>11. ContributionAccepted(params, state, proof, c, funder) <=> Due(c, funder, proof)
  BY Acceptable
<1> QED BY <1>6, <1>9, <1>10, <1>11 DEF Due

\* Contributions are accepted in the cases that the property names.
LEMMA Contributable == IInv => ContributionsAreAccepted
<1> SUFFICES ASSUME IInv, NEW c \in Contribution, NEW funder \in FunderAmount,
                    NEW proof \in {Tip.proof, TrueProof}
             PROVE  /\ SdkContribute(proof, c, funder) <=> AllPlain /\ Due(c, funder, proof)
                    /\ BindingsContribute(proof, c, funder)
                         <=> /\ AllPlain /\ Due(c, funder, proof)
                             /\ params.maxVoters = DefaultMaxVoters
  BY DEF ContributionsAreAccepted, Due
<1>1. CASE AllPlain
  BY <1>1, ReaderBuilds
<1>2. CASE ~AllPlain
  BY <1>2, LostBuildsNothing
<1> QED BY <1>1, <1>2

\* The chain accepts what the SDK builds for a ceremony's coins exactly in the
\* cases that the property names, whatever the parameters are and whatever the
\* other spenders of its coins do (build_contribute_bundle,
\* contribute_to_ceremony_js, find_voucher_coin,
\* build_deploy_bundle_with_ceremony_link).
THEOREM CeremonyAcceptsBundles == Spec => []CeremonyBundlesAreAccepted
<1>1. IInv => CeremonyBundlesAreAccepted
  BY Linkable, Contributable DEF CeremonyBundlesAreAccepted
<1> QED BY <1>1, CeremonyCoinsFollow, PTL
=============================================================================
