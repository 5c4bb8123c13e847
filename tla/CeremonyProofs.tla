--------------------------- MODULE CeremonyProofs ----------------------------
(***************************************************************************)
(* Theorems about Ceremony, for every set of hashes and clients, window,   *)
(* threshold, height and size of a spend.                                  *)
(***************************************************************************)
EXTENDS Ceremony, SequenceTheorems, WellFoundedInduction, TLAPS

------------------------------------------------------------------------------
(* Sequences of contributions *)

\* The contributions of a spend are a sequence, and there is one.
LEMMA BatchIsSequence ==
  ASSUME NEW b \in Batch
  PROVE  b \in Seq(Link) /\ Len(b) \in Nat \ {0} /\ b[1] \in Link /\ b[Len(b)] \in Link
<1>1. PICK n \in 1..MaxActions : b \in [1..n -> Link]
  BY DEF Batch
<1>2. n \in Nat /\ n >= 1
  BY <1>1, CeremonyAssumption
<1>3. b \in Seq(Link)
  BY <1>1, <1>2, SeqDef
<1>4. Len(b) = n
  BY <1>1, <1>2, <1>3
<1> QED BY <1>1, <1>2, <1>3, <1>4

\* The last hash of a sequence is a hash.
LEMMA LastHashType ==
  ASSUME NEW s \in Seq(Link)
  PROVE  LastHash(s) \in Hash
<1>1. CASE s = <<>>
  BY <1>1, CeremonyAssumption DEF LastHash
<1>2. CASE s # <<>>
  <2>1. Len(s) \in 1..Len(s)
    BY <1>2, EmptySeq, LenProperties
  <2>2. s[Len(s)] \in Link
    BY <2>1, ElementOfSeq
  <2> QED BY <1>2, <2>2 DEF LastHash, Link
<1> QED BY <1>1, <1>2

\* A batch that follows a chain makes a longer chain, whose last is its last.
LEMMA LineageOfConcat ==
  ASSUME NEW s \in Seq(Link), ValidLineage(s), NEW b \in Batch,
         \A i \in 1..Len(b) : b[i].prev = IF i = 1 THEN LastHash(s) ELSE b[i - 1].hash
  PROVE  /\ s \o b \in Seq(Link)
         /\ Len(s \o b) = Len(s) + Len(b)
         /\ ValidLineage(s \o b)
         /\ LastHash(s \o b) = b[Len(b)].hash
<1> DEFINE n == Len(s)
           m == Len(b)
           t == s \o b
<1>0. b \in Seq(Link) /\ n \in Nat /\ m \in Nat \ {0}
  BY BatchIsSequence, LenProperties
<1>1. t \in Seq(Link) /\ Len(t) = n + m
      /\ \A i \in 1..(n + m) : t[i] = IF i <= n THEN s[i] ELSE b[i - n]
  BY <1>0, ConcatProperties
<1>2. LastHash(s) = IF n = 0 THEN VkSeed ELSE s[n].hash
  BY <1>0, EmptySeq DEF LastHash
<1>3. ASSUME NEW i \in 1..(n + m)
      PROVE  t[i].prev = IF i = 1 THEN VkSeed ELSE t[i - 1].hash
  <2>1. CASE i <= n
    <3>1. i \in 1..n /\ s[i].prev = IF i = 1 THEN VkSeed ELSE s[i - 1].hash
      BY <1>0, <2>1 DEF ValidLineage
    <3>2. t[i] = s[i] /\ (i # 1 => t[i - 1] = s[i - 1])
      BY <1>0, <1>1, <2>1
    <3> QED BY <3>1, <3>2
  <2>2. CASE i = n + 1
    <3>1. t[i] = b[1] /\ b[1].prev = LastHash(s)
      BY <1>0, <1>1, <2>2
    <3>2. i # 1 => t[i - 1] = s[n] /\ n # 0
      BY <1>0, <1>1, <2>2
    <3>3. i = 1 => n = 0
      BY <1>0, <2>2
    <3> QED BY <1>2, <3>1, <3>2, <3>3
  <2>3. CASE i > n + 1
    <3> DEFINE k == i - n
    <3>1. k \in 1..m /\ k # 1 /\ i # 1 /\ i - 1 \in 1..(n + m) /\ ~(i - 1 <= n)
          /\ ~(i <= n)
      BY <1>0, <2>3
    <3>2. t[i] = b[k] /\ t[i - 1] = b[(i - 1) - n] /\ (i - 1) - n = k - 1
      BY <1>0, <1>1, <3>1
    <3>3. b[k].prev = b[k - 1].hash
      BY <3>1
    <3> QED BY <3>1, <3>2, <3>3
  <2> QED BY <1>0, <2>1, <2>2, <2>3
<1>4. t # <<>> /\ t[Len(t)] = b[m]
  <2>1. n + m \in 1..(n + m) /\ ~(n + m <= n) /\ (n + m) - n = m
    BY <1>0
  <2>2. Len(t) # 0
    BY <1>0, <1>1
  <2> QED BY <1>1, <2>1, <2>2, EmptySeq
<1> QED BY <1>1, <1>3, <1>4 DEF ValidLineage, LastHash

\* One more contribution is the batch of it alone.
LEMMA AppendIsBatch ==
  ASSUME NEW s \in Seq(Link), NEW b \in Batch, Len(b) = 1
  PROVE  s \o b = Append(s, b[1])
<1>1. b \in Seq(Link) /\ Len(s) \in Nat /\ b[1] \in Link
  BY BatchIsSequence, LenProperties
<1>2. s \o b \in Seq(Link) /\ Len(s \o b) = Len(s) + 1
      /\ \A i \in 1..(Len(s) + 1) :
           (s \o b)[i] = IF i <= Len(s) THEN s[i] ELSE b[i - Len(s)]
  BY <1>1, ConcatProperties
<1>3. Append(s, b[1]) \in Seq(Link) /\ Len(Append(s, b[1])) = Len(s) + 1
      /\ (\A i \in 1..Len(s) : Append(s, b[1])[i] = s[i])
      /\ Append(s, b[1])[Len(s) + 1] = b[1]
  BY <1>1, AppendProperties
<1>4. ASSUME NEW i \in 1..(Len(s) + 1) PROVE (s \o b)[i] = Append(s, b[1])[i]
  <2>1. CASE i \in 1..Len(s)
    BY <1>1, <1>2, <1>3, <2>1
  <2>2. CASE i = Len(s) + 1
    <3>1. i - Len(s) = 1 /\ ~(i <= Len(s))
      BY <1>1, <2>2
    <3>2. (s \o b)[i] = b[1]
      BY <1>2, <3>1
    <3>3. Append(s, b[1])[i] = b[1]
      BY <1>3, <2>2
    <3> QED BY <3>2, <3>3
  <2>3. i \in 1..Len(s) \/ i = Len(s) + 1
    BY <1>1
  <2> QED BY <2>1, <2>2, <2>3
<1>5. s \o b = Append(s, b[1])
  BY <1>2, <1>3, <1>4, SeqEqual
<1> QED BY <1>5

------------------------------------------------------------------------------
(* Types *)

\* What readers decode keeps its types.
LEMMA DecodeType ==
  ASSUME TypeOK, NEW r, Decode(r)
  PROVE  records' \in Seq(Link) /\ sealSeen' \in BOOLEAN /\ garbled' \in BOOLEAN
BY AppendProperties DEF TypeOK, Decode

\* A seal keeps the types.
LEMMA FinalizeType ==
  ASSUME TypeOK, NEW k \in Key, NEW r, Finalize(k, r)
  PROVE  TypeOK'
<1>1. state \in CeremonyState /\ state' = [state EXCEPT !.finalized = TRUE, !.vk = k]
  BY DEF TypeOK, Finalize
<1>2. state' \in CeremonyState
  BY <1>1 DEF CeremonyState
<1>3. Decode(r) /\ UNCHANGED <<height, contributions, key>>
  BY DEF Finalize
<1>4. records' \in Seq(Link) /\ sealSeen' \in BOOLEAN /\ garbled' \in BOOLEAN
  BY <1>3, DecodeType
<1> QED BY <1>2, <1>3, <1>4 DEF TypeOK

\* Every step keeps the types.
LEMMA CeremonyTypeStep ==
  ASSUME TypeOK, [Next]_vars PROVE TypeOK'
<1>1. CASE AdvanceHeight
  BY <1>1, CeremonyAssumption DEF AdvanceHeight, TypeOK, read
<1>2. ASSUME NEW b \in Batch, NEW r, Contribute(b, r) PROVE TypeOK'
  <2>1. b \in Seq(Link) /\ Len(b) \in Nat \ {0} /\ b[Len(b)] \in Link
    BY BatchIsSequence
  <2>2. contributions' \in Seq(Link)
    BY <1>2, <2>1, ConcatProperties DEF TypeOK, Contribute
  <2>3. state' \in CeremonyState
    <3>1. state \in CeremonyState /\ state.count + Len(b) \in Nat /\ b[Len(b)].hash \in Hash
      BY <2>1 DEF TypeOK, CeremonyState, Link
    <3>2. state' = [state EXCEPT !.count = state.count + Len(b), !.last = b[Len(b)].hash]
      BY <1>2 DEF Contribute
    <3> QED BY <3>1, <3>2 DEF CeremonyState
  <2>4. Decode(r) /\ UNCHANGED <<height, key>>
    BY <1>2 DEF Contribute
  <2>5. records' \in Seq(Link) /\ sealSeen' \in BOOLEAN /\ garbled' \in BOOLEAN
    BY <2>4, DecodeType
  <2> QED BY <2>2, <2>3, <2>4, <2>5 DEF TypeOK
<1>3. ASSUME NEW c \in Client, DeriveKey(c) PROVE TypeOK'
  BY <1>3, CeremonyAssumption DEF DeriveKey, EnoughRecords, TypeOK, read
<1>4. ASSUME NEW c \in Client, FinalizeOwn(c) PROVE TypeOK'
  <2>1. key[c] \in Key
    BY <1>4 DEF FinalizeOwn, TypeOK, Key
  <2> QED BY <1>4, <2>1, FinalizeType DEF FinalizeOwn
<1>5. ASSUME NEW r, Finalize(ForeignKey, r) PROVE TypeOK'
  BY <1>5, FinalizeType DEF Key
<1>6. CASE UNCHANGED vars
  BY <1>6 DEF vars, read, TypeOK
<1> QED BY <1>1, <1>2, <1>3, <1>4, <1>5, <1>6 DEF Next

\* The variables of a ceremony have their types in every reachable state, and
\* no client holds a key of fewer contributions than the threshold.
THEOREM CeremonyTypeCorrect == Spec => []TypeOK
<1>1. Init => TypeOK
  <2> SUFFICES ASSUME Init PROVE TypeOK
    OBVIOUS
  <2>1. contributions \in Seq(Link) /\ records \in Seq(Link)
    BY EmptySeq DEF Init
  <2>2. state \in CeremonyState
    BY CeremonyAssumption DEF Init, CeremonyState
  <2>3. height \in 0..MaxHeight
    BY CeremonyAssumption DEF Init
  <2> QED BY <2>1, <2>2, <2>3 DEF Init, TypeOK
<1>2. TypeOK /\ [Next]_vars => TypeOK'
  BY CeremonyTypeStep
<1> QED BY <1>1, <1>2, PTL DEF Spec

------------------------------------------------------------------------------
(* One chain of contributions *)

\* Numbers have a smallest.
LEMMA SmallestIndex ==
  ASSUME NEW J \in SUBSET Nat, J # {}
  PROVE  \E j \in J : \A i \in J : j <= i
<1> DEFINE R == {p \in Nat \X Nat : p[1] < p[2]}
<1>1. OpToRel(<, Nat) = R
  BY DEF OpToRel
<1>2. IsWellFoundedOn(R, Nat)
  BY <1>1, NatLessThanWellFounded
<1>3. PICK j \in J : \A i \in J : ~(<<i, j>> \in R)
  BY <1>2, WFMin
<1>4. ASSUME NEW i \in J PROVE j <= i
  <2>1. ~(<<i, j>> \in R)
    BY <1>3
  <2> QED BY <2>1
<1> QED BY <1>4

\* A contribution is its two hashes.
LEMMA SameLink ==
  ASSUME NEW x \in Link, NEW y \in Link, x.hash = y.hash, x.prev = y.prev
  PROVE  x = y
BY DEF Link

\* In a chain of fresh hashes, a contribution that came twice would follow one
\* that came twice before, and the first of them would follow the seed.
LEMMA FreshChainHasNoRepeat ==
  ASSUME NEW s \in Seq(Link), ValidLineage(s), FreshHashes(s)
  PROVE  \A i, j \in 1..Len(s) : s[i] = s[j] => i = j
<1> DEFINE n == Len(s)
           J == {j \in 1..n : \E i \in 1..n : i < j /\ s[i] = s[j]}
<1>0. n \in Nat /\ \A i \in 1..n : s[i] \in Link
  BY LenProperties, ElementOfSeq
<1>1. J = {}
  <2> SUFFICES ASSUME J # {} PROVE FALSE
    OBVIOUS
  <2>1. PICK j \in J : \A k \in J : j <= k
    <3>1. J \in SUBSET Nat
      BY <1>0
    <3> QED BY <3>1, SmallestIndex
  <2>2. PICK i \in 1..n : i < j /\ s[i] = s[j]
    BY <2>1
  <2>3. j \in 1..n /\ j # 1 /\ j - 1 \in 1..n /\ s[j].prev = s[j - 1].hash
    BY <1>0, <2>1, <2>2 DEF ValidLineage
  <2>4. CASE i = 1
    <3>1. s[i].prev = VkSeed
      BY <2>2, <2>4 DEF ValidLineage
    <3> QED BY <2>2, <2>3, <3>1 DEF FreshHashes
  <2>5. CASE i # 1
    <3>1. i - 1 \in 1..n /\ i - 1 < j - 1 /\ s[i].prev = s[i - 1].hash
      BY <1>0, <2>2, <2>3, <2>5 DEF ValidLineage
    <3>2. s[i - 1].hash = s[j - 1].hash
      BY <2>2, <2>3, <3>1
    <3>3. s[i - 1].prev = s[j - 1].prev
      BY <2>3, <3>1, <3>2 DEF FreshHashes
    <3>4. s[i - 1] = s[j - 1]
      <4>1. s[i - 1] \in Link /\ s[j - 1] \in Link
        BY <1>0, <2>3, <3>1
      <4> QED BY <3>2, <3>3, <4>1, SameLink
    <3>5. j - 1 \in J
      BY <2>3, <3>1, <3>4
    <3>6. j <= j - 1
      BY <2>1, <3>5
    <3> QED BY <1>0, <2>3, <3>6
  <2> QED BY <2>4, <2>5
<1>2. ASSUME NEW i \in 1..n, NEW j \in 1..n, s[i] = s[j], i # j PROVE FALSE
  <2>1. i \in J \/ j \in J
    <3>1. CASE i < j
      BY <1>2, <3>1
    <3>2. CASE j < i
      BY <1>2, <3>2
    <3> QED BY <1>0, <1>2, <3>1, <3>2
  <2> QED BY <1>1, <2>1
<1> QED BY <1>2

\* The chain, without what follows from it.
ChainInv ==
  /\ ValidLineage(contributions)
  /\ state.count = Len(contributions)
  /\ state.last = LastHash(contributions)

\* Contributions follow the state's last, which is the chain's; no other step
\* touches either.
LEMMA ChainStep ==
  ASSUME TypeOK, ChainInv, [Next]_vars PROVE ChainInv'
<1>0. contributions \in Seq(Link) /\ state \in CeremonyState
  BY DEF TypeOK
<1>1. ASSUME NEW b \in Batch, NEW r, Contribute(b, r) PROVE ChainInv'
  <2>1. contributions' = contributions \o b
        /\ \A i \in 1..Len(b) :
             b[i].prev = IF i = 1 THEN LastHash(contributions) ELSE b[i - 1].hash
    BY <1>1 DEF Contribute, Follows, ChainInv
  <2>2. Len(contributions \o b) = Len(contributions) + Len(b)
        /\ ValidLineage(contributions \o b)
        /\ LastHash(contributions \o b) = b[Len(b)].hash
    BY <1>0, <2>1, LineageOfConcat DEF ChainInv
  <2>3. state'.count = state.count + Len(b) /\ state'.last = b[Len(b)].hash
    BY <1>0, <1>1 DEF Contribute, CeremonyState
  <2> QED BY <2>1, <2>2, <2>3 DEF ChainInv, ValidLineage, LastHash
<1>2. ASSUME NEW k, NEW r, Finalize(k, r) PROVE ChainInv'
  <2>1. contributions' = contributions /\ state'.count = state.count
        /\ state'.last = state.last
    BY <1>0, <1>2 DEF Finalize, CeremonyState
  <2> QED BY <2>1 DEF ChainInv, ValidLineage, LastHash
<1>3. CASE UNCHANGED <<contributions, state>>
  BY <1>3 DEF ChainInv, ValidLineage, LastHash
<1> QED BY <1>1, <1>2, <1>3
        DEF Next, vars, AdvanceHeight, DeriveKey, FinalizeOwn

LEMMA ChainInit ==
  ASSUME Init PROVE ChainInv
BY EmptySeq DEF Init, ChainInv, ValidLineage, LastHash

\* The accepted contributions always form one chain from the seed to the
\* curried state, in which no signature over a fresh hash counts twice.
THEOREM OneChainTheorem == Spec => []ContributionsFormOneChain
<1>1. Init => ChainInv
  BY ChainInit
<1>2. TypeOK /\ ChainInv /\ [Next]_vars => ChainInv'
  BY ChainStep
<1>3. TypeOK /\ ChainInv => ContributionsFormOneChain
  BY FreshChainHasNoRepeat DEF TypeOK, ChainInv, ContributionsFormOneChain
<1> QED BY <1>1, <1>2, <1>3, CeremonyTypeCorrect, PTL DEF Spec

------------------------------------------------------------------------------
(* The walk *)

\* A seal that the readers take for a contribution, or for nothing.
HiddenSeal == state.finalized /\ ~sealSeen

\* A walk sees at most one contribution of a spend, and none that is not there;
\* with as many as there are, it saw them all.
ReadInv ==
  /\ sealSeen => state.finalized
  /\ ~HiddenSeal =>
       /\ Len(records) <= Len(contributions)
       /\ Len(records) = Len(contributions) => records = contributions

LEMMA SealKeepsReadInv ==
  ASSUME TypeOK, ReadInv, NEW k, NEW r, Finalize(k, r)
  PROVE  ReadInv'
<1>1. state'.finalized /\ contributions' = contributions /\ ~state.finalized
  BY DEF Finalize, NotYetFinalized, TypeOK, CeremonyState
<1>2. ~sealSeen /\ sealSeen' = (r = AsSeal)
      /\ records' = IF r \in Link THEN Append(records, r) ELSE records
  BY <1>1 DEF ReadInv, Finalize, Decode, TypeOK
<1>3. CASE r = AsSeal
  BY <1>1, <1>2, <1>3, CeremonyAssumption DEF ReadInv, HiddenSeal
<1>4. CASE r # AsSeal
  BY <1>1, <1>2, <1>4 DEF ReadInv, HiddenSeal
<1> QED BY <1>3, <1>4

LEMMA ReadStep ==
  ASSUME TypeOK, ReadInv, [Next]_vars PROVE ReadInv'
<1>0. contributions \in Seq(Link) /\ records \in Seq(Link) /\ state \in CeremonyState
      /\ Len(contributions) \in Nat /\ Len(records) \in Nat
  BY LenProperties DEF TypeOK
<1>1. ASSUME NEW b \in Batch, NEW r, Contribute(b, r) PROVE ReadInv'
  <2>1. b \in Seq(Link) /\ Len(b) \in Nat \ {0} /\ b[1] \in Link
    BY BatchIsSequence
  <2>2. ~state.finalized /\ state'.finalized = state.finalized /\ ~sealSeen
        /\ Len(records) <= Len(contributions)
        /\ (Len(records) = Len(contributions) => records = contributions)
    BY <1>0, <1>1 DEF Contribute, CeremonyState, ReadInv, HiddenSeal
  <2>3. contributions' = contributions \o b
        /\ Len(contributions \o b) = Len(contributions) + Len(b)
    BY <1>0, <1>1, <2>1, ConcatProperties DEF Contribute
  <2>4. ~sealSeen'
    BY <1>1, <2>1, <2>2, CeremonyAssumption DEF Contribute, Decode
  <2>5. CASE r = b[1]
    <3>1. records' = Append(records, b[1]) /\ Len(records') = Len(records) + 1
      BY <1>0, <1>1, <2>1, <2>5, AppendProperties DEF Contribute, Decode
    <3>2. ASSUME Len(records') = Len(contributions') PROVE records' = contributions'
      <4>0. \A x, y \in Nat, z \in Nat \ {0} : x <= y /\ x + 1 = y + z => z = 1 /\ x = y
        OBVIOUS
      <4>1. Len(b) = 1 /\ Len(records) = Len(contributions)
        BY <1>0, <2>1, <2>2, <2>3, <3>1, <3>2, <4>0
      <4> QED BY <1>0, <2>2, <2>3, <3>1, <4>1, AppendIsBatch
    <3>3. Len(records') <= Len(contributions')
      BY <1>0, <2>1, <2>2, <2>3, <3>1
    <3> QED BY <2>4, <3>2, <3>3 DEF ReadInv
  <2>6. CASE r = AsNothing
    <3>1. records' = records
      BY <1>1, <2>6, CeremonyAssumption DEF Contribute, Decode
    <3> QED BY <1>0, <2>1, <2>2, <2>3, <2>4, <3>1 DEF ReadInv
  <2> QED BY <1>1, <2>5, <2>6 DEF Contribute
<1>2. ASSUME NEW k, NEW r, Finalize(k, r) PROVE ReadInv'
  BY <1>2, SealKeepsReadInv
<1>3. CASE UNCHANGED <<contributions, state, read>>
  BY <1>3 DEF ReadInv, HiddenSeal, read
<1> QED BY <1>1, <1>2, <1>3
        DEF Next, vars, AdvanceHeight, DeriveKey, FinalizeOwn

\* Whoever walks the spends of a ceremony arrives at the state its unspent coin
\* is curried with exactly if it saw every spend for what it was.
THEOREM WalkTheorem == Spec => []WalkMatchesState
<1>1. Init => ChainInv /\ ReadInv
  <2> SUFFICES ASSUME Init PROVE ChainInv /\ ReadInv
    OBVIOUS
  <2>1. ReadInv
    BY EmptySeq DEF Init, ReadInv, HiddenSeal
  <2> QED BY <2>1, ChainInit
<1>2. TypeOK /\ ChainInv /\ [Next]_vars => ChainInv'
  BY ChainStep
<1>3. TypeOK /\ ReadInv /\ [Next]_vars => ReadInv'
  BY ReadStep
<1>4. TypeOK /\ ChainInv /\ ReadInv => WalkMatchesState
  <2> SUFFICES ASSUME TypeOK, ChainInv, ReadInv PROVE WalkMatchesState
    OBVIOUS
  <2>0. sealSeen \in BOOLEAN /\ state.finalized \in BOOLEAN
        /\ state.count = Len(contributions) /\ state.last = LastHash(contributions)
    BY DEF TypeOK, CeremonyState, ChainInv
  <2>1. ASSUME Tip = [count |-> state.count, last |-> state.last,
                      finalized |-> state.finalized]
        PROVE  records = contributions /\ (state.finalized => sealSeen)
    <3>1. Len(records) = Len(contributions) /\ sealSeen = state.finalized
      BY <2>0, <2>1 DEF Tip
    <3> QED BY <2>0, <3>1 DEF ReadInv, HiddenSeal
  <2>2. ASSUME records = contributions, state.finalized => sealSeen
        PROVE  Tip = [count |-> state.count, last |-> state.last,
                      finalized |-> state.finalized]
    <3>1. sealSeen = state.finalized
      BY <2>0, <2>2 DEF ReadInv
    <3> QED BY <2>0, <2>2, <3>1 DEF Tip
  <2> QED BY <2>1, <2>2 DEF WalkMatchesState
<1> QED BY <1>1, <1>2, <1>3, <1>4, CeremonyTypeCorrect, PTL DEF Spec

------------------------------------------------------------------------------
(* The ceremony is a transcript that is sealed once *)

\* The curried key is there from the seal on.
SealInv == state.finalized <=> state.vk # NoKey

\* A seal keeps that, and is one of the transcript.
LEMMA FinalizeIsSeal ==
  ASSUME TypeOK, ChainInv, SealInv, NEW k \in Key, NEW r, Finalize(k, r)
  PROVE  SealInv' /\ Transcript!Next
<1>1. state'.finalized = TRUE /\ state'.vk = k /\ contributions' = contributions
  BY DEF Finalize, TypeOK, CeremonyState
<1>2. state.vk = NoKey /\ k # NoKey /\ Len(contributions) >= MinParticipants
  BY CeremonyAssumption
  DEF Finalize, NotYetFinalized, ThresholdMet, ChainInv, SealInv, Key
<1> QED BY <1>1, <1>2 DEF SealInv, Transcript!Next, Transcript!Seal

\* Every step keeps the seal, and is a step of the transcript or none.
LEMMA TranscriptStep ==
  ASSUME TypeOK, ChainInv, SealInv, [Next]_vars
  PROVE  SealInv' /\ [Transcript!Next]_Transcript!vars
<1>0. state \in CeremonyState /\ contributions \in Seq(Link) /\ Len(contributions) \in Nat
  BY LenProperties DEF TypeOK
<1>1. ASSUME NEW b \in Batch, NEW r, Contribute(b, r)
      PROVE  SealInv' /\ Transcript!Next
  <2>1. state'.vk = state.vk /\ state'.finalized = state.finalized /\ ~state.finalized
        /\ contributions' = contributions \o b
    BY <1>0, <1>1 DEF Contribute, CeremonyState
  <2>2. b \in Seq(Link) /\ Len(b) \in Nat \ {0}
    BY BatchIsSequence
  <2>3. contributions' \in Seq(Link) /\ Len(contributions) < Len(contributions')
        /\ \A i \in 1..Len(contributions) : contributions'[i] = contributions[i]
    BY <1>0, <2>1, <2>2, ConcatProperties
  <2>4. SubSeq(contributions', 1, Len(contributions)) = contributions
    BY <1>0, <2>3
  <2> QED BY <2>1, <2>3, <2>4 DEF SealInv, Transcript!Next, Transcript!Extend
<1>2. ASSUME NEW c \in Client, FinalizeOwn(c) PROVE SealInv' /\ Transcript!Next
  <2>1. key[c] \in Key
    BY <1>2 DEF FinalizeOwn, TypeOK, Key
  <2> QED BY <1>2, <2>1, FinalizeIsSeal DEF FinalizeOwn
<1>3. ASSUME NEW r, Finalize(ForeignKey, r) PROVE SealInv' /\ Transcript!Next
  BY <1>3, FinalizeIsSeal DEF Key
<1>4. CASE UNCHANGED <<contributions, state>>
  BY <1>4 DEF SealInv, Transcript!vars
<1> QED BY <1>1, <1>2, <1>3, <1>4 DEF Next, vars, AdvanceHeight, DeriveKey

\* Every behaviour of the ceremony extends one transcript and seals it at most
\* once, after enough contributions; then both stay as they are.
THEOREM TranscriptTheorem == Spec => ImplementsTranscript
<1>1. Init => Transcript!Init /\ ChainInv /\ SealInv
  <2> SUFFICES ASSUME Init PROVE Transcript!Init /\ ChainInv /\ SealInv
    OBVIOUS
  <2>1. Transcript!Init /\ SealInv
    BY DEF Init, Transcript!Init, SealInv
  <2> QED BY <2>1, ChainInit
<1>2. TypeOK /\ ChainInv /\ SealInv /\ [Next]_vars
      => SealInv' /\ [Transcript!Next]_Transcript!vars
  BY TranscriptStep
<1>3. TypeOK /\ ChainInv /\ [Next]_vars => ChainInv'
  BY ChainStep
<1> QED BY <1>1, <1>2, <1>3, CeremonyTypeCorrect, PTL
        DEF Spec, ImplementsTranscript, Transcript!Spec
==============================================================================
