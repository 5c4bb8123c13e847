------------------------- MODULE OffchainCeremonyProofs -------------------------
(***************************************************************************)
(* Proofs about OffchainCeremony, for any participants, any number of      *)
(* contributions, any number of altered fields, and every delivery order,  *)
(* fork, copy and restart.                                                 *)
(***************************************************************************)
EXTENDS OffchainCeremony, TLAPS

\* A finalized coordinator has the keys of the transcript it still holds.
KeyInv ==
  /\ coord.saving => Started
  /\ coord.keys # {} => coord.finalized
  /\ coord.finalized => Started /\ coord.keys = {coord.t.raw}

\* While no file was altered, every transcript anywhere replays.
ReplayInv ==
  damages = 0 =>
    /\ coord.t # NoTranscript => Replays(coord.t)
    /\ disk \notin {NoTranscript, Torn} => Replays(disk)
    /\ \A x \in out : Replays(x)

\* While the operator keeps to an unaltered file, it holds what was saved, and
\* so does the coordinator that was started from it.
KeptInv ==
  damages = 0 /\ ~overridden =>
    /\ disk \notin {NoTranscript, Torn} => disk.raw = saved
    /\ disk = NoTranscript => saved = <<>>
    /\ Started => Extends(coord.t.raw, saved)

\* A file that contribute wrote adds one entropy to what it was made from.
Mixed(x) ==
  \E r \in Raw, e \in Entropy :
    /\ x.raw = Append(r, e)
    /\ x.atts[Len(x.atts)].prev = r

MadeInv == \A x \in made : Mixed(x)

OffchainInv == TypeOK /\ KeyInv /\ ReplayInv /\ KeptInv /\ MadeInv

\* Mixing keeps a transcript well formed and replayable.
LEMMA MixTypes ==
  ASSUME NEW t \in Transcript, NEW e \in Entropy
  PROVE  Mix(t, e) \in Transcript
  BY DEF Mix, Transcript, Raw, Attestation

LEMMA MixReplays ==
  ASSUME NEW t \in Transcript, NEW e \in Entropy, Replays(t)
  PROVE  Replays(Mix(t, e))
  <1> DEFINE r == Append(t.raw, e)
             n == Len(t.raw)
  <1>1. t.raw \in Seq(Entropy) /\ n \in Nat /\ Len(t.atts) = n
        /\ t.atts \in Seq(Attestation)
    BY DEF Transcript, Raw, Replays
  <1>2. r \in Seq(Entropy) /\ Len(r) = n + 1
        /\ \A i \in 1..n : r[i] = t.raw[i]
    BY <1>1
  <1>3. \A i \in 0..n : SubSeq(r, 1, i) = SubSeq(t.raw, 1, i)
    BY <1>1, <1>2
  <1>4. SubSeq(r, 1, n) = t.raw /\ SubSeq(r, 1, n + 1) = r
    BY <1>1, <1>2
  <1>5. ASSUME NEW i \in 1..(n + 1)
        PROVE  /\ Mix(t, e).atts[i].prev = SubSeq(r, 1, i - 1)
               /\ Mix(t, e).atts[i].hash = SubSeq(r, 1, i)
    <2>1. CASE i = n + 1
      <3>1. Mix(t, e).atts[i] = [prev |-> t.raw, hash |-> r]
        BY <2>1, <1>1 DEF Mix
      <3> QED
        BY <3>1, <2>1, <1>1, <1>4
    <2>2. CASE i \in 1..n
      <3>1. Mix(t, e).atts[i] = t.atts[i]
        BY <2>2, <1>1 DEF Mix
      <3>2. i \in 0..n /\ i - 1 \in 0..n
        BY <2>2, <1>1
      <3>3. /\ t.atts[i].prev = SubSeq(t.raw, 1, i - 1)
            /\ t.atts[i].hash = SubSeq(t.raw, 1, i)
        BY <2>2, <1>1 DEF Replays
      <3> QED
        BY <3>1, <3>2, <3>3, <1>3
    <2> QED
      BY <2>1, <2>2, <1>1
  <1>6. Mix(t, e).raw = r /\ Len(Mix(t, e).atts) = n + 1
    BY <1>1 DEF Mix
  <1> QED
    BY <1>2, <1>5, <1>6 DEF Replays

\* A contribution that replays and links to a transcript extends it.
LEMMA AcceptedExtends ==
  ASSUME NEW t \in Transcript, NEW x \in Transcript,
         Acceptable(t, x), Replays(x)
  PROVE  Extends(x.raw, t.raw)
  <1> DEFINE n == Len(t.atts)
  <1>1. /\ n \in Nat /\ Len(x.raw) = n + 1
        /\ t.raw \in Seq(Entropy) /\ x.raw \in Seq(Entropy)
    BY DEF Transcript, Raw, Replays, Acceptable
  <1>2. t.raw = SubSeq(x.raw, 1, n)
    <2>1. Len(x.atts) = n + 1 /\ n + 1 \in 1..Len(x.atts)
      BY <1>1 DEF Acceptable
    <2>2. x.atts[n + 1].prev = SubSeq(x.raw, 1, (n + 1) - 1)
      BY <2>1 DEF Replays
    <2>3. (n + 1) - 1 = n
      BY <1>1
    <2> QED
      BY <2>1, <2>2, <2>3 DEF Acceptable
  <1> QED
    BY <1>1, <1>2 DEF Extends

LEMMA ExtendsTrans ==
  ASSUME NEW r \in Raw, NEW s \in Raw, NEW u \in Raw,
         Extends(u, s), Extends(s, r)
  PROVE  Extends(u, r)
  BY DEF Extends, Raw

LEMMA ExtendsRefl ==
  ASSUME NEW r \in Raw
  PROVE  Extends(r, r)
  BY DEF Extends, Raw

LEMMA MixIsMixed ==
  ASSUME NEW t \in Transcript, NEW e \in Entropy
  PROVE  Mixed(Mix(t, e))
  <1> DEFINE n == Len(t.atts)
             a == [prev |-> t.raw, hash |-> Append(t.raw, e)]
  <1>1. n \in Nat /\ t.atts \in Seq(Attestation) /\ t.raw \in Raw
    BY DEF Transcript
  <1>2. Mix(t, e).raw = Append(t.raw, e) /\ Mix(t, e).atts = Append(t.atts, a)
    BY DEF Mix
  <1>3. Len(Append(t.atts, a)) = n + 1 /\ Append(t.atts, a)[n + 1] = a
    BY <1>1
  <1> QED
    BY <1>1, <1>2, <1>3 DEF Mixed

\* So a coordinator that takes it keeps what it had, whatever else it says.
LEMMA MadeExtends ==
  ASSUME NEW t \in Transcript, NEW x, Mixed(x), Acceptable(t, x)
  PROVE  Extends(x.raw, t.raw)
  <1>1. PICK e \in Entropy : x.raw = Append(t.raw, e)
    BY DEF Mixed, Acceptable
  <1>2. t.raw \in Seq(Entropy)
    BY DEF Transcript, Raw
  <1> QED
    BY <1>1, <1>2 DEF Extends

THEOREM OffchainInit == Init => OffchainInv
  <1> SUFFICES ASSUME Init PROVE OffchainInv
    OBVIOUS
  <1>1. /\ coord = [t |-> NoTranscript, finalized |-> FALSE, keys |-> {},
                    saving |-> FALSE]
        /\ disk = NoTranscript /\ saved = <<>> /\ overridden = FALSE
        /\ out = {} /\ made = {} /\ drawn = [p \in Participant |-> 0]
        /\ damages = 0
    BY DEF Init, New, Genesis
  <1>2. TypeOK
    <2>1. coord \in [t : Transcript \cup {NoTranscript}, finalized : BOOLEAN,
                     keys : SUBSET Raw, saving : BOOLEAN]
      BY <1>1
    <2>2. saved \in Raw /\ out \in SUBSET Transcript /\ made \in SUBSET out
      BY <1>1 DEF Raw
    <2>3. drawn \in [Participant -> 0..MaxDraws] /\ damages \in 0..MaxDamages
      BY <1>1, CeremonyAssumption
    <2>4. disk \in Transcript \cup {NoTranscript, Torn} /\ overridden \in BOOLEAN
      BY <1>1
    <2> QED
      BY <2>1, <2>2, <2>3, <2>4 DEF TypeOK
  <1>f. /\ coord.t = NoTranscript /\ coord.finalized = FALSE
        /\ coord.keys = {} /\ coord.saving = FALSE
    BY <1>1
  <1>3. KeyInv /\ ReplayInv /\ MadeInv
    BY <1>1, <1>f DEF KeyInv, ReplayInv, MadeInv, Started
  <1>4. KeptInv
    BY <1>1, <1>f DEF KeptInv, Started
  <1> QED
    BY <1>2, <1>3, <1>4 DEF OffchainInv

\* Altering a field of a file keeps it well formed.
LEMMA AlteredTypes ==
  ASSUME NEW t \in Transcript, NEW r \in Raw, NEW y \in Altered(t, r)
  PROVE  y \in Transcript
  <1>1. /\ t.raw \in Raw /\ t.atts \in Seq(Attestation)
        /\ t = [raw |-> t.raw, atts |-> t.atts]
    BY DEF Transcript
  <1>2. CASE y = [t EXCEPT !.raw = r]
    BY <1>1, <1>2 DEF Transcript
  <1>3. ASSUME NEW i \in 1..Len(t.atts),
               y = [t EXCEPT !.atts[i].prev = r]
                 \/ y = [t EXCEPT !.atts[i].hash = r]
        PROVE  y \in Transcript
    <2>1. t.atts[i] \in Attestation
      BY <1>1, <1>3
    <2>2. PICK a \in Attestation : y = [t EXCEPT !.atts[i] = a]
      <3>1. [t.atts[i] EXCEPT !.prev = r] \in Attestation
            /\ [t.atts[i] EXCEPT !.hash = r] \in Attestation
        BY <2>1 DEF Attestation
      <3> QED
        BY <1>3, <3>1, <1>1
    <2>3. [t.atts EXCEPT ![i] = a] \in Seq(Attestation)
      BY <1>1
    <2>4. y = [raw |-> t.raw, atts |-> [t.atts EXCEPT ![i] = a]]
      BY <2>2, <1>1
    <2> QED
      BY <2>3, <2>4, <1>1 DEF Transcript
  <1> QED
    BY <1>2, <1>3 DEF Altered

LEMMA SomeRawTypes ==
  ASSUME TypeOK
  PROVE  SomeRaw \subseteq Raw
  <1>1. \A x \in out \cup OnDisk : x.raw \in Raw
    BY DEF TypeOK, OnDisk, Transcript
  <1>2. <<>> \in Raw /\ <<Flip>> \in Raw
    BY DEF Raw, Entropy
  <1> QED
    BY <1>1, <1>2 DEF SomeRaw, Genesis

LEMMA GenesisReplays == Genesis \in Transcript /\ Replays(Genesis)
  BY DEF Genesis, Transcript, Raw, Replays

THEOREM OffchainStep == OffchainInv /\ [Next]_vars => OffchainInv'
  <1> SUFFICES ASSUME OffchainInv, [Next]_vars PROVE OffchainInv'
    OBVIOUS
  <1>inv. TypeOK /\ KeyInv /\ ReplayInv /\ KeptInv /\ MadeInv
    BY DEF OffchainInv
  <1>rec. /\ coord = [t |-> coord.t, finalized |-> coord.finalized,
                      keys |-> coord.keys, saving |-> coord.saving]
          /\ coord.t \in Transcript \cup {NoTranscript}
          /\ coord.finalized \in BOOLEAN /\ coord.keys \in SUBSET Raw
          /\ coord.saving \in BOOLEAN
          /\ disk \in Transcript \cup {NoTranscript, Torn}
          /\ saved \in Raw /\ overridden \in BOOLEAN
          /\ out \in SUBSET Transcript
    BY <1>inv DEF TypeOK
  <1>none. NoTranscript \notin Transcript /\ Torn \notin Transcript
           /\ Torn # NoTranscript
    BY NoTranscriptAssumption
  <1>1. CASE UNCHANGED vars
    BY <1>1, <1>inv
    DEF OffchainInv, TypeOK, KeyInv, ReplayInv, KeptInv, MadeInv, vars, Started
  <1>2. CASE Start
    <2>1. coord' = [t |-> Genesis, finalized |-> coord.finalized,
                    keys |-> coord.keys, saving |-> coord.saving]
      BY <1>2, <1>rec DEF Start
    <2>2. /\ overridden' = (overridden \/ disk # NoTranscript)
          /\ UNCHANGED <<disk, saved, out, made, drawn, damages>>
      BY <1>2 DEF Start, fileVars
    <2>3. TypeOK'
      BY <2>1, <2>2, <1>inv, <1>rec, GenesisReplays DEF TypeOK
    <2>4. ~coord.finalized
      BY <1>2, <1>inv, <1>rec DEF KeyInv, Start, Started
    <2>5. KeyInv' /\ ReplayInv' /\ MadeInv'
      BY <2>1, <2>2, <2>4, <1>inv, <1>none, GenesisReplays
      DEF KeyInv, ReplayInv, MadeInv, Started
    <2>6. KeptInv'
      <3> SUFFICES ASSUME damages = 0, ~overridden, disk = NoTranscript
                   PROVE  saved = <<>> /\ Extends(Genesis.raw, saved)
        BY <2>1, <2>2, <1>none DEF KeptInv
      <3>1. saved = <<>>
        BY <1>inv DEF KeptInv
      <3> QED
        BY <3>1 DEF Genesis, Extends
    <2> QED
      BY <2>3, <2>5, <2>6 DEF OffchainInv
  <1>3. CASE Resume
    <2>1. PICK t \in OnDisk \cup out :
            /\ coord' = [coord EXCEPT !.t = t]
            /\ overridden' = (overridden \/ t \notin OnDisk)
      BY <1>3 DEF Resume
    <2>2. coord' = [t |-> t, finalized |-> coord.finalized,
                    keys |-> coord.keys, saving |-> coord.saving]
      BY <2>1, <1>rec
    <2>3. t \in Transcript /\ t.raw \in Raw
      BY <2>1, <1>rec DEF OnDisk, Transcript
    <2>4. UNCHANGED <<disk, saved, out, made, drawn, damages>>
      BY <1>3 DEF Resume, fileVars
    <2>5. TypeOK'
      BY <2>1, <2>2, <2>3, <2>4, <1>inv, <1>rec DEF TypeOK
    <2>6. ~coord.finalized
      BY <1>3, <1>inv, <1>rec DEF KeyInv, Resume, Started
    <2>7. damages = 0 => Replays(t)
      BY <2>1, <1>inv DEF ReplayInv, OnDisk
    <2>8. KeyInv' /\ ReplayInv' /\ MadeInv'
      BY <2>2, <2>3, <2>4, <2>6, <2>7, <1>inv, <1>none
      DEF KeyInv, ReplayInv, MadeInv, Started
    <2>9. KeptInv'
      <3>1. ASSUME damages = 0, ~overridden, t \in OnDisk
            PROVE  Extends(t.raw, saved)
        <4>1. t = disk /\ disk \notin {NoTranscript, Torn}
          BY <3>1 DEF OnDisk
        <4>2. t.raw = saved
          BY <3>1, <4>1, <1>inv DEF KeptInv
        <4> QED
          BY <4>2, <2>3, ExtendsRefl
      <3> QED
        BY <2>1, <2>2, <2>4, <3>1, <1>inv DEF KeptInv
    <2> QED
      BY <2>5, <2>8, <2>9 DEF OffchainInv
  <1>4. CASE AcceptContribution
    <2>1. PICK x \in out : Acceptable(coord.t, x)
                           /\ coord' = [coord EXCEPT !.t = x]
      BY <1>4 DEF AcceptContribution
    <2>2. coord' = [t |-> x, finalized |-> coord.finalized,
                    keys |-> coord.keys, saving |-> coord.saving]
      BY <2>1, <1>rec
    <2>3. /\ x \in Transcript /\ coord.t \in Transcript /\ ~coord.finalized
          /\ Started
          /\ UNCHANGED <<disk, saved, overridden, out, made, drawn, damages>>
      BY <1>4, <1>rec DEF AcceptContribution, Ready, Started, fileVars
    <2>4. TypeOK'
      BY <2>2, <2>3, <1>inv, <1>rec DEF TypeOK
    <2>5. KeyInv'
      BY <2>2, <2>3, <1>inv, <1>rec, <1>none DEF KeyInv, Started
    <2>6. ReplayInv' /\ MadeInv'
      BY <2>2, <2>3, <1>inv DEF ReplayInv, MadeInv
    <2>7. KeptInv'
      <3>1. ASSUME damages = 0, ~overridden
            PROVE  Extends(x.raw, saved)
        <4>1. Extends(x.raw, coord.t.raw)
          BY <2>1, <2>3, <3>1, <1>inv, AcceptedExtends DEF ReplayInv
        <4>2. Extends(coord.t.raw, saved)
          BY <2>3, <3>1, <1>inv DEF KeptInv
        <4>3. x.raw \in Raw /\ coord.t.raw \in Raw
          BY <2>3 DEF Transcript
        <4> QED
          BY <4>1, <4>2, <4>3, <1>rec, ExtendsTrans
      <3> QED
        BY <2>2, <2>3, <3>1, <1>inv DEF KeptInv
    <2> QED
      BY <2>4, <2>5, <2>6, <2>7 DEF OffchainInv
  <1>5. CASE Finalize
    <2>1. coord' = [t |-> coord.t, finalized |-> TRUE,
                    keys |-> coord.keys \cup {coord.t.raw},
                    saving |-> coord.saving]
      BY <1>5, <1>rec DEF Finalize, KeysOf
    <2>2. /\ Started /\ coord.t.raw \in Raw
          /\ UNCHANGED <<disk, saved, overridden, out, made, drawn, damages>>
      BY <1>5, <1>rec DEF Finalize, Ready, Started, Transcript, fileVars
    <2>3. TypeOK'
      BY <2>1, <2>2, <1>inv, <1>rec DEF TypeOK
    <2>4. KeyInv'
      BY <2>1, <2>2, <1>inv DEF KeyInv, Started
    <2>5. ReplayInv' /\ KeptInv' /\ MadeInv'
      BY <2>1, <2>2, <1>inv DEF ReplayInv, KeptInv, MadeInv, Started
    <2> QED
      BY <2>3, <2>4, <2>5 DEF OffchainInv
  <1>6. CASE BeginSave
    <2>1. /\ coord' = [t |-> coord.t, finalized |-> coord.finalized,
                       keys |-> coord.keys, saving |-> TRUE]
          /\ disk' = Torn
          /\ UNCHANGED <<saved, overridden, out, made, drawn, damages>>
      BY <1>6, <1>rec DEF BeginSave, fileVars
    <2>started. Started
      BY <1>6 DEF BeginSave, Ready
    <2>2. TypeOK'
      BY <2>1, <1>inv, <1>rec DEF TypeOK
    <2>3. KeyInv' /\ ReplayInv' /\ KeptInv' /\ MadeInv'
      BY <2>1, <2>started, <1>inv, <1>none
      DEF KeyInv, ReplayInv, KeptInv, MadeInv, Started
    <2> QED
      BY <2>2, <2>3 DEF OffchainInv
  <1>7. CASE EndSave
    <2>1. /\ coord' = [t |-> coord.t, finalized |-> coord.finalized,
                       keys |-> coord.keys, saving |-> FALSE]
          /\ disk' = coord.t /\ saved' = coord.t.raw
          /\ UNCHANGED <<overridden, out, made, drawn, damages>>
      BY <1>7, <1>rec DEF EndSave, fileVars
    <2>2. coord.t \in Transcript /\ coord.t.raw \in Raw
      BY <1>7, <1>inv, <1>rec DEF EndSave, KeyInv, Started, Transcript
    <2>3. TypeOK'
      BY <2>1, <2>2, <1>inv, <1>rec DEF TypeOK
    <2>4. KeyInv' /\ ReplayInv' /\ MadeInv'
      BY <2>1, <2>2, <1>inv, <1>none DEF KeyInv, ReplayInv, MadeInv, Started
    <2>5. KeptInv'
      BY <2>1, <2>2, <1>none, ExtendsRefl DEF KeptInv
    <2> QED
      BY <2>3, <2>4, <2>5 DEF OffchainInv
  <1>8. CASE Stop
    BY <1>8, <1>inv
    DEF Stop, New, fileVars, OffchainInv, TypeOK, KeyInv, ReplayInv, KeptInv,
        MadeInv, Started
  <1>9. ASSUME NEW p \in Participant, Contribute(p) PROVE OffchainInv'
    <2> DEFINE e == <<p, drawn[p] + 1>>
    <2>1. PICK t \in ({coord.t} \ {NoTranscript}) \cup OnDisk \cup out :
            out' = out \cup {Mix(t, e)} /\ made' = made \cup {Mix(t, e)}
      BY <1>9 DEF Contribute
    <2>2. drawn[p] + 1 \in 1..MaxDraws /\ drawn[p] \in 0..MaxDraws
      BY <1>9, <1>inv, CeremonyAssumption DEF Contribute, TypeOK
    <2>3. t \in Transcript /\ e \in Entropy
      BY <2>1, <2>2, <1>rec DEF Entropy, OnDisk
    <2>4. drawn' = [drawn EXCEPT ![p] = drawn[p] + 1]
          /\ UNCHANGED <<coord, disk, saved, overridden, damages>>
      BY <1>9 DEF Contribute
    <2>5. TypeOK'
      BY <2>1, <2>2, <2>3, <2>4, <1>inv, MixTypes DEF TypeOK
    <2>6. ReplayInv'
      <3> SUFFICES ASSUME damages = 0
                   PROVE  /\ coord.t # NoTranscript => Replays(coord.t)
                          /\ disk \notin {NoTranscript, Torn} => Replays(disk)
                          /\ \A x \in out' : Replays(x)
        BY <2>4 DEF ReplayInv
      <3>1. Replays(t)
        BY <2>1, <1>inv DEF ReplayInv, OnDisk
      <3>2. Replays(Mix(t, e))
        BY <3>1, <2>3, MixReplays
      <3> QED
        BY <3>2, <2>1, <1>inv DEF ReplayInv
    <2>7. MadeInv'
      <3>1. Mixed(Mix(t, e))
        BY <2>3, MixIsMixed
      <3> QED
        BY <3>1, <2>1, <1>inv DEF MadeInv
    <2>8. KeyInv' /\ KeptInv'
      BY <2>4, <1>inv DEF KeyInv, KeptInv, Started
    <2> QED
      BY <2>5, <2>6, <2>7, <2>8 DEF OffchainInv
  <1>10. CASE DamageContribution
    <2>1. PICK x \in out, r \in SomeRaw :
            \E y \in Altered(x, r) : out' = out \cup {y}
      BY <1>10 DEF DamageContribution
    <2>2. PICK y \in Altered(x, r) : out' = out \cup {y}
      BY <2>1
    <2>3. y \in Transcript
      BY <2>1, <2>2, <1>inv, <1>rec, SomeRawTypes, AlteredTypes
    <2>4. damages' = damages + 1 /\ damages < MaxDamages
          /\ UNCHANGED <<coord, disk, saved, overridden, made, drawn>>
      BY <1>10 DEF DamageContribution
    <2>5. TypeOK' /\ damages' # 0
      BY <2>2, <2>3, <2>4, <1>inv, CeremonyAssumption DEF TypeOK
    <2>6. KeyInv' /\ ReplayInv' /\ KeptInv' /\ MadeInv'
      BY <2>4, <2>5, <1>inv DEF KeyInv, ReplayInv, KeptInv, MadeInv, Started
    <2> QED
      BY <2>5, <2>6 DEF OffchainInv
  <1>11. CASE DamageDisk
    <2>1. PICK t \in OnDisk, r \in SomeRaw : disk' \in Altered(t, r)
      BY <1>11 DEF DamageDisk
    <2>2. disk' \in Transcript
      <3>1. t \in Transcript
        BY <2>1, <1>rec DEF OnDisk
      <3> QED
        BY <3>1, <2>1, <1>inv, SomeRawTypes, AlteredTypes
    <2>3. damages' = damages + 1 /\ damages < MaxDamages
          /\ UNCHANGED <<coord, saved, overridden, out, made, drawn>>
      BY <1>11 DEF DamageDisk
    <2>4. TypeOK' /\ damages' # 0
      BY <2>2, <2>3, <1>inv, CeremonyAssumption DEF TypeOK
    <2>5. KeyInv' /\ ReplayInv' /\ KeptInv' /\ MadeInv'
      BY <2>3, <2>4, <1>inv DEF KeyInv, ReplayInv, KeptInv, MadeInv, Started
    <2> QED
      BY <2>4, <2>5 DEF OffchainInv
  <1> QED
    BY <1>1, <1>2, <1>3, <1>4, <1>5, <1>6, <1>7, <1>8, <1>9, <1>10, <1>11
    DEF Next

\* Whatever is delivered, damaged or restarted, the state is well formed.
THEOREM OffchainTypeCorrect == Spec => []TypeOK
  <1>1. OffchainInv => TypeOK
    BY DEF OffchainInv
  <1> QED
    BY <1>1, OffchainInit, OffchainStep, PTL DEF Spec

\* A coordinator never hands out the keys of two transcripts.
THEOREM OneKeyTheorem == Spec => []OneKeyPerCoordinator
  <1>1. OffchainInv => OneKeyPerCoordinator
    BY DEF OffchainInv, KeyInv, OneKeyPerCoordinator
  <1> QED
    BY <1>1, OffchainInit, OffchainStep, PTL DEF Spec

\* While no file was altered and the operator keeps to the coordinator's own,
\* no restart, also in the middle of a save, and no delivery loses a saved round.
THEOREM SavedRoundsTheorem == Spec => []SavedRoundsAreKept
  <1>1. OffchainInv => SavedRoundsAreKept
    BY DEF OffchainInv, KeptInv, SavedRoundsAreKept
  <1> QED
    BY <1>1, OffchainInit, OffchainStep, PTL DEF Spec

\* The steps of a coordinator that has a transcript and keeps one.
LEMMA RunningSteps ==
  ASSUME OffchainInv, [Next]_vars, Started, Started'
  PROVE  \/ coord'.t = coord.t
         \/ /\ coord'.t \in out
            /\ Acceptable(coord.t, coord'.t)
  <1>rec. coord = [t |-> coord.t, finalized |-> coord.finalized,
                   keys |-> coord.keys, saving |-> coord.saving]
    BY DEF OffchainInv, TypeOK
  <1>1. CASE AcceptContribution
    BY <1>1, <1>rec DEF AcceptContribution
  <1>2. CASE Finalize
    BY <1>2, <1>rec DEF Finalize
  <1>3. CASE Stop
    BY <1>3 DEF Stop, New, Started
  <1>4. CASE UNCHANGED coord
    BY <1>4
  <1>5. CASE BeginSave \/ EndSave
    BY <1>5, <1>rec DEF BeginSave, EndSave
  <1> QED
    BY <1>1, <1>2, <1>3, <1>4, <1>5
    DEF Next, vars, Start, Resume, Contribute, DamageContribution, DamageDisk

------------------------------------------------------------------------------
(* One altered field.                                                        *)

\* What accept_contribution checks of a file by itself: its hashes are chained,
\* up to its raw bytes.
Consistent(t) == Verify(t) /\ t.raw = PrevHash(t, Len(t.atts) + 1)

\* A file that passes for a transcript is one.
Sound(t) == Consistent(t) => Replays(t)

Files == ({coord.t, disk} \ {NoTranscript, Torn}) \cup out

\* One altered field, and whatever is mixed into the file after it, cannot make
\* a file that passes and does not replay.
SoundInv == damages <= 1 => \A t \in Files : Sound(t)

\* The hashes of a replayable transcript tell its raw bytes before each round.
LEMMA ReplayedHashes ==
  ASSUME NEW t \in Transcript, Replays(t)
  PROVE  /\ \A i \in 1..Len(t.atts) : PrevHash(t, i) = SubSeq(t.raw, 1, i - 1)
         /\ t.raw = PrevHash(t, Len(t.atts) + 1)
  <1> DEFINE n == Len(t.atts)
  <1>1. n \in Nat /\ Len(t.raw) = n /\ t.raw \in Seq(Entropy)
    BY DEF Transcript, Raw, Replays
  <1>2. SubSeq(t.raw, 1, 0) = <<>> /\ SubSeq(t.raw, 1, n) = t.raw
    BY <1>1
  <1>3. ASSUME NEW i \in 1..n + 1 PROVE PrevHash(t, i) = SubSeq(t.raw, 1, i - 1)
    <2>1. CASE i = 1
      BY <2>1, <1>2 DEF PrevHash, Genesis
    <2>2. CASE i # 1
      <3>1. i - 1 \in 1..n
        BY <2>2, <1>1
      <3> QED
        BY <2>2, <3>1 DEF PrevHash, Replays
    <2> QED
      BY <2>1, <2>2
  <1>4. n + 1 \in 1..n + 1 /\ (n + 1) - 1 = n
    BY <1>1
  <1> QED
    BY <1>1, <1>2, <1>3, <1>4

\* A file chained by its hashes, with all of these or all of the bytes they are
\* chained to as in the rounds of its raw bytes, replays.
LEMMA ChainedReplays ==
  ASSUME NEW y \in Transcript, Consistent(y), Len(y.raw) = Len(y.atts),
         \/ \A i \in 1..Len(y.atts) : y.atts[i].hash = SubSeq(y.raw, 1, i)
         \/ \A i \in 1..Len(y.atts) : y.atts[i].prev = SubSeq(y.raw, 1, i - 1)
  PROVE  Replays(y)
  <1> DEFINE n == Len(y.atts)
  <1>1. n \in Nat /\ Len(y.raw) = n /\ y.raw \in Seq(Entropy)
    BY DEF Transcript, Raw
  <1>2. SubSeq(y.raw, 1, 0) = <<>> /\ SubSeq(y.raw, 1, n) = y.raw
    BY <1>1
  <1>3. \A i \in 1..n : y.atts[i].prev = PrevHash(y, i)
    BY DEF Consistent, Verify
  <1>4. CASE \A i \in 1..n : y.atts[i].hash = SubSeq(y.raw, 1, i)
    <2>1. ASSUME NEW i \in 1..n PROVE PrevHash(y, i) = SubSeq(y.raw, 1, i - 1)
      <3>1. CASE i = 1
        BY <3>1, <1>2 DEF PrevHash, Genesis
      <3>2. CASE i # 1
        <4>1. i - 1 \in 1..n
          BY <3>2, <1>1
        <4> QED
          BY <3>2, <4>1, <1>4 DEF PrevHash
      <3> QED
        BY <3>1, <3>2
    <2> QED
      BY <1>1, <1>3, <1>4, <2>1 DEF Replays
  <1>5. CASE \A i \in 1..n : y.atts[i].prev = SubSeq(y.raw, 1, i - 1)
    <2>1. ASSUME NEW i \in 1..n PROVE y.atts[i].hash = SubSeq(y.raw, 1, i)
      <3>1. PrevHash(y, i + 1) = y.atts[i].hash
        <4>1. i + 1 # 1 /\ (i + 1) - 1 = i
          BY <1>1
        <4> QED
          BY <4>1 DEF PrevHash
      <3>2. CASE i = n
        BY <3>1, <3>2, <1>2 DEF Consistent
      <3>3. CASE i # n
        <4>1. i + 1 \in 1..n /\ (i + 1) - 1 = i
          BY <3>3, <1>1
        <4>2. y.atts[i + 1].prev = PrevHash(y, i + 1)
          BY <4>1, <1>3
        <4>3. y.atts[i + 1].prev = SubSeq(y.raw, 1, (i + 1) - 1)
          BY <4>1, <1>5
        <4> QED
          BY <3>1, <4>1, <4>2, <4>3
      <3> QED
        BY <3>2, <3>3
    <2> QED
      BY <1>1, <1>5, <2>1 DEF Replays
  <1> QED
    BY <1>4, <1>5

\* One altered field makes no file that passes and does not replay: the hashes
\* and the bytes they are chained to are written twice.
LEMMA AlteredIsSound ==
  ASSUME NEW t \in Transcript, Replays(t), NEW r \in Raw, NEW y \in Altered(t, r)
  PROVE  Sound(y)
  <1> SUFFICES ASSUME Consistent(y) PROVE Replays(y)
    BY DEF Sound
  <1>1. /\ t.raw \in Raw /\ t.atts \in Seq(Attestation)
        /\ t = [raw |-> t.raw, atts |-> t.atts]
    BY DEF Transcript
  <1>2. y \in Transcript
    BY AlteredTypes
  <1>3. CASE y = [t EXCEPT !.raw = r]
    <2>1. y = [raw |-> r, atts |-> t.atts]
      BY <1>1, <1>3
    <2>2. y.raw = r /\ y.atts = t.atts
      BY <2>1
    <2>3. PrevHash(y, Len(y.atts) + 1) = PrevHash(t, Len(t.atts) + 1)
      BY <2>2 DEF PrevHash
    <2>4. r = t.raw
      BY <2>2, <2>3, ReplayedHashes DEF Consistent
    <2> QED
      BY <2>2, <2>4 DEF Replays
  <1>4. ASSUME NEW i \in 1..Len(t.atts),
               y = [t EXCEPT !.atts[i].prev = r]
                 \/ y = [t EXCEPT !.atts[i].hash = r]
        PROVE  Replays(y)
    <2>1. PICK a : /\ y = [t EXCEPT !.atts[i] = a]
                   /\ a.hash = t.atts[i].hash \/ a.prev = t.atts[i].prev
      <3>1. t.atts[i] \in Attestation
        BY <1>1, <1>4
      <3>2. /\ [t.atts[i] EXCEPT !.prev = r].hash = t.atts[i].hash
            /\ [t.atts[i] EXCEPT !.hash = r].prev = t.atts[i].prev
        BY <3>1 DEF Attestation
      <3>3. CASE y = [t EXCEPT !.atts[i].prev = r]
        BY <1>1, <1>4, <3>2, <3>3
      <3>4. CASE y = [t EXCEPT !.atts[i].hash = r]
        BY <1>1, <1>4, <3>2, <3>4
      <3> QED
        BY <1>4, <3>3, <3>4
    <2>2. y = [raw |-> t.raw, atts |-> [t.atts EXCEPT ![i] = a]]
      BY <2>1, <1>1
    <2>3. y.raw = t.raw /\ y.atts = [t.atts EXCEPT ![i] = a]
      BY <2>2
    <2>4. /\ Len(y.atts) = Len(t.atts)
          /\ \A j \in 1..Len(t.atts) : y.atts[j] = IF j = i THEN a ELSE t.atts[j]
      BY <2>3, <1>1
    <2>5. Len(y.raw) = Len(y.atts)
      BY <2>3, <2>4 DEF Replays
    <2>6. CASE a.hash = t.atts[i].hash
      <3>1. \A j \in 1..Len(y.atts) : y.atts[j].hash = SubSeq(y.raw, 1, j)
        BY <2>3, <2>4, <2>6 DEF Replays
      <3> QED
        BY <1>2, <2>5, <3>1, ChainedReplays
    <2>7. CASE a.prev = t.atts[i].prev
      <3>1. \A j \in 1..Len(y.atts) : y.atts[j].prev = SubSeq(y.raw, 1, j - 1)
        BY <2>3, <2>4, <2>7 DEF Replays
      <3> QED
        BY <1>2, <2>5, <3>1, ChainedReplays
    <2> QED
      BY <2>1, <2>6, <2>7
  <1> QED
    BY <1>3, <1>4 DEF Altered

\* A round mixed into a file passes only if the file does.
LEMMA MixIsSound ==
  ASSUME NEW t \in Transcript, NEW e \in Entropy, Sound(t)
  PROVE  Sound(Mix(t, e))
  <1> DEFINE x == Mix(t, e)
             n == Len(t.atts)
             a == [prev |-> t.raw, hash |-> Append(t.raw, e)]
  <1> SUFFICES ASSUME Consistent(x) PROVE Replays(x)
    BY DEF Sound
  <1>1. n \in Nat /\ t.atts \in Seq(Attestation)
    BY DEF Transcript
  <1>2. x.atts = Append(t.atts, a)
    BY DEF Mix
  <1>3. /\ Len(x.atts) = n + 1 /\ x.atts[n + 1] = a
        /\ \A i \in 1..n : x.atts[i] = t.atts[i]
    BY <1>1, <1>2
  <1> HIDE DEF x
  <1>4. ASSUME NEW i \in 1..n + 1 PROVE PrevHash(x, i) = PrevHash(t, i)
    <2>1. i # 1 => i - 1 \in 1..n
      BY <1>1
    <2> QED
      BY <1>3, <2>1 DEF PrevHash
  <1>5. \A i \in 1..n + 1 : x.atts[i].prev = PrevHash(x, i)
    BY <1>3 DEF Consistent, Verify
  <1>6. Verify(t)
    <2>1. ASSUME NEW i \in 1..n PROVE t.atts[i].prev = PrevHash(t, i)
      <3>1. i \in 1..n + 1
        BY <1>1
      <3> QED
        BY <1>3, <1>4, <1>5, <3>1
    <2> QED
      BY <2>1 DEF Verify
  <1>7. t.raw = PrevHash(t, n + 1)
    <2>1. n + 1 \in 1..n + 1
      BY <1>1
    <2> QED
      BY <1>3, <1>4, <1>5, <2>1
  <1>8. Replays(t)
    BY <1>6, <1>7 DEF Sound, Consistent
  <1> QED
    BY <1>8, MixReplays DEF x

\* So every step keeps all files sound.
LEMMA SoundStep == OffchainInv /\ SoundInv /\ [Next]_vars => SoundInv'
  <1> SUFFICES ASSUME OffchainInv, SoundInv, [Next]_vars, damages' <= 1
               PROVE  \A t \in Files' : Sound(t)
    BY DEF SoundInv
  <1>1. /\ coord = [t |-> coord.t, finalized |-> coord.finalized, keys |-> coord.keys,
                   saving |-> coord.saving]
        /\ coord.t \in Transcript \cup {NoTranscript}
        /\ disk \in Transcript \cup {NoTranscript, Torn}
        /\ NoTranscript \notin Transcript /\ Torn \notin Transcript
        /\ out \in SUBSET Transcript
        /\ drawn \in [Participant -> 0..MaxDraws]
        /\ damages \in Nat
    BY CeremonyAssumption, NoTranscriptAssumption DEF OffchainInv, TypeOK
  <1>2. Files \subseteq Transcript
    BY <1>1 DEF Files
  <1>3. ASSUME damages' = damages, Files' \subseteq Files \cup {Genesis}
        PROVE  \A t \in Files' : Sound(t)
    <2>1. Sound(Genesis)
      BY GenesisReplays DEF Sound
    <2> QED
      BY <1>3, <2>1 DEF SoundInv
  <1>4. ASSUME damages' = damages + 1, NEW x \in Files, NEW r \in SomeRaw,
               NEW y \in Altered(x, r), Files' \subseteq Files \cup {y}
        PROVE  \A t \in Files' : Sound(t)
    <2>1. damages = 0
      BY <1>1, <1>4
    <2>2. Replays(x) /\ r \in Raw
      BY <1>4, <2>1, SomeRawTypes DEF OffchainInv, ReplayInv, Files
    <2>3. Sound(y)
      BY <1>2, <1>4, <2>2, AlteredIsSound
    <2> QED
      BY <1>4, <2>1, <2>3 DEF SoundInv
  <1>5. CASE UNCHANGED vars
    BY <1>3, <1>5 DEF vars, Files
  <1>6. CASE Start
    BY <1>1, <1>3, <1>6 DEF Start, fileVars, Files
  <1>7. CASE Resume
    BY <1>1, <1>3, <1>7 DEF Resume, fileVars, OnDisk, Files
  <1>8. CASE AcceptContribution
    BY <1>1, <1>3, <1>8 DEF AcceptContribution, fileVars, Files
  <1>9. CASE Finalize
    BY <1>1, <1>3, <1>9 DEF Finalize, fileVars, Files
  <1>10. CASE BeginSave \/ EndSave
    BY <1>1, <1>3, <1>10 DEF BeginSave, EndSave, fileVars, Files
  <1>11. CASE Stop
    BY <1>1, <1>3, <1>11 DEF Stop, New, fileVars, Files
  <1>12. ASSUME NEW p \in Participant, Contribute(p) PROVE \A t \in Files' : Sound(t)
    <2> DEFINE e == <<p, drawn[p] + 1>>
    <2>1. PICK t \in Files : out' = out \cup {Mix(t, e)}
      BY <1>1, <1>12 DEF Contribute, OnDisk, Files
    <2>2. e \in Entropy /\ UNCHANGED <<coord, disk, damages>>
      BY <1>1, <1>12, CeremonyAssumption DEF Contribute, Entropy
    <2>3. Sound(t) /\ t \in Transcript
      BY <1>2, <2>1, <2>2 DEF SoundInv
    <2>4. Sound(Mix(t, e))
      BY <2>2, <2>3, MixIsSound
    <2> QED
      BY <2>1, <2>2, <2>4 DEF SoundInv, Files
  <1>13. CASE DamageContribution
    <2>1. PICK x \in out, r \in SomeRaw : \E y \in Altered(x, r) : out' = out \cup {y}
      BY <1>13 DEF DamageContribution
    <2>2. PICK y \in Altered(x, r) : out' = out \cup {y}
      BY <2>1
    <2>3. damages' = damages + 1 /\ UNCHANGED <<coord, disk>>
      BY <1>13 DEF DamageContribution
    <2> QED
      BY <1>4, <2>1, <2>2, <2>3 DEF Files
  <1>14. CASE DamageDisk
    <2>1. PICK x \in OnDisk, r \in SomeRaw : disk' \in Altered(x, r)
      BY <1>14 DEF DamageDisk
    <2>2. damages' = damages + 1 /\ UNCHANGED <<coord, out>>
      BY <1>14 DEF DamageDisk
    <2> QED
      BY <1>4, <2>1, <2>2 DEF Files, OnDisk
  <1> QED
    BY <1>5, <1>6, <1>7, <1>8, <1>9, <1>10, <1>11, <1>12, <1>13, <1>14 DEF Next

LEMMA SoundInit == Init => SoundInv
  BY DEF Init, SoundInv, Files, New

\* What the coordinator accepts passes by itself, and so replays.
LEMMA AcceptedReplays ==
  ASSUME OffchainInv, SoundInv, damages <= 1, NEW t, NEW x \in out, Acceptable(t, x),
         Len(t.atts) \in Nat
  PROVE  Replays(x)
  <1>1. Len(x.atts) = Len(t.atts) + 1
    BY DEF Acceptable
  <1>2. Len(x.atts) + 1 # 1 /\ (Len(x.atts) + 1) - 1 = Len(x.atts)
    BY <1>1
  <1>3. PrevHash(x, Len(x.atts) + 1) = x.atts[Len(x.atts)].hash
    BY <1>2 DEF PrevHash
  <1>4. Consistent(x)
    BY <1>3 DEF Consistent, Acceptable
  <1> QED
    BY <1>4 DEF SoundInv, Files, Sound

\* What contribute wrote and accept_contribution takes only ever extends the
\* transcript, however many fields of files were altered; and so does what it
\* takes at all as long as one was, ...
THEOREM ExtendTheorem == Spec => AcceptedRoundsOnlyExtend
  <1>1. OffchainInv /\ SoundInv /\ [Next]_vars
          => [Started /\ Started' /\ (coord'.t \in made \/ damages <= 1)
                => Extends(coord'.t.raw, coord.t.raw)]_vars
    <2> SUFFICES ASSUME OffchainInv, SoundInv, [Next]_vars, Started, Started',
                        coord'.t \in made \/ damages <= 1
                 PROVE  Extends(coord'.t.raw, coord.t.raw)
      OBVIOUS
    <2>1. coord.t \in Transcript /\ out \in SUBSET Transcript
      BY DEF OffchainInv, TypeOK, Started
    <2>2. CASE coord'.t = coord.t
      BY <2>1, <2>2, ExtendsRefl DEF Transcript
    <2>3. CASE coord'.t \in out /\ Acceptable(coord.t, coord'.t)
      <3>1. Len(coord.t.atts) \in Nat
        BY <2>1 DEF Transcript
      <3>2. CASE damages <= 1
        BY <2>1, <2>3, <3>1, <3>2, AcceptedReplays, AcceptedExtends
      <3>3. CASE coord'.t \in made
        BY <2>1, <2>3, <3>3, MadeExtends DEF OffchainInv, MadeInv
      <3> QED
        BY <3>2, <3>3
    <2> QED
      BY <2>2, <2>3, RunningSteps
  <1> QED
    BY <1>1, OffchainInit, OffchainStep, SoundInit, SoundStep, PTL
    DEF Spec, AcceptedRoundsOnlyExtend

\* ... and then what is taken replays from the genesis.
THEOREM ReplayTheorem == Spec => AcceptedRoundsReplay
  <1>1. OffchainInv /\ SoundInv /\ [Next]_vars
          => [Started /\ Started' /\ coord'.t # coord.t /\ damages <= 1
                => Replays(coord'.t)]_vars
    <2> SUFFICES ASSUME OffchainInv, SoundInv, [Next]_vars, Started, Started',
                        coord'.t # coord.t, damages <= 1
                 PROVE  Replays(coord'.t)
      OBVIOUS
    <2>1. coord'.t \in out /\ Acceptable(coord.t, coord'.t)
      BY RunningSteps
    <2>2. Len(coord.t.atts) \in Nat
      BY DEF OffchainInv, TypeOK, Started, Transcript
    <2> QED
      BY <2>1, <2>2, AcceptedReplays
  <1> QED
    BY <1>1, OffchainInit, OffchainStep, SoundInit, SoundStep, PTL
    DEF Spec, AcceptedRoundsReplay

==============================================================================
