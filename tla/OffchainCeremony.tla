--------------------------- MODULE OffchainCeremony ---------------------------
(***************************************************************************)
(* The rounds of the trusted setup run between people and their files, off *)
(* the chain (src/sdk/src/ceremony): a coordinator hands out its current   *)
(* transcript, participants mix entropy in on machines of their own, and   *)
(* contributions come back late, more than once, on forks of each other,   *)
(* or altered, by accident or by who wrote them.  The coordinator is       *)
(* re-created from a file whenever it stopped, as every call of the        *)
(* command line does, and writes that file in place.                       *)
(***************************************************************************)
EXTENDS Naturals, Sequences, FiniteSets

CONSTANTS Participant,
          MaxDraws,      \* bound: contributions a participant computes
          MaxDamages,    \* bound: fields of files that get altered
          Flip,          \* stands for bytes that no contribution produced
          NoTranscript, Torn

ASSUME CeremonyAssumption ==
  /\ MaxDraws \in Nat /\ MaxDamages \in Nat
  /\ Flip \notin Participant \X (1..MaxDraws)

VARIABLES coord,         \* the coordinator in memory
          disk,          \* its transcript file; Torn while it is not whole
          saved,         \* the bytes of the last transcript written in full
          overridden,    \* the operator passed over that file
          out,           \* contribution files, in any number of copies
          made,          \* those among them as contribute wrote them
          drawn,         \* contributions computed so far, by participant
          damages

vars == <<coord, disk, saved, overridden, out, made, drawn, damages>>
fileVars == <<out, made, drawn, damages>>

Entropy == (Participant \X (1..MaxDraws)) \cup {Flip}

\* contribute appends a digest of all before it and of fresh entropy, so a
\* raw transcript determines the entropies it was mixed from, in order.  Its
\* SHA-256 determines it: a hash is modelled by what was hashed.
Raw == Seq(Entropy)
Attestation == [prev : Raw, hash : Raw]
Transcript == [raw : Raw, atts : Seq(Attestation)]
Genesis == [raw |-> <<>>, atts |-> <<>>]

ASSUME NoTranscriptAssumption ==
  NoTranscript \notin Transcript /\ Torn \notin Transcript /\ Torn # NoTranscript

New == [t |-> NoTranscript, finalized |-> FALSE, keys |-> {}, saving |-> FALSE]

\* The link of a hash chain that starts at the genesis transcript.
PrevHash(t, i) == IF i = 1 THEN Genesis.raw ELSE t.atts[i - 1].hash
\* Fault: a file is taken as it is.
Verify_fault(t) == TRUE
Verify(t) == \A i \in 1..Len(t.atts) : t.atts[i].prev = PrevHash(t, i)

Mix(t, e) ==
  LET raw == Append(t.raw, e) IN
  [raw |-> raw, atts |-> Append(t.atts, [prev |-> t.raw, hash |-> raw])]

TypeOK ==
  /\ coord \in [t : Transcript \cup {NoTranscript}, finalized : BOOLEAN,
                keys : SUBSET Raw, saving : BOOLEAN]
  /\ disk \in Transcript \cup {NoTranscript, Torn}
  /\ saved \in Raw
  /\ overridden \in BOOLEAN
  /\ out \in SUBSET Transcript
  /\ made \in SUBSET out
  /\ drawn \in [Participant -> 0..MaxDraws]
  /\ damages \in 0..MaxDamages

Init ==
  /\ coord = New
  /\ disk = NoTranscript
  /\ saved = Genesis.raw
  /\ overridden = FALSE
  /\ out = {}
  /\ made = {}
  /\ drawn = [p \in Participant |-> 0]
  /\ damages = 0

------------------------------------------------------------------------------
(* The coordinator.                                                          *)

Started == coord.t # NoTranscript
Ready == Started /\ ~coord.saving
OnDisk == {disk} \ {NoTranscript, Torn}

\* init: where a file exists, its --overwrite replaces it when it saves.
Start ==
  /\ ~Started
  /\ coord' = [coord EXCEPT !.t = Genesis]
  /\ overridden' = (overridden \/ disk # NoTranscript)
  /\ UNCHANGED <<disk, saved, fileVars>>

\* The operator names the file to resume from: the last one, or another.
\* Fault: a restart begins a new ceremony.
Resume_fault ==
  /\ ~Started
  /\ \E t \in OnDisk \cup out :
       /\ Verify(t)
       /\ coord' = [coord EXCEPT !.t = Genesis]
       /\ overridden' = (overridden \/ t \notin OnDisk)
  /\ UNCHANGED <<disk, saved, fileVars>>
Resume ==
  /\ ~Started
  /\ \E t \in OnDisk \cup out :
       /\ Verify(t)
       /\ coord' = [coord EXCEPT !.t = t]
       /\ overridden' = (overridden \/ t \notin OnDisk)
  /\ UNCHANGED <<disk, saved, fileVars>>

\* What accept_contribution checks of contribution x on transcript t.  The
\* attestations before the last are not compared with those of t.
\* Fault: the contribution may be to another transcript of this length.
Acceptable_fault(t, x) ==
  /\ Len(x.atts) = Len(t.atts) + 1
  /\ x.atts[Len(x.atts)].hash = x.raw
  /\ Verify(x)
Acceptable(t, x) ==
  /\ Len(x.atts) = Len(t.atts) + 1
  /\ x.atts[Len(x.atts)].prev = t.raw
  /\ x.atts[Len(x.atts)].hash = x.raw
  /\ Verify(x)

\* Fault: a finalized ceremony goes on.
AcceptContribution_fault ==
  /\ Ready
  /\ \E x \in out :
       /\ Acceptable(coord.t, x)
       /\ coord' = [coord EXCEPT !.t = x]
  /\ UNCHANGED <<disk, saved, overridden, fileVars>>
AcceptContribution ==
  /\ ~coord.finalized
  /\ Ready
  /\ \E x \in out :
       /\ Acceptable(coord.t, x)
       /\ coord' = [coord EXCEPT !.t = x]
  /\ UNCHANGED <<disk, saved, overridden, fileVars>>

\* extract_keys draws the keys from a generator seeded by the raw bytes.
KeysOf(t) == t.raw

Finalize ==
  /\ Ready
  /\ coord.t.atts # <<>>
  /\ coord' = [coord EXCEPT !.finalized = TRUE,
                            !.keys = @ \cup {KeysOf(coord.t)}]
  /\ UNCHANGED <<disk, saved, overridden, fileVars>>

\* save_json truncates the file and then writes it: a coordinator that stops in
\* between leaves one that no command can read.
BeginSave ==
  /\ Ready
  /\ coord' = [coord EXCEPT !.saving = TRUE]
  /\ disk' = Torn
  /\ UNCHANGED <<saved, overridden, fileVars>>

EndSave ==
  /\ coord.saving
  /\ coord' = [coord EXCEPT !.saving = FALSE]
  /\ disk' = coord.t
  /\ saved' = coord.t.raw
  /\ UNCHANGED <<overridden, fileVars>>

\* The process ends, after a command or in the middle of one; what was
\* accepted and not saved is gone, and so is the finalized flag.
Stop ==
  /\ Started
  /\ coord' = New
  /\ UNCHANGED <<disk, saved, overridden, fileVars>>

------------------------------------------------------------------------------
(* Participants and files.                                                   *)

\* A participant reads any transcript it can get, also one another
\* participant made and nobody accepted yet, and checks nothing of it.
Contribute(p) ==
  /\ drawn[p] < MaxDraws
  /\ \E t \in ({coord.t} \ {NoTranscript}) \cup OnDisk \cup out :
       LET x == Mix(t, <<p, drawn[p] + 1>>)
       IN  out' = out \cup {x} /\ made' = made \cup {x}
  /\ drawn' = [drawn EXCEPT ![p] = @ + 1]
  /\ UNCHANGED <<coord, disk, saved, overridden, damages>>

\* A field of a file comes to hold other bytes, or those of another file.
Altered(t, r) ==
  {[t EXCEPT !.raw = r]}
    \cup {[t EXCEPT !.atts[i].prev = r] : i \in 1..Len(t.atts)}
    \cup {[t EXCEPT !.atts[i].hash = r] : i \in 1..Len(t.atts)}

SomeRaw == {x.raw : x \in out \cup OnDisk} \cup {Genesis.raw, <<Flip>>}

DamageContribution ==
  /\ damages < MaxDamages
  /\ \E x \in out, r \in SomeRaw :
       \E y \in Altered(x, r) : out' = out \cup {y}
  /\ damages' = damages + 1
  /\ UNCHANGED <<coord, disk, saved, overridden, made, drawn>>

DamageDisk ==
  /\ damages < MaxDamages
  /\ \E t \in OnDisk, r \in SomeRaw : disk' \in Altered(t, r)
  /\ damages' = damages + 1
  /\ UNCHANGED <<coord, saved, overridden, out, made, drawn>>

Next ==
  \/ Start \/ Resume \/ AcceptContribution \/ Finalize
  \/ BeginSave \/ EndSave \/ Stop
  \/ \E p \in Participant : Contribute(p)
  \/ DamageContribution \/ DamageDisk

Spec == Init /\ [][Next]_vars

------------------------------------------------------------------------------
(* Properties.                                                               *)

Extends(s, r) == Len(r) <= Len(s) /\ \A i \in 1..Len(r) : s[i] = r[i]

\* The transcript replays: its raw bytes were mixed round by round, and every
\* attestation names the bytes before and after its own round.
Replays(t) ==
  /\ Len(t.raw) = Len(t.atts)
  /\ \A i \in 1..Len(t.atts) :
       /\ t.atts[i].prev = SubSeq(t.raw, 1, i - 1)
       /\ t.atts[i].hash = SubSeq(t.raw, 1, i)

\* What accept_contribution takes adds to the entropies mixed in before and
\* replaces none, on forks and copies, if the file is as contribute wrote it,
\* whatever was done to those it was made from; and if not, then still if one
\* field in all was altered.  Two that fit each other can replace every round.
AcceptedRoundsOnlyExtend ==
  [][Started /\ Started' /\ (coord'.t \in made \/ damages <= 1)
       => Extends(coord'.t.raw, coord.t.raw)]_vars

\* One altered field, in whatever file, gets into no transcript that it takes,
\* also when contributions were made on that file: what is taken can be replayed
\* by anyone from the genesis on.
AcceptedRoundsReplay ==
  [][Started /\ Started' /\ coord'.t # coord.t /\ damages <= 1
       => Replays(coord'.t)]_vars

\* The keys a coordinator hands out are the keys of one transcript, however
\* often it finalizes and whatever is delivered in between.
OneKeyPerCoordinator == \A r, s \in coord.keys : r = s

\* No restart and no delivery loses a round that was saved, as long as the
\* operator keeps to the coordinator's file: where a stop tore that file, none
\* starts from it (save_json, init, accept).
SavedRoundsAreKept ==
  damages = 0 /\ ~overridden /\ Started => Extends(coord.t.raw, saved)

==============================================================================
