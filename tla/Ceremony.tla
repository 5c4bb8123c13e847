------------------------------- MODULE Ceremony ------------------------------
(***************************************************************************)
(* The trusted-setup ceremony: the Ceremony Singleton that accumulates     *)
(* contributions and is then sealed, and the clients that read the chain,  *)
(* contribute, derive the key and finalize.                                *)
(*                                                                         *)
(* A contribution is a pair of hashes, its own and its predecessor's.  The *)
(* puzzle asks for a signature over the pair and for nothing else: a hash  *)
(* need not be new, may be its own predecessor, and may be the seed; any   *)
(* key may sign, and a signature serves every spend that the puzzle lets   *)
(* pass.  One spend may run several contributions, and its solution may be *)
(* one that the SDK's readers do not decode, or decode as something else.  *)
(*                                                                         *)
(* A verification key is a function of the records it was derived from and *)
(* is represented by them; so is the Merkle root over their marker coins,  *)
(* which is left out.  ForeignKey is any other key.                        *)
(***************************************************************************)
EXTENDS Naturals, Sequences

CONSTANTS
  Hash, VkSeed,      \* 32-byte strings, and the predecessor of the first
  Client,            \* who derives keys and finalizes
  Start, Length,     \* START_BLOCK_HEIGHT and CEREMONY_LENGTH_BLOCKS
  MinParticipants,
  MaxHeight,         \* bound on the chain height
  MaxActions,        \* bound on the contributions of one spend
  MaxContributions,  \* bound on those of the ceremony
  AsSeal, AsNothing, \* how a reader may decode a spend, but for a contribution
  ForeignKey, NoKey

Link == [hash : Hash, prev : Hash]

ASSUME CeremonyAssumption ==
  /\ VkSeed \in Hash
  /\ AsSeal \notin Link /\ AsNothing \notin Link /\ AsSeal # AsNothing
  /\ NoKey \notin Seq(Link) \cup {ForeignKey}
  /\ Start \in Nat /\ Length \in Nat
  /\ MinParticipants \in Nat
  /\ MaxHeight \in Nat /\ MaxActions \in Nat /\ MaxContributions \in Nat

VARIABLES
  height,        \* what the height conditions read
  contributions, \* those the singleton accepted, oldest first
  state,         \* CeremonyState curried into the unspent singleton
  records,       \* what the readers decode as contributions, one per spend
  sealSeen,      \* whether they decode a spend as the seal
  garbled,       \* whether they fail on some spend
  key            \* key[c]: the key client c derived from the chain, or NoKey

read == <<records, sealSeen, garbled>>
vars == <<height, contributions, state, read, key>>

Key == Seq(Link) \cup {ForeignKey}

CeremonyState == [count : Nat, last : Hash, finalized : BOOLEAN, vk : Key \cup {NoKey}]

------------------------------------------------------------------------------
(* Readers of the chain *)

LastHash(s) == IF s = <<>> THEN VkSeed ELSE s[Len(s)].hash

\* s links up from the seed.
ValidLineage(s) ==
  \A i \in 1..Len(s) : s[i].prev = IF i = 1 THEN VkSeed ELSE s[i - 1].hash

\* Fault: the walk keeps the predecessor of the last contribution.
Tip_fault == [count |-> Len(records),
              last  |-> IF records = <<>> THEN VkSeed ELSE records[Len(records)].prev,
              finalized |-> sealSeen]

\* The walk to the unspent coin: the state the next bundle is built on.
Tip == [count |-> Len(records), last |-> LastHash(records), finalized |-> sealSeen]

\* A reader decodes the first solution of a spend, as a contribution or as a
\* seal, or fails there for good.
Decode(r) ==
  /\ records' = IF r \in Link THEN Append(records, r) ELSE records
  /\ sealSeen' = (sealSeen \/ r = AsSeal)
  /\ garbled' = (garbled \/ r = AsNothing)

\* The list of contributions fails on a seal.
Listable == ~garbled /\ ~sealSeen

\* Fault: one record too few is enough.
EnoughRecords_fault == Len(records) + 1 >= MinParticipants
EnoughRecords == Len(records) >= MinParticipants

------------------------------------------------------------------------------
(* Steps.  A definition that ends in _fault differs from its namesake by   *)
(* the bug its comment names; no specification uses it, and the properties *)
(* refute it.                                                              *)

AdvanceHeight ==
  /\ height < MaxHeight
  /\ height' = height + 1
  /\ UNCHANGED <<contributions, state, read, key>>

\* The contributions of one spend, in the order it runs them.
Batch == UNION {[1..n -> Link] : n \in 1..MaxActions}

\* Each names the last contribution of the state it finds.
\* Fault: the first of them is not compared with the state.
Follows_fault(b) ==
  \A i \in 1..Len(b) : i # 1 => b[i].prev = b[i - 1].hash
Follows(b) ==
  \A i \in 1..Len(b) : b[i].prev = IF i = 1 THEN state.last ELSE b[i - 1].hash

\* A spend with signed contributions is included, by whoever pushes it; r is
\* what readers make of it.
Contribute(b, r) ==
  /\ ~state.finalized
  /\ Follows(b)
  /\ Start <= height /\ height < Start + Length
  /\ Len(contributions) + Len(b) <= MaxContributions
  /\ contributions' = contributions \o b
  /\ state' = [state EXCEPT !.count = @ + Len(b), !.last = b[Len(b)].hash]
  /\ r \in {b[1], AsNothing}
  /\ Decode(r)
  /\ UNCHANGED <<height, key>>

\* A client lists the contributions and derives the key, at any height.
DeriveKey(c) ==
  /\ Listable
  /\ ValidLineage(records)
  /\ EnoughRecords
  /\ key' = [key EXCEPT ![c] = records]
  /\ UNCHANGED <<height, contributions, state, read>>

WindowClosed == height >= Start + Length

\* The gate on participation reads the singleton's count.
\* Fault: the threshold itself is not enough.
ThresholdMet_fault == state.count > MinParticipants
ThresholdMet == state.count >= MinParticipants

\* Fault: a ceremony may be finalized again.
NotYetFinalized_fault == height >= Start + Length
NotYetFinalized == ~state.finalized

\* Anyone seals the ceremony, with any key, and bytes of any shape after it.
Finalize(k, r) ==
  /\ WindowClosed
  /\ ThresholdMet
  /\ NotYetFinalized
  /\ state' = [state EXCEPT !.finalized = TRUE, !.vk = k]
  /\ Decode(r)
  /\ UNCHANGED <<height, contributions, key>>

\* A client seals it with the key it derived.
FinalizeOwn(c) ==
  /\ key[c] # NoKey
  /\ Finalize(key[c], AsSeal)

------------------------------------------------------------------------------
(* Specification *)

Init ==
  /\ height = 0
  /\ contributions = <<>>
  /\ state = [count |-> 0, last |-> VkSeed, finalized |-> FALSE, vk |-> NoKey]
  /\ records = <<>>
  /\ sealSeen = FALSE
  /\ garbled = FALSE
  /\ key = [c \in Client |-> NoKey]

Next ==
  \/ AdvanceHeight
  \/ \E b \in Batch, r \in Link \cup {AsNothing} : Contribute(b, r)
  \/ \E c \in Client : DeriveKey(c) \/ FinalizeOwn(c)
  \/ \E r \in Link \cup {AsSeal, AsNothing} : Finalize(ForeignKey, r)

\* Blocks keep coming, and every client keeps reading and trying to finalize.
Fairness ==
  /\ WF_vars(AdvanceHeight)
  /\ \A c \in Client : WF_vars(DeriveKey(c)) /\ WF_vars(FinalizeOwn(c))

Spec == Init /\ [][Next]_vars
FairSpec == Spec /\ Fairness

------------------------------------------------------------------------------
(* Properties *)

\* Every variable has its type, and a derived key enough contributions
\* (check_threshold).
TypeOK ==
  /\ height \in 0..MaxHeight
  /\ contributions \in Seq(Link)
  /\ state \in CeremonyState
  /\ records \in Seq(Link)
  /\ sealSeen \in BOOLEAN
  /\ garbled \in BOOLEAN
  /\ key \in [Client -> Seq(Link) \cup {NoKey}]
  /\ \A c \in Client : key[c] # NoKey => Len(key[c]) >= MinParticipants

\* Every contribution comes with a hash of its own, and over one predecessor,
\* as when its payload has fresh entropy.
FreshHashes(s) ==
  \A i, j \in 1..Len(s) :
    s[i].hash # VkSeed /\ (s[i].hash = s[j].hash => s[i].prev = s[j].prev)

\* The accepted contributions form one chain from the seed to the curried
\* state, however many a spend runs; and if their hashes were fresh, then no
\* signature, which anybody may resubmit, counts twice (contribute.rue's
\* predecessor check).  Without fresh hashes one may: a hash signed over itself.
ContributionsFormOneChain ==
  /\ ValidLineage(contributions)
  /\ state.count = Len(contributions)
  /\ state.last = LastHash(contributions)
  /\ FreshHashes(contributions) =>
       \A i, j \in 1..Len(contributions) :
         contributions[i] = contributions[j] => i = j

\* A walk of the spends arrives at the state that the unspent coin carries
\* exactly if it saw every contribution and the seal for what it is: a client
\* whose walk missed one builds on another state than the coin's
\* (find_current_singleton, extract_contribute_action_solution).
WalkMatchesState ==
  Tip = [count |-> state.count, last |-> state.last, finalized |-> state.finalized]
    <=> records = contributions /\ (state.finalized => sealSeen)

Transcript == INSTANCE SealedTranscript WITH
  Entry <- Link, Quorum <- MinParticipants, Unsealed <- NoKey,
  entries <- contributions, sealed <- state.vk

\* The ceremony is a transcript that is sealed once, after enough
\* contributions, and neither grows nor changes its key after (finalize.rue's
\* gates).
ImplementsTranscript == Transcript!Spec

\* Clients can list the contributions, and derive a key from them.
Derivable == Listable /\ ValidLineage(records) /\ EnoughRecords

\* A ceremony that clients can derive a key from is sealed in the end, unless
\* somebody makes it one that they cannot.
EnoughIsSealed == Derivable ~> state.finalized \/ ~Derivable
==============================================================================
