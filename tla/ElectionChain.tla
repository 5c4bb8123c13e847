---------------------------- MODULE ElectionChain ----------------------------
(***************************************************************************)
(* The coins of one election and the spends that move them: the Election   *)
(* Singleton, the Registration Coins, the Ballot Coins and the Voting      *)
(* Coins, as the Rue puzzles under puzzles/ define them.                   *)
(*                                                                         *)
(* Every action is one spend bundle: the action puzzle that decides, the   *)
(* co-spent coins whose announcements it asserts, and the finalizer that   *)
(* recreates the coin with the new state.  What is modelled is what the    *)
(* puzzles enforce, whoever builds the bundle: a solution field no puzzle  *)
(* constrains takes any value.  The coin that makes an asserted            *)
(* announcement is such a field: it may be the counterpart in this         *)
(* election or any other coin.                                             *)
(*                                                                         *)
(* A Merkle root is modelled by what it commits to: the registration tree  *)
(* is a function from slots to leaves, a voted-ballots root the set of     *)
(* ballots, an options root the set of admissible vote data.  Two roots    *)
(* are equal exactly when the data are (collision resistance).             *)
(*                                                                         *)
(* A CAT coin is spent in a ring of its own, as action_spends.rs builds    *)
(* every CAT spend: what it creates adds up to what it held.               *)
(***************************************************************************)
EXTENDS Integers, FiniteSets, Functions

CONSTANTS
  Voter,            \* voter public keys
  Ballot,           \* ballot launcher ids
  Outcome,          \* 32-byte vote data, synonymous with a ballot's outcome
  Slot,             \* leaf indices of the registration tree
  SlotOf,           \* sha256(pubkey) prefix: the canonical slot of a key
  Amount,           \* CAT amounts a voter may choose to lock
  Stake,            \* voting_coin_amount: CAT moved into a Voting Coin
  CollateralAmount, \* curried minimum of a lock
  OptionSets,       \* the vote modes in use; {} is the all-zero root (free)
  VoteModeLock,     \* state.vote_mode_lock: an element of OptionSets or NoLock
  NoLock,           \* the 0xFF..FF sentinel
  Threshold,        \* quorum fractions [num, den] ballots are launched with
  Snapshot,         \* [tree, total] a launcher may curry beside the live state
  MaxHeight,        \* bound on the chain height
  MaxRegistrations, \* bound on the registrations of one voter
  NoVoter, NoOutcome

ASSUME ConstantsAssumption ==
  /\ SlotOf \in [Voter -> Slot]
  /\ Amount \subseteq Nat
  /\ Stake \subseteq Nat
  /\ CollateralAmount \in Nat \ {0}
  /\ OptionSets \subseteq SUBSET Outcome
  /\ Threshold \subseteq [num : Nat, den : Nat \ {0}]
  /\ Snapshot \subseteq [tree  : [Slot -> [pk : Voter \cup {NoVoter}, locked : Nat]],
                         total : Nat]
  /\ MaxHeight \in Nat
  /\ MaxRegistrations \in Nat
  /\ NoVoter \notin Voter
  /\ NoOutcome \notin Outcome

ASSUME FiniteAssumption ==
  /\ IsFiniteSet(Voter)
  /\ IsFiniteSet(Slot)
  /\ IsFiniteSet(Ballot)

VARIABLES
  height,     \* previous transaction block, what the height conditions read
  tree,       \* Election Singleton: what registration_merkle_root commits to
  count,      \* Election Singleton: registration_count
  weight,     \* Election Singleton: registration_vote_weight
  regCoin,    \* regCoin[<<v, n>>]: Registration Coin of v's n-th registration
  ballot,     \* ballot[b]: launcher eve coin, then Ballot Coin singleton
  votingCoin, \* votingCoin[<<v, n, b>>]: coin minted by regCoin[<<v, n>>] on b
  signed      \* vote_message signatures their signers have given away

electionVars == <<tree, count, weight>>
vars == <<height, electionVars, regCoin, ballot, votingCoin, signed>>

------------------------------------------------------------------------------
(* Registration tree *)

EmptyLeaf == [pk |-> NoVoter, locked |-> 0]
Leaf == [pk : Voter \cup {NoVoter}, locked : Nat]
EmptyTree == [s \in Slot |-> EmptyLeaf]

Registered(t, v) == t[SlotOf[v]].pk = v
LockedAmount(t, v) == IF Registered(t, v) THEN t[SlotOf[v]].locked ELSE 0

\* Total locked weight of a tree, and of the signers S read from a tree.
TreeWeight(t) == SumFunctionOnSet([s \in Slot |-> t[s].locked], Slot)
SignedWeight(t, S) == SumFunctionOnSet([v \in Voter |-> LockedAmount(t, v)], S)

------------------------------------------------------------------------------
(* Coins *)

Height == 0..MaxHeight
RegistrationId == Voter \X (1..MaxRegistrations)
VotingCoinId == Voter \X (1..MaxRegistrations) \X Ballot

\* locked is what the registration's first coin held, amount what it holds.
RegCoin == [status : {"none", "live", "released"},
            locked : Nat,
            amount : Nat,
            voted  : SUBSET Ballot]

NoRegCoin == [status |-> "none", locked |-> 0, amount |-> 0, voted |-> {}]

Fraction == [num : Nat, den : Nat \ {0}]

BallotCoin == [phase     : {"none", "minted", "drafted", "launched"},
               close     : Height,
               options   : OptionSets \cup {{}},
               threshold : Fraction,
               tree      : [Slot -> Leaf],
               total     : Int,
               finalized : BOOLEAN,
               outcome   : Outcome \cup {NoOutcome},
               signers   : SUBSET Voter]

NoBallot == [phase |-> "none", close |-> 0, options |-> {},
             threshold |-> [num |-> 0, den |-> 1],
             tree |-> EmptyTree, total |-> 0,
             finalized |-> FALSE, outcome |-> NoOutcome, signers |-> {}]

\* vote is the coin's vote_data; cast is the ballot named by the announcement
\* of the spend that created the coin, at its confirmation height.
VotingCoin == [vote   : Outcome \cup {NoOutcome},
               cast   : Ballot,
               at     : Height,
               amount : Nat]

Minted(k) == votingCoin[k].vote # NoOutcome

\* The oracle action of the Ballot Coin announces "open".
OracleOpen(b) == ballot[b].phase = "launched" /\ ~ballot[b].finalized

\* The all-zero root admits any vote data, another root its leaves only.
OptionAdmitted(options, o) == options = {} \/ o \in options

\* The coin whose announcement a spend asserts: its counterpart in this
\* election, spent in the same bundle, or another coin the solution names.
Announcer == {"counterpart", "other"}

------------------------------------------------------------------------------
(* Election Singleton *)

\* A definition that ends in _fault differs from its namesake by the bug its
\* comment names; no specification uses it, and the properties refute it.
\* Can... is what the spends of a bundle assert, for its action to run.

SufficientCollateral(amount) == amount >= CollateralAmount

CanRegister(v, amount) ==
  /\ tree[SlotOf[v]] = EmptyLeaf
  /\ SufficientCollateral(amount)

\* A new coin under the puzzle hash of v's Registration Coin, the n-th.
NewCoin(v, n) ==
  /\ regCoin[<<v, n>>].status = "none"
  /\ \A m \in 1..(n - 1) : regCoin[<<v, m>>].status # "none"

AddLeaf(v, amount) ==
  /\ tree' = [tree EXCEPT ![SlotOf[v]] = [pk |-> v, locked |-> amount]]
  /\ count' = count + 1
  /\ weight' = weight + amount

\* The coin a CAT spend creates for v: an empty record of votes.
CreateCoin(v, n, amount) ==
  regCoin' = [regCoin EXCEPT ![<<v, n>>] =
                [status |-> "live", locked |-> amount, amount |-> amount,
                 voted |-> {}]]

\* The amount the CAT parent's announcement of the new coin is bound to.
\* Fault: the curried minimum, whatever the voter locks.
AnnouncedAmount_fault(amount) == IF amount >= 0 THEN CollateralAmount ELSE amount
AnnouncedAmount(amount) == amount

\* The register spend beside a CAT parent that creates the coin it announces.
Register(v, n, amount) ==
  /\ CanRegister(v, amount)
  /\ NewCoin(v, n)
  /\ AddLeaf(v, amount)
  /\ CreateCoin(v, n, AnnouncedAmount(amount))
  /\ UNCHANGED <<height, ballot, votingCoin, signed>>

\* The register spend beside another coin that makes the announcement.
RegisterAlone(v, amount) ==
  /\ CanRegister(v, amount)
  /\ AddLeaf(v, amount)
  /\ UNCHANGED <<height, regCoin, ballot, votingCoin, signed>>

\* A CAT spend that is no registration creates a Registration Coin of v.
FundCoin(v, n, amount) ==
  /\ NewCoin(v, n)
  /\ CreateCoin(v, n, amount)
  /\ UNCHANGED <<height, electionVars, ballot, votingCoin, signed>>

\* The membership proof of deregister: v's slot holds v's leaf.
\* Fault: the proof is not compared with the current root.
MembershipProof_fault(v) == SlotOf[v] \in Slot
MembershipProof(v) == Registered(tree, v)

\* The weight deregister takes back, bound to the leaf by the same proof.
\* Fault: the curried minimum is taken back whatever was locked.
RecoveredWeight_fault(v) == CollateralAmount
RecoveredWeight(v) == tree[SlotOf[v]].locked

CanDeregister(v, R) ==
  /\ MembershipProof(v)
  /\ \A n \in R : regCoin[<<v, n>>].status = "live"

\* The release action of v's coins R: their collateral leaves.
Released(v, R) ==
  [c \in RegistrationId |->
     IF c[1] = v /\ c[2] \in R THEN [regCoin[c] EXCEPT !.status = "released"]
                              ELSE regCoin[c]]

\* The deregister spend, and in its bundle the release of the coins R of v.
Deregister(v, R) ==
  /\ CanDeregister(v, R)
  /\ tree' = [tree EXCEPT ![SlotOf[v]] = EmptyLeaf]
  /\ count' = count - 1
  /\ weight' = weight - RecoveredWeight(v)
  /\ regCoin' = Released(v, R)
  /\ UNCHANGED <<height, ballot, votingCoin, signed>>

\* The release spend beside another coin that announces "deregister".
ReleaseAlone(v, n) ==
  /\ regCoin[<<v, n>>].status = "live"
  /\ regCoin' = Released(v, {n})
  /\ UNCHANGED <<height, electionVars, ballot, votingCoin, signed>>

CanCreateBallot(b, options) ==
  /\ ballot[b].phase = "none"
  /\ VoteModeLock = NoLock \/ VoteModeLock = options

CreateBallot(b, options) ==
  /\ CanCreateBallot(b, options)
  /\ ballot' = [ballot EXCEPT ![b].phase = "minted", ![b].options = options]
  /\ UNCHANGED <<height, electionVars, regCoin, votingCoin, signed>>

------------------------------------------------------------------------------
(* The standard launcher: whoever spends it curries the Ballot Coin it      *)
(* creates, with the snapshot of its choice; the spend is built at one step *)
(* and included at a later one, if at all.                                  *)

PrepareLaunch(b, close, options, threshold, t, total) ==
  /\ ballot[b].phase \in {"minted", "drafted"}
  /\ ballot' = [ballot EXCEPT ![b] =
                  [@ EXCEPT !.phase = "drafted", !.close = close,
                            !.options = options, !.threshold = threshold,
                            !.tree = t, !.total = total]]
  /\ UNCHANGED <<height, electionVars, regCoin, votingCoin, signed>>

LaunchBallot(b) ==
  /\ ballot[b].phase = "drafted"
  /\ ballot' = [ballot EXCEPT ![b].phase = "launched"]
  /\ UNCHANGED <<height, electionVars, regCoin, votingCoin, signed>>

------------------------------------------------------------------------------
(* Registration Coin and Voting Coin *)

\* mint_voting_coin runs until a release_destination is set.
\* Fault: the release_destination is not looked at.
Mintable_fault(v, n) == regCoin[<<v, n>>].status # "none"
Mintable(v, n) == regCoin[<<v, n>>].status = "live"

\* What the Registration Coin is recreated with beside a stake of k.
\* Fault: the whole input amount, as my_amount's comment has it.
Residual_fault(amount, k) == IF k >= 0 THEN amount ELSE 0
Residual(amount, k) == amount - k

CanMint(v, n, b, o, k, by) ==
  /\ Mintable(v, n)
  /\ by = "counterpart" => OracleOpen(b) /\ OptionAdmitted(ballot[b].options, o)
  /\ b \notin regCoin[<<v, n>>].voted
  /\ k <= regCoin[<<v, n>>].amount

\* sigs: the signatures of votes that the spend's announcement carries.  The
\* puzzle announces the bytes it is given and verifies nothing of them.
MintVotingCoin(v, n, b, o, k, by, sigs) ==
  /\ CanMint(v, n, b, o, k, by)
  /\ regCoin' = [regCoin EXCEPT ![<<v, n>>].voted = @ \cup {b},
                                ![<<v, n>>].amount = Residual(@, k)]
  /\ votingCoin' = [votingCoin EXCEPT ![<<v, n, b>>] =
                      [vote |-> o, cast |-> b, at |-> height, amount |-> k]]
  /\ signed' = signed \cup sigs
  /\ UNCHANGED <<height, electionVars, ballot>>

\* update_vote asserts an open oracle and AssertBeforeHeightAbsolute.
\* Fault: the close height itself still counts as open.
UpdateWindow_fault(b) == OracleOpen(b) /\ height <= ballot[b].close
UpdateWindow(b) == OracleOpen(b) /\ height < ballot[b].close

\* ballot_launcher_id comes from the solution: it need not be the coin's b.
CanUpdate(v, n, b, named, o, by) ==
  /\ Minted(<<v, n, b>>)
  /\ by = "counterpart" =>
       UpdateWindow(named) /\ OptionAdmitted(ballot[named].options, o)

UpdateVote(v, n, b, named, o, by, sigs) ==
  /\ CanUpdate(v, n, b, named, o, by)
  /\ votingCoin' = [votingCoin EXCEPT ![<<v, n, b>>] =
                      [@ EXCEPT !.vote = o, !.cast = named, !.at = height]]
  /\ signed' = signed \cup sigs
  /\ UNCHANGED <<height, electionVars, regCoin, ballot>>

\* A voter signs a vote and gives the signature away without any coin.
SignOffChain(v, b, o) ==
  /\ signed' = signed \cup {<<v, b, o>>}
  /\ UNCHANGED <<height, electionVars, regCoin, ballot, votingCoin>>

------------------------------------------------------------------------------
(* Ballot Coin: finalize, with a proof whose scalars are those of tree t.   *)
(* The circuit takes signers and weights from the prover: of a proof that   *)
(* verifies, the coin knows the scalars and nothing of who signed.          *)

\* s1 and s2 bind the proof to the curried snapshot.
\* Fault: only the weight is bound, the root is the prover's choice.
SnapshotBound_fault(b, t, total) == total = ballot[b].total
SnapshotBound(b, t, total) ==
  /\ t = ballot[b].tree
  /\ total = ballot[b].total

\* The aggregate signature verifies: each signer signed vote_message(o, b).
\* Fault: one valid signature lets the aggregate through.
AggregateVerifies_fault(b, o, S) == \E v \in S : <<v, b, o>> \in signed
AggregateVerifies(b, o, S) == \A v \in S : <<v, b, o>> \in signed

\* finalize runs once, from AssertHeightAbsolute(VOTE_CLOSE_HEIGHT) on.
\* Fault: State.finalized is not looked at.
FinalizeWindow_fault(b) ==
  ballot[b].phase = "launched" /\ height >= ballot[b].close
FinalizeWindow(b) == OracleOpen(b) /\ height >= ballot[b].close

CanFinalize(b, o, S, t, total) ==
  /\ FinalizeWindow(b)
  /\ SnapshotBound(b, t, total)
  /\ AggregateVerifies(b, o, S)

Finalize(b, o, S, t, total) ==
  /\ CanFinalize(b, o, S, t, total)
  /\ ballot' = [ballot EXCEPT ![b] =
                  [@ EXCEPT !.finalized = TRUE, !.outcome = o, !.signers = S]]
  /\ UNCHANGED <<height, electionVars, regCoin, votingCoin, signed>>

------------------------------------------------------------------------------
AdvanceHeight ==
  /\ height < MaxHeight
  /\ height' = height + 1
  /\ UNCHANGED <<electionVars, regCoin, ballot, votingCoin, signed>>

Init ==
  /\ height = 0
  /\ tree = EmptyTree
  /\ count = 0
  /\ weight = 0
  /\ regCoin = [c \in RegistrationId |-> NoRegCoin]
  /\ ballot = [b \in Ballot |-> NoBallot]
  /\ votingCoin = [k \in VotingCoinId |->
                     [vote |-> NoOutcome, cast |-> k[3], at |-> 0,
                      amount |-> 0]]
  /\ signed = {}

ElectionNext ==
  \E v \in Voter :
    \/ \E n \in 1..MaxRegistrations, amount \in Amount :
         Register(v, n, amount) \/ FundCoin(v, n, amount)
    \/ \E amount \in Amount : RegisterAlone(v, amount)
    \/ \E R \in SUBSET (1..MaxRegistrations) : Deregister(v, R)
    \/ \E n \in 1..MaxRegistrations : ReleaseAlone(v, n)

IssuerNext ==
  \E b \in Ballot :
    \/ \E options \in OptionSets : CreateBallot(b, options)
    \/ \E close \in Height, options \in OptionSets, threshold \in Threshold,
         s \in Snapshot \cup {[tree |-> tree, total |-> weight]} :
         PrepareLaunch(b, close, options, threshold, s.tree, s.total)
    \/ LaunchBallot(b)

VoteNext ==
  \E v \in Voter, b \in Ballot, o \in Outcome :
    \/ \E n \in 1..MaxRegistrations, by \in Announcer,
         sigs \in SUBSET {<<v, b, o>>} :
         \/ \E k \in Stake : MintVotingCoin(v, n, b, o, k, by, sigs)
         \/ \E c \in Ballot : UpdateVote(v, n, c, b, o, by, sigs)
    \/ SignOffChain(v, b, o)

\* A prover works from the tree of its last sync: the live one, or one as old
\* as the ballot's snapshot.
FinalizeNext ==
  \E b \in Ballot, o \in Outcome, S \in SUBSET Voter :
    \/ Finalize(b, o, S, tree, weight)
    \/ Finalize(b, o, S, tree, ballot[b].total)
    \/ Finalize(b, o, S, ballot[b].tree, ballot[b].total)

Next == ElectionNext \/ IssuerNext \/ VoteNext \/ FinalizeNext \/ AdvanceHeight

Spec == Init /\ [][Next]_vars

------------------------------------------------------------------------------
(* Properties *)

\* Every variable stays in the domain its coin's state struct declares.
TypeOK ==
  /\ height \in Height
  /\ tree \in [Slot -> Leaf]
  /\ count \in Nat
  /\ weight \in Int
  /\ regCoin \in [RegistrationId -> RegCoin]
  /\ ballot \in [Ballot -> BallotCoin]
  /\ votingCoin \in [VotingCoinId -> VotingCoin]
  /\ signed \subseteq Voter \X Ballot \X Outcome

\* registration_count and registration_vote_weight, which register and
\* deregister update by increments, always total the tree they stand beside.
RegistrationTotals ==
  /\ count = Cardinality({s \in Slot : tree[s] # EmptyLeaf})
  /\ weight = TreeWeight(tree)

\* Collateral is conserved: what a registration locked is in its Registration
\* Coin (or was released from it) and in the Voting Coins minted from it,
\* through every mint and every vote update.
CollateralIsConserved ==
  \A v \in Voter, n \in 1..MaxRegistrations :
    regCoin[<<v, n>>].locked =
      regCoin[<<v, n>>].amount
        + SumFunctionOnSet([b \in Ballot |-> votingCoin[<<v, n, b>>].amount],
                           Ballot)

\* The curried parameters of a launched ballot never change, and once it is
\* finalized no later spend (oracle, announcement, another finalize) alters
\* its outcome or signers.
LaunchedBallotIsFixed ==
  [][\A b \in Ballot : ballot[b].phase = "launched" =>
       \/ ballot'[b] = ballot[b]
       \/ /\ ~ballot[b].finalized
          /\ ballot'[b] = [ballot[b] EXCEPT !.finalized = TRUE,
                                            !.outcome = ballot'[b].outcome,
                                            !.signers = ballot'[b].signers]]_vars

\* Released collateral is gone: its coin is never spent again.
ReleasedCoinIsSpent ==
  [][\A c \in RegistrationId :
       regCoin[c].status = "released" => regCoin'[c] = regCoin[c]]_vars

==============================================================================
