------------------------------ MODULE ElectionSdk ------------------------------
(***************************************************************************)
(* The SDK's actors around the coins of ElectionChain: voters, an issuer   *)
(* and an aggregator that read the chain, build a spend bundle from what   *)
(* they read, dry-run it and submit it, while other bundles land between   *)
(* two of their reads and between build and inclusion.                     *)
(*                                                                         *)
(* draft[c] is the call client c is in: what it has read and which coins   *)
(* its bundle spends.  A landed bundle makes every draft that shares one   *)
(* of its coins stale, and the chain takes no stale bundle.  Reads of the  *)
(* election coin are single steps here; SingletonReader takes them apart.  *)
(***************************************************************************)
EXTENDS ElectionOfficers, Circuit

CONSTANTS Issuer, Aggregator

ASSUME ClientAssumption ==
  /\ Issuer \notin Voter
  /\ Aggregator \notin Voter \cup {Issuer}
  /\ Ballot # {}
  /\ {} \in OptionSets

VARIABLE draft

Client == Voter \cup {Issuer, Aggregator}

CoinKey == ({"election"} \X {0})
             \cup ({"ballot"} \X Ballot)
             \cup ({"reg"} \X RegistrationId)
             \cup ({"voting"} \X VotingCoinId)
ElectionKey == <<"election", 0>>
BallotKey(b) == <<"ballot", b>>
RegKey(v, n) == <<"reg", <<v, n>>>>
VotingKey(v, n, b) == <<"voting", <<v, n, b>>>>

Draft == [op     : {"none", "register", "cast", "update", "release", "create",
                    "finalize"},
          pc     : {"idle", "synced", "read", "built"},
          n      : 0..MaxRegistrations,
          b      : Ballot,
          o      : Outcome \cup {NoOutcome},
          k      : Nat,                    \* lock_amount, voting_coin_amount
          smt    : [Slot -> Leaf],         \* the tree of the caller's last sync
          todo   : SUBSET Voter,           \* voters still to be collected
          votes  : SUBSET (Voter \X Outcome),
          inputs : SUBSET CoinKey,
          stale  : BOOLEAN]

NoDraft == [op |-> "none", pc |-> "idle", n |-> 0,
            b |-> CHOOSE b \in Ballot : TRUE, o |-> NoOutcome, k |-> 0,
            smt |-> EmptyTree, todo |-> {}, votes |-> {}, inputs |-> {},
            stale |-> FALSE]

Idle(c) == draft[c].pc = "idle"
At(c, op, pc) == draft[c].op = op /\ draft[c].pc = pc
Set(c, d) == draft' = [draft EXCEPT ![c] = d] /\ UNCHANGED vars

\* A check that fails is an error the caller gets; nothing is kept.
Check(c, ok, d) == Set(c, IF ok THEN d ELSE NoDraft)

\* Coins I are spent: whoever planned to spend one of them is late.
Overtaken(I) ==
  [c \in Client |->
     [draft[c] EXCEPT !.stale = @ \/ draft[c].inputs \cap I # {}]]
Spent(c, I) == draft' = [Overtaken(I) EXCEPT ![c] = NoDraft]

------------------------------------------------------------------------------
(* Voter::register *)

StartRegister(v, n, amount) ==
  /\ Idle(v)
  /\ SufficientCollateral(amount)
  /\ NewCoin(v, n)
  /\ Set(v, [NoDraft EXCEPT !.op = "register", !.pc = "synced", !.n = n,
                            !.k = amount, !.smt = tree])

\* The caller's tree must be the one the coin found commits to.
\* Fault: the roots are not compared.
SameRoot_fault(d) == d.smt \in [Slot -> Leaf]
SameRoot(d) == d.smt = tree

\* The dry run of register: the path of the caller's tree ends in a free slot.
SlotFree(d, v) == d.smt[SlotOf[v]] = EmptyLeaf

BuildRegister(v) ==
  /\ At(v, "register", "synced")
  /\ Check(v, SameRoot(draft[v]) /\ SlotFree(draft[v], v),
           [draft[v] EXCEPT !.pc = "built", !.inputs = {ElectionKey}])

LandRegister(v) ==
  /\ At(v, "register", "built") /\ ~draft[v].stale
  /\ Register(v, draft[v].n, draft[v].k)
  /\ Spent(v, {ElectionKey})

------------------------------------------------------------------------------
(* Voter::cast_vote *)

\* Only a Registration Coin that has not voted is found by its puzzle hash.
FreshRegistration(v) ==
  {n \in 1..MaxRegistrations :
     regCoin[<<v, n>>].status = "live" /\ regCoin[<<v, n>>].voted = {}}

StartCast(v, b, o, k) ==
  /\ Idle(v)
  /\ \E n \in FreshRegistration(v) :
       Set(v, [NoDraft EXCEPT !.op = "cast", !.pc = "read", !.n = n, !.b = b,
                              !.o = o, !.k = k, !.inputs = {RegKey(v, n)}])

\* The Ballot Coin is looked for under the puzzle hash of an open ballot with
\* the parameters of the launcher's memo and no options root.
\* Fault: the hash of the coin found is not compared with the predicted one.
FindsBallot_fault(b) == ballot[b].phase = "launched"
FindsBallot(b) == OracleOpen(b) /\ ballot[b].options = {}

\* The mint's ring: k goes to the Voting Coin, the rest of the curried minimum
\* to the Registration Coin.
StakeFits(d) == d.k <= CollateralAmount
Recreated(d) == CollateralAmount - d.k

BuildCast(v) ==
  /\ At(v, "cast", "read")
  /\ Check(v, FindsBallot(draft[v].b) /\ StakeFits(draft[v]),
           [draft[v] EXCEPT !.pc = "built",
                            !.inputs = @ \cup {BallotKey(draft[v].b)}])

\* The CAT layer lets the ring pass if what comes out is what went in.
RingBalances(v) ==
  LET d == draft[v] IN Recreated(d) + d.k = regCoin[<<v, d.n>>].amount

LandCast(v) ==
  LET d == draft[v] IN
  /\ At(v, "cast", "built") /\ ~d.stale
  /\ RingBalances(v)
  /\ MintVotingCoin(v, d.n, d.b, d.o, d.k, "counterpart", {<<v, d.b, d.o>>})
  /\ Spent(v, d.inputs)

------------------------------------------------------------------------------
(* Voter::update_vote *)

\* The voting coin is named by id, and must hash to the state the caller gives.
StartUpdate(v, n, b, o) ==
  /\ Idle(v)
  /\ Minted(<<v, n, b>>)
  /\ Set(v, [NoDraft EXCEPT !.op = "update", !.pc = "read", !.n = n, !.b = b,
                            !.o = o, !.inputs = {VotingKey(v, n, b)}])

BuildUpdate(v) ==
  /\ At(v, "update", "read")
  /\ Check(v, FindsBallot(draft[v].b),
           [draft[v] EXCEPT !.pc = "built",
                            !.inputs = @ \cup {BallotKey(draft[v].b)}])

LandUpdate(v) ==
  LET d == draft[v] IN
  /\ At(v, "update", "built") /\ ~d.stale
  /\ UpdateVote(v, d.n, d.b, d.b, d.o, "counterpart", {<<v, d.b, d.o>>})
  /\ Spent(v, d.inputs)

------------------------------------------------------------------------------
(* Voter::release_collateral: deregister and release in one bundle *)

StartRelease(v, n) ==
  /\ Idle(v)
  /\ regCoin[<<v, n>>].status = "live"
  /\ Set(v, [NoDraft EXCEPT !.op = "release", !.pc = "synced", !.n = n,
                            !.smt = tree])

ReadForRelease(v) ==
  /\ At(v, "release", "synced")
  /\ Check(v, SameRoot(draft[v]) /\ Registered(draft[v].smt, v),
           [draft[v] EXCEPT !.pc = "read", !.inputs = {ElectionKey}])

\* walk_voted_ballots_history tries, newest spend first, which ballot leads
\* from what it has found so far to the coin's root: a coin that voted on two
\* ballots matches at no first step.
WalkRecovers(voted) == Cardinality(voted) <= 1

BuildRelease(v) ==
  LET coin == regCoin[<<v, draft[v].n>>] IN
  /\ At(v, "release", "read")
  /\ Check(v, coin.status = "live" /\ WalkRecovers(coin.voted),
           [draft[v] EXCEPT !.pc = "built",
                            !.inputs = @ \cup {RegKey(v, draft[v].n)}])

\* The spends of the bundle beside deregister.
\* Fault: the release spend is left out.
ReleaseSpends_fault(d) == {n \in {d.n} : n = 0}
ReleaseSpends(d) == {d.n}

LandRelease(v) ==
  LET d == draft[v] IN
  /\ At(v, "release", "built") /\ ~d.stale
  /\ Deregister(v, ReleaseSpends(d))
  /\ Spent(v, d.inputs)

------------------------------------------------------------------------------
(* BallotIssuer: create_ballot spends the election coin; launch_ballot       *)
(* spends a launcher of its own and competes with nobody                    *)

StartCreate(b) ==
  /\ Idle(Issuer)
  /\ ballot[b].phase = "none"
  /\ Set(Issuer, [NoDraft EXCEPT !.op = "create", !.pc = "synced", !.b = b])

\* create_ballot curries no vote_mode_lock, and checks that this leaf exists.
BuildCreate ==
  /\ At(Issuer, "create", "synced")
  /\ Check(Issuer, VoteModeLock = NoLock,
           [draft[Issuer] EXCEPT !.pc = "built", !.inputs = {ElectionKey}])

LandCreate ==
  /\ At(Issuer, "create", "built") /\ ~draft[Issuer].stale
  /\ CreateBallot(draft[Issuer].b, {})
  /\ Spent(Issuer, {ElectionKey})

Launch(b) ==
  /\ \/ \E close \in Height, options \in OptionSets, threshold \in Threshold :
          ballot[b].phase = "minted" /\ SdkPrepareLaunch(b, close, options, threshold)
     \/ LaunchBallot(b)
  /\ UNCHANGED draft

------------------------------------------------------------------------------
(* Aggregator: sync, collect, prepare the witness, finalize *)

StartFinalize(b) ==
  /\ Idle(Aggregator)
  /\ ballot[b].phase = "launched"
  /\ Set(Aggregator,
         [NoDraft EXCEPT !.op = "finalize", !.pc = "synced", !.b = b,
                         !.smt = tree,
                         !.todo = {v \in Voter : Registered(tree, v)}])

\* Of the Voting Coins under the hint of v and b, those confirmed last.
\* Fault: a voter without one is not passed over.
Latest_fault(v, b) ==
  {n \in 1..MaxRegistrations :
     \A m \in 1..MaxRegistrations :
       votingCoin[<<v, m, b>>].at <= votingCoin[<<v, n, b>>].at}
Latest(v, b) ==
  {n \in 1..MaxRegistrations :
     /\ Minted(<<v, n, b>>)
     /\ \A m \in 1..MaxRegistrations :
          Minted(<<v, m, b>>)
            => votingCoin[<<v, m, b>>].at <= votingCoin[<<v, n, b>>].at}

\* One voter's query and the decoding of the announcement it leads to; a coin
\* whose announcement names another ballot counts for nothing.
CollectVote(v) ==
  LET d == draft[Aggregator] IN
  /\ At(Aggregator, "finalize", "synced")
  /\ v \in d.todo
  /\ \/ /\ Latest(v, d.b) = {}
        /\ Set(Aggregator, [d EXCEPT !.todo = @ \ {v}])
     \/ \E n \in Latest(v, d.b) :
          LET coin == votingCoin[<<v, n, d.b>>] IN
          Set(Aggregator,
              [d EXCEPT !.todo = @ \ {v},
                        !.votes = @ \cup (IF coin.cast = d.b
                                            THEN {<<v, coin.vote>>} ELSE {})])

SignersOf(d, o) == {v \in Voter : <<v, o>> \in d.votes}

\* prepare_finalize_witness_with_threshold over the votes for o, in u128:
\* registered signers that carry the share of the snapshot's weight.
\* Fault: a weight that meets the share exactly is below the threshold.
Quorate_fault(d, o) ==
  /\ Provable(d.smt, ballot[d.b].total, ballot[d.b].threshold, SignersOf(d, o))
  /\ SignedWeight(d.smt, SignersOf(d, o)) * ballot[d.b].threshold.den
       > ballot[d.b].threshold.num * ballot[d.b].total
Quorate(d, o) ==
  Provable(d.smt, ballot[d.b].total, ballot[d.b].threshold, SignersOf(d, o))

\* The scalars of a proof that S, read from tree t, voted o on b; the finalize
\* puzzle computes those of its curried snapshot.
ScalarsFor(b, o, t, S) ==
  Scalars(t, ballot[b].total, S, <<o, b>>, ballot[b].threshold, b)

\* circuit.prove, in u64, over the weights of the same tree.
Proves(b, o, t, S) ==
  LET carried == Wrapped(SignedWeight(t, S)) IN
  /\ S # {}
  /\ MeetsInWords(carried, ballot[b].total, ballot[b].threshold)
  /\ Satisfied(ScalarsFor(b, o, t, S),
               Witness(carried, ballot[b].total, ballot[b].threshold))

\* Fault: a witness is made of any votes.
Provides_fault(d, o) == SignersOf(d, o) # {}
Provides(d, o) == Quorate(d, o) /\ Proves(d.b, o, d.smt, SignersOf(d, o))

PrepareWitness ==
  LET d == draft[Aggregator] IN
  /\ At(Aggregator, "finalize", "synced")
  /\ d.todo = {}
  /\ \/ /\ \A o \in Outcome : ~Provides(d, o)
        /\ Set(Aggregator, NoDraft)
     \/ \E o \in Outcome :
          /\ Provides(d, o)
          /\ Set(Aggregator, [d EXCEPT !.pc = "read", !.o = o])

\* The dry run of finalize: the scalars, made from the caller's tree, are the
\* ones the curried snapshot gives.
\* Fault: the bundle is not run before it is returned.
ScalarsMatch_fault(d) == d.smt \in [Slot -> Leaf]
ScalarsMatch(d) ==
  ScalarsFor(d.b, d.o, d.smt, SignersOf(d, d.o))
    = ScalarsFor(d.b, d.o, ballot[d.b].tree, SignersOf(d, d.o))

BuildFinalize ==
  LET d == draft[Aggregator] IN
  /\ At(Aggregator, "finalize", "read")
  /\ Check(Aggregator, FindsBallot(d.b) /\ ScalarsMatch(d),
           [d EXCEPT !.pc = "built", !.inputs = {BallotKey(d.b)}])

LandFinalize ==
  LET d == draft[Aggregator] IN
  /\ At(Aggregator, "finalize", "built") /\ ~d.stale
  /\ Finalize(d.b, d.o, SignersOf(d, d.o), d.smt, ballot[d.b].total)
  /\ Spent(Aggregator, d.inputs)

------------------------------------------------------------------------------
\* A bundle that waits too long is dropped, by its sender or by the mempool;
\* the aggregator only gives up on one the chain will not take any more.
Drop(c) ==
  /\ draft[c].pc = "built"
  /\ c = Aggregator => draft[c].stale
  /\ Set(c, NoDraft)

\* Anybody may spend an open Ballot Coin to read it, as oracle.rue allows.
OtherOracle(b) ==
  /\ OracleOpen(b)
  /\ draft' = Overtaken({BallotKey(b)})
  /\ UNCHANGED vars

Block == AdvanceHeight /\ UNCHANGED draft

SdkInit == Init /\ draft = [c \in Client |-> NoDraft]

VoterNext(v) ==
  \/ \E n \in 1..MaxRegistrations :
       \/ \E amount \in Amount : StartRegister(v, n, amount)
       \/ \E b \in Ballot, o \in Outcome : StartUpdate(v, n, b, o)
       \/ StartRelease(v, n)
  \/ \E b \in Ballot, o \in Outcome, k \in Stake : StartCast(v, b, o, k)
  \/ BuildRegister(v) \/ LandRegister(v)
  \/ BuildCast(v) \/ LandCast(v)
  \/ BuildUpdate(v) \/ LandUpdate(v)
  \/ ReadForRelease(v) \/ BuildRelease(v) \/ LandRelease(v)
  \/ Drop(v)

SdkIssuerNext ==
  \/ \E b \in Ballot : StartCreate(b) \/ Launch(b)
  \/ BuildCreate \/ LandCreate
  \/ Drop(Issuer)

AggregatorNext ==
  \/ \E b \in Ballot : StartFinalize(b)
  \/ \E v \in Voter : CollectVote(v)
  \/ PrepareWitness \/ BuildFinalize \/ LandFinalize
  \/ Drop(Aggregator)

SdkNext ==
  \/ \E v \in Voter : VoterNext(v)
  \/ SdkIssuerNext
  \/ AggregatorNext
  \/ \E b \in Ballot : OtherOracle(b)
  \/ Block

sdkVars == <<vars, draft>>
SdkSpec == SdkInit /\ [][SdkNext]_sdkVars

\* The aggregator's loop keeps running, and takes what it can take.
SdkFairSpec == SdkSpec /\ WF_sdkVars(AggregatorNext)

------------------------------------------------------------------------------
(* Properties *)

\* The chain's variables keep their types and every draft is a call in one of
\* its phases.
SdkTypeOK == TypeOK /\ draft \in [Client -> Draft]

\* When its height condition can be met, which the dry run does not test.
InTime(d) ==
  CASE d.op = "update"   -> height < ballot[d.b].close
    [] d.op = "finalize" -> height >= ballot[d.b].close
    [] OTHER             -> TRUE

\* What the puzzles of c's bundle assert, which its Land action runs.
Accepted(c) ==
  LET d == draft[c] IN
  CASE d.op = "register" -> CanRegister(c, d.k) /\ NewCoin(c, d.n)
    [] d.op = "cast"     -> CanMint(c, d.n, d.b, d.o, d.k, "counterpart")
    [] d.op = "update"   -> CanUpdate(c, d.n, d.b, d.b, d.o, "counterpart")
    [] d.op = "release"  -> CanDeregister(c, ReleaseSpends(d))
    [] d.op = "create"   -> CanCreateBallot(d.b, {})
    [] d.op = "finalize" -> CanFinalize(d.b, d.o, SignersOf(d, d.o), d.smt,
                                        ballot[d.b].total)

\* A bundle an actor returned is one the chain takes, for as long as nobody
\* spends its coins and its heights allow: the actor's checks cover all that
\* the puzzles assert.  (A cast from a lock above the minimum is excluded:
\* voter.rs takes the residue of the curried minimum and not of the coin.)
BuiltBundlesAreAccepted ==
  \A c \in Client :
    /\ draft[c].pc = "built"
    /\ ~draft[c].stale
    /\ InTime(draft[c])
    /\ draft[c].op = "cast" => RingBalances(c)
    => Accepted(c)

FreshDraft(c, d) == ~d.stale =>
  /\ d.op = "register" /\ d.pc = "built" =>
       d.smt = tree /\ tree[SlotOf[c]] = EmptyLeaf
  /\ d.op = "release" /\ ElectionKey \in d.inputs =>
       d.smt = tree /\ Registered(tree, c)
  /\ d.op = "cast" =>
       /\ regCoin[<<c, d.n>>].status = "live"
       /\ regCoin[<<c, d.n>>].voted = {}
  /\ d.op \in {"cast", "update", "finalize"} /\ d.pc = "built" =>
       OracleOpen(d.b)

\* What a bundle was built from is still what its coins hold, however long it
\* waits, unless it is stale: no state an actor curried goes out of date
\* unnoticed.
FreshDraftsMatchChain == \A c \in Client : FreshDraft(c, draft[c])

\* Through the SDK, collateral is never stranded: a Registration Coin lives
\* exactly as long as its voter's leaf, so the holder of one can release it.
NothingStranded ==
  \A v \in Voter :
    Registered(tree, v)
      <=> \E n \in 1..MaxRegistrations : regCoin[<<v, n>>].status = "live"

\* Every vote a decision counts was paid for: its voter locked, in a
\* Registration Coin, the very weight the vote is counted with, and cast it
\* with a Voting Coin minted from a Registration Coin.
CountedVotesWerePaidFor ==
  \A b \in Ballot : ballot[b].finalized =>
    \A v \in ballot[b].signers : \E m, n \in 1..MaxRegistrations :
      /\ regCoin[<<v, n>>].status # "none"
      /\ regCoin[<<v, n>>].locked = LockedAmount(ballot[b].tree, v)
      /\ Minted(<<v, m, b>>)

\* Through the SDK, a vote that stands for a ballot (its coin's last
\* announcement names the ballot) is never replaced by another vote for it
\* from the close height on, however long an update waits to be included.
VotesFrozenAtClose ==
  [][\A k \in VotingCoinId :
       LET b == votingCoin[k].cast IN
       /\ Minted(k)
       /\ height >= ballot[b].close
       /\ votingCoin'[k].cast = b
       => votingCoin'[k] = votingCoin[k]]_sdkVars

\* The SDK's actors keep the promises ElectionOfficers takes from them: when
\* a bundle lands, whatever has changed since it was built, it launches a
\* ballot with one state of the election or decides one by a quorum of its
\* snapshot.
ImplementsOffice == OfficeSpec

\* The ballot can be decided by the votes that stand for o: the tree is the
\* snapshot's again, or still, and the voters of o carry the share, by the
\* aggregator's arithmetic and by the prover's.
Ripe(b) ==
  /\ OracleOpen(b)
  /\ ballot[b].options = {}
  /\ height >= ballot[b].close
  /\ tree = ballot[b].tree
  /\ \E o \in Outcome :
       LET S == {v \in Voter : /\ Registered(tree, v)
                              /\ Latest(v, b) # {}
                              /\ \A n \in Latest(v, b) :
                                   /\ votingCoin[<<v, n, b>>].cast = b
                                   /\ votingCoin[<<v, n, b>>].vote = o}
       IN /\ Provable(tree, ballot[b].total, ballot[b].threshold, S)
          /\ Proves(b, o, tree, S)

\* The numbers of b's snapshot stay in a word when multiplied out.
WithinWords(b) ==
  /\ ProductFits(ballot[b].total, ballot[b].threshold.den)
  /\ ProductFits(ballot[b].threshold.num, ballot[b].total)

\* The prover refuses no quorum the aggregator has accepted: below the width
\* of its words it computes the same inequality, and what it assigns to the
\* circuit's variables satisfies the constraints.
QuorumsAreProved ==
  \A b \in Ballot :
    /\ ballot[b].phase \in {"drafted", "launched"}
    /\ WithinWords(b)
    => \A S \in SUBSET Voter, o \in Outcome :
         Provable(ballot[b].tree, ballot[b].total, ballot[b].threshold, S)
           => Proves(b, o, ballot[b].tree, S)

\* A closed ballot that is ripe for good gets decided, however the aggregator
\* interleaves with late casts and its bundles with others, unless outsiders
\* go on spending the Ballot Coin for ever.
RipeBallotsAreDecided ==
  <>[][\A b \in Ballot : ~OtherOracle(b)]_sdkVars
    => \A b \in Ballot : []<>~Ripe(b)
==============================================================================
