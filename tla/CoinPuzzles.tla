------------------------------- MODULE CoinPuzzles ------------------------------
(***************************************************************************)
(* The puzzle hashes of the coins of one election.  A coin is recreated by *)
(* the finalizer it runs, from the hashes it carries; the SDK never sees   *)
(* that run, it computes the coin's hash again from the state it tracks,   *)
(* finds the coin by it, and writes the puzzle and the proofs of the next  *)
(* spend.  The two computations share no code: one is in Rue, one in Rust. *)
(*                                                                         *)
(* The order of a coin's action hashes as byte strings decides the layout  *)
(* of its action tree.  No program chooses it: it is a constant.           *)
(***************************************************************************)
EXTENDS SparseTree

CONSTANTS
  Voter, Ballot, Option,
  SlotOf,             \* the tree slot of each voter and ballot
  Amount,             \* the amounts each voter may lock
  CollateralAmount,
  Modes,              \* the option lists each ballot may have, in byte order;
                      \* <<>> is free
  Locks,              \* vote mode locks an election may be deployed with
  Order,              \* the order of the action hashes: [action name -> Nat]
  StartHeight, CloseHeight, MaxVoters, ThresholdNum, ThresholdDen

NoLock == <<"ones">>

ASSUME CoinPuzzlesAssumption ==
  /\ SlotOf \in [Voter \cup Ballot -> Slots]
  /\ Amount \in [Voter -> SUBSET Nat]
  /\ {StartHeight, CloseHeight, MaxVoters, ThresholdNum, ThresholdDen,
      CollateralAmount, TreeDepth} \subseteq 0 .. MaxInt
  /\ DOMAIN Modes = Ballot
  /\ \A b \in Ballot : \A options \in Modes[b] : options \in Seq(Range(options))
  /\ \A coin \in {{"register", "create_ballot", "deregister"}, {"mint_voting_coin", "release"},
                  {"finalize", "oracle", "announce_finalization"}} :
       \A name \in coin : Order[name] \in Nat /\ \A other \in coin \ {name} : Order[name] # Order[other]

VARIABLES
  state,      \* the Election Singleton's state
  election,   \* the puzzle hash of its live coin
  tree,       \* registered voters: slot -> [voter, amount]
  reg,        \* voter -> [coins: the lineage of puzzle hashes, cast: ballots]
  ballot,     \* ballot -> [coin, parent, options, root, weight, state]
  vote,       \* <<voter, ballot>> -> [coin: puzzle hash, data, from]
  left        \* voters who left; bound: each registers once

vars == <<state, election, tree, reg, ballot, vote, left>>

----------------------------------------------------------------------------
(* Names of what never changes.                                             *)

CatMod == Mod("cat")
ElectionId == Name("election")
CatTail == Name("tail")
Zero == <<"zero">>

VoterHint(v) == <<"voter_hint", ElectionId, CatTail, v>>
VotingCoinHint(v, b) == <<"voting_coin_hint", ElectionId, CatTail, v, b>>
ActiveLeaf(v, amount) == <<"active", v, amount>>
VotedLeaf(b) == <<"sha256", b>>

\* Chia's outer layers, and how they wrap what their inner puzzle creates.
CatOuter(inner) == Curry(CatMod, <<Atom(CatMod), Atom(CatTail), inner>>)
CatInner(outer) == outer[3][3]

----------------------------------------------------------------------------
(* The Rue side: what a running puzzle computes.                            *)

RueElectionState(s) ==
  Pair(Atom(s.root), Pair(ClvmInt(s.count), Pair(ClvmInt(s.weight), Pair(ClvmInt(s.start),
    Pair(Atom(s.ceremony), Pair(ClvmInt(s.maxVoters), Pair(Atom(s.vk), Atom(s.lock))))))))
RueRegistrationState(v, id, voted) ==
  Pair(Atom(v), Pair(Atom(id), Pair(Atom(voted), Nil)))
RueVotingState(v, b, data, from) == Pair(Atom(v), Pair(Atom(b), Pair(Atom(data), Atom(from))))
RueBallotState(s) == Pair(Bool(s.finalized), Pair(Atom(s.outcome), Atom(s.signers)))

\* The Registration Coin that the register action wants to see created, from
\* the action's own curried arguments.
RueFreshRegistration(register, v) ==
  LET layer == CurriedArg(register, 5)
      hint  == <<"voter_hint", CurriedArg(register, 9), CurriedArg(register, 4), v>>
      first == Curry(CurriedArg(register, 6), <<Atom(layer), Atom(hint)>>)
      inner == Curry(layer,
                 <<Curry(first, <<Atom(first)>>),
                   Atom(CurriedArg(register, 7)),
                   RueRegistrationState(v, CurriedArg(register, 9), CurriedArg(register, 10))>>)
  IN  Curry(CurriedArg(register, 3),
            <<Atom(CurriedArg(register, 3)), Atom(CurriedArg(register, 4)), inner>>)

\* The Voting Coin that mint_voting_coin creates, before the CAT layer wraps it.
RueVotingCoin(mint, v, b, data, from) ==
  LET layer == CurriedArg(mint, 3)
      hint  == <<"voting_coin_hint", ElectionId, CurriedArg(mint, 2), v, b>>
      first == Curry(CurriedArg(mint, 4), <<Atom(layer), Atom(hint)>>)
  IN  Curry(layer,
            <<Curry(first, <<Atom(first)>>),
              Atom(CurriedArg(mint, 5)),
              RueVotingState(v, b, data, from)>>)

\* The register and deregister actions' checks of a proof, and the state after.
RueRegisterAccepts(register, s, v, siblings, amount) ==
  /\ ComputeRoot(EmptyLeaf, SlotOf[v], siblings) = s.root
  /\ amount >= Unsigned(CurriedArg(register, 8)[2])

RueRegistered(s, v, siblings, amount) ==
  [s EXCEPT !.root = ComputeRoot(ActiveLeaf(v, amount), SlotOf[v], siblings),
            !.count = @ + 1,
            !.weight = @ + amount]

RueDeregisterAccepts(s, v, siblings, amount) ==
  ComputeRoot(ActiveLeaf(v, amount), SlotOf[v], siblings) = s.root

RueDeregistered(s, v, siblings, amount) ==
  [s EXCEPT !.root = ComputeRoot(EmptyLeaf, SlotOf[v], siblings),
            !.count = @ - 1,
            !.weight = @ - amount]

\* create_ballot's check of the election's lock.
RueModeLockOk(createBallot, s, optionsRoot) ==
  s.lock = CurriedArg(createBallot, 3) \/ s.lock = optionsRoot

\* The announcement of an open ballot's oracle, and the one a vote asserts.
RueOracleMessage(oracle) ==
  <<"open", CurriedArg(oracle, 1), CurriedArg(oracle, 2), CurriedArg(oracle, 3)>>
RueAssertedMessage(b, close, optionsRoot) == <<"open", b, ClvmInt(close)[2], optionsRoot>>

\* mint_voting_coin's check that the ballot is not in the voter's tree yet,
\* and the tree with it.
RueNotVoted(voted, b, siblings) == ComputeRoot(EmptyLeaf, SlotOf[b], siblings) = voted
RueVoted(b, siblings) == ComputeRoot(VotedLeaf(b), SlotOf[b], siblings)

----------------------------------------------------------------------------
(* The Rust side: what the SDK builds and predicts.                         *)

VotingRoot == ActionRoot1(<<Mod("update_vote")>>)

MintAction ==
  Curry(Mod("mint_voting_coin"),
        <<Atom(CatMod), Atom(CatTail), Atom(ActionLayer),
          Atom(Mod("voting_coin_finalizer")), Atom(VotingRoot)>>)
ReleaseAction == Mod("release")

RegistrationLeaves == SortedLeaves({MintAction, ReleaseAction}, Order)
RegistrationRoot == ActionRoot2(RegistrationLeaves)

RegistrationStateHash(v, voted) ==
  Pair(Atom(v), Pair(Atom(ElectionId), Pair(Atom(voted), Nil)))

RegistrationInner(v, voted) ==
  LayerPuzzle(FinalizerFull("registration_finalizer", VoterHint(v)),
              RegistrationRoot, RegistrationStateHash(v, voted))

\* The root of a voter's tree after votes on a sequence of ballots.
VotedBallotsRoot(ballots) ==
  RootAfterInserts([slot \in {SlotOf[b] : b \in Range(ballots)} |->
                      VotedLeaf(CHOOSE b \in Range(ballots) : SlotOf[b] = slot)])

FreshRegistrationCoin(v) == CatOuter(RegistrationInner(v, EmptySubtree[TreeDepth]))

\* The election's actions, as the deployer and as the aggregator curry them.
DeployedRegister ==
  Curry(Mod("register"),
        <<UintAtom(TreeDepth), Atom(EmptyLeaf), Atom(CatMod), Atom(CatTail),
          Atom(ActionLayer), Atom(Mod("registration_finalizer")), Atom(RegistrationRoot),
          UintAtom(CollateralAmount), Atom(ElectionId), Atom(EmptySubtree[TreeDepth])>>)
DeployedCreateBallot ==
  Curry(Mod("create_ballot"), <<Atom(LauncherPh), Atom(ElectionId), Atom(NoLock)>>)
DeployedDeregister ==
  Curry(Mod("deregister"),
        <<UintAtom(TreeDepth), Atom(EmptyLeaf), UintAtom(CollateralAmount), Atom(RegistrationRoot)>>)
DeployedRoot ==
  ActionRoot3(SortedLeaves({DeployedRegister, DeployedCreateBallot, DeployedDeregister}, Order))

RegisterAction ==
  Curry(Mod("register"),
        <<ClvmInt(TreeDepth), Atom(EmptyLeaf), Atom(CatMod), Atom(CatTail),
          Atom(ActionLayer), Atom(Mod("registration_finalizer")), Atom(RegistrationRoot),
          ClvmInt(CollateralAmount), Atom(ElectionId), Atom(EmptySubtree[TreeDepth])>>)
CreateBallotAction ==
  Curry(Mod("create_ballot"), <<Atom(LauncherPh), Atom(ElectionId), Atom(NoLock)>>)
DeregisterAction ==
  Curry(Mod("deregister"),
        <<ClvmInt(TreeDepth), Atom(EmptyLeaf), ClvmInt(CollateralAmount), Atom(RegistrationRoot)>>)
ElectionLeaves ==
  SortedLeaves({RegisterAction, CreateBallotAction, DeregisterAction}, Order)
ElectionRoot == ActionRoot3(ElectionLeaves)

ElectionStateHash(s) ==
  Pair(Atom(s.root), Pair(UintAtom(s.count), Pair(UintAtom(s.weight), Pair(UintAtom(s.start),
    Pair(Atom(s.ceremony), Pair(UintAtom(s.maxVoters), Pair(Atom(s.vk), Atom(s.lock))))))))

Genesis(lock) ==
  [root |-> Root(<<>>), count |-> 0, weight |-> 0, start |-> StartHeight,
   ceremony |-> Name("ceremony"), maxVoters |-> MaxVoters, vk |-> Name("vk"), lock |-> lock]

\* The coin the deployer creates, with the lock it was given.
DeployedElection(lock) ==
  SingletonOuter(ElectionId,
    LayerPuzzle(FinalizerFull("election_finalizer", ElectionId), DeployedRoot,
                ElectionStateHash(Genesis(lock))))

\* The coin an actor looks for at a state.
ElectionInner(s) ==
  LayerPuzzle(FinalizerFull("election_finalizer", ElectionId), ElectionRoot, ElectionStateHash(s))

\* The puzzle an actor reveals: its state is encoded by the CLVM library.
ElectionReveal(s) ==
  LayerPuzzle(FinalizerFull("election_finalizer", ElectionId), ElectionRoot, RueElectionState(s))

\* Actors replay the election from a genesis without lock.
Replayed == [state EXCEPT !.lock = NoLock]

\* The commitments to the option lists in use, and the proofs under them.
OptionLists == UNION Range(Modes)
OptionsRoot == [options \in OptionLists |-> VoteOptionsRoot(options)]
ProofOf ==
  [options \in OptionLists |->
     [data \in Option \cup UNION {Range(o) : o \in OptionLists} |-> OptionProof(options, data)]]

\* The two parts of the configuration's verification key.
VkIcNodes == <<Atom(Name("vk")), Atom(Name("ic"))>>

\* The actions of one ballot, as the issuer curries them at its launch.
FinalizeAction(b, root, weight) ==
  Curry(Mod("finalize"),
        VkIcNodes \o
        <<Atom(b), Atom(ElectionId), ClvmInt(CloseHeight), ClvmInt(ThresholdNum),
          ClvmInt(ThresholdDen), Atom(root), ClvmInt(weight)>>)
OracleAction(b, optionsRoot) ==
  Curry(Mod("oracle"), <<Atom(b), ClvmInt(CloseHeight), Atom(optionsRoot)>>)
AnnounceAction(b) == Curry(Mod("announce_finalization"), <<Atom(b)>>)
BallotLeaves(b, root, weight, optionsRoot) ==
  SortedLeaves({FinalizeAction(b, root, weight), OracleAction(b, optionsRoot), AnnounceAction(b)},
               Order)

BallotStateHash(s) == Pair(Bool(s.finalized), Pair(Atom(s.outcome), Atom(s.signers)))
FreshBallot == [finalized |-> FALSE, outcome |-> Zero, signers |-> Zero]

BallotInner(b, leaves, s) ==
  LayerPuzzle(FinalizerFull("ballot_finalizer", b), ActionRoot3(leaves), BallotStateHash(s))

VotingStateHash(v, b, data, from) == Pair(Atom(v), Pair(Atom(b), Pair(Atom(data), Atom(from))))

VotingCoin(v, b, data, from) ==
  CatOuter(LayerPuzzle(FinalizerFull("voting_coin_finalizer", VotingCoinHint(v, b)), VotingRoot,
                       VotingStateHash(v, b, data, from)))
----------------------------------------------------------------------------
(* Spends.                                                                  *)

LeafHashes == [slot \in DOMAIN tree |-> ActiveLeaf(tree[slot].voter, tree[slot].amount)]
Siblings(v) == Prove(LeafHashes, SlotOf[v])

Members == {v \in DOMAIN reg : SlotOf[v] \in DOMAIN tree /\ tree[SlotOf[v]].voter = v}

Extend(f, x, y) == [z \in DOMAIN f \cup {x} |-> IF z = x THEN y ELSE f[z]]
Without(f, x) == [z \in DOMAIN f \ {x} |-> f[z]]

Coin(v) == Last(reg[v].coins)
VotedRoot(v) == CatInner(Coin(v))[3][3][3][3][2][2]

\* The spent coin of the election, and the one its finalizer creates.
SpendElection(action, new) ==
  LET inner == SingletonInner(election)
  IN  /\ Runs(inner, ElectionLeaves, action)
      /\ state' = new
      /\ election' = SingletonOuter(ElectionId, Recreate(inner, RueElectionState(new)))

\* Bound: no more voters, and no more weight, than a coin's integers can hold.
Register(v, amount) ==
  /\ v \notin DOMAIN reg \cup left
  /\ state.count < MaxInt /\ state.weight + amount <= MaxInt
  /\ RueRegisterAccepts(RegisterAction, state, v, Siblings(v), amount)
  /\ SpendElection(RegisterAction, RueRegistered(state, v, Siblings(v), amount))
  /\ tree' = Extend(tree, SlotOf[v], [voter |-> v, amount |-> amount])
  /\ reg' = Extend(reg, v, [coins |-> <<RueFreshRegistration(RegisterAction, v)>>, cast |-> <<>>])
  /\ UNCHANGED <<ballot, vote, left>>

\* Deregistration and release, in one bundle.
Leave(v) ==
  /\ v \in Members
  /\ LET amount == tree[SlotOf[v]].amount
     IN  /\ RueDeregisterAccepts(state, v, Siblings(v), amount)
         /\ SpendElection(DeregisterAction, RueDeregistered(state, v, Siblings(v), amount))
  /\ Runs(CatInner(Coin(v)), RegistrationLeaves, ReleaseAction)
  /\ tree' = Without(tree, SlotOf[v])
  /\ reg' = Without(reg, v)
  /\ left' = left \cup {v}
  /\ UNCHANGED <<ballot, vote>>

\* create_ballot, and the launch of the ballot it creates from the state at
\* that time.
LaunchBallot(b, options) ==
  LET optionsRoot == OptionsRoot[options]
      leaves == BallotLeaves(b, state.root, state.weight, optionsRoot)
  IN  /\ b \notin DOMAIN ballot
      /\ RueModeLockOk(CreateBallotAction, state, optionsRoot)
      /\ SpendElection(CreateBallotAction, state)
      /\ ballot' = Extend(ballot, b,
                     [coin    |-> SingletonOuter(b, BallotInner(b, leaves, FreshBallot)),
                      parent  |-> Launcher,
                      options |-> options, root |-> state.root, weight |-> state.weight,
                      state   |-> FreshBallot])
      /\ UNCHANGED <<tree, reg, vote, left>>

LeavesOf(b) ==
  BallotLeaves(b, ballot[b].root, ballot[b].weight, OptionsRoot[ballot[b].options])
OracleOf(b) == OracleAction(b, OptionsRoot[ballot[b].options])

\* The spent coin of a ballot, and the one its finalizer creates.
SpendBallot(b, action, new) ==
  LET inner == SingletonInner(ballot[b].coin)
  IN  /\ Runs(inner, LeavesOf(b), action)
      /\ ballot' = [ballot EXCEPT
                      ![b].state  = new,
                      ![b].parent = inner,
                      ![b].coin   = SingletonOuter(b, Recreate(inner, RueBallotState(new)))]

\* What a vote on a ballot needs, whether it is minted or updated.
VoteAccepted(b, data) ==
  LET optionsRoot == OptionsRoot[ballot[b].options]
  IN  /\ ~ballot[b].state.finalized
      /\ RueOracleMessage(OracleOf(b)) = RueAssertedMessage(b, CloseHeight, optionsRoot)
      /\ VoteIsAllowed(optionsRoot, data, ProofOf[ballot[b].options][data])

\* The siblings of a ballot's free slot under the voter's tree, from whoever
\* can compute them.
BallotSiblings(v, b) ==
  Prove([slot \in {SlotOf[c] : c \in Range(reg[v].cast)} |->
           VotedLeaf(CHOOSE c \in Range(reg[v].cast) : SlotOf[c] = slot)], SlotOf[b])

\* The oracle's spend and the mint's, in one bundle.
Cast(v, b, data) ==
  LET siblings == BallotSiblings(v, b)
      from     == <<v, Len(reg[v].coins)>>
  IN  /\ v \in Members /\ b \in DOMAIN ballot
      /\ VoteAccepted(b, data)
      /\ SpendBallot(b, OracleOf(b), ballot[b].state)
      /\ Runs(CatInner(Coin(v)), RegistrationLeaves, MintAction)
      /\ RueNotVoted(VotedRoot(v), b, siblings)
      /\ reg' = [reg EXCEPT
                   ![v].coins = Append(@, CatOuter(Recreate(CatInner(Coin(v)),
                      RueRegistrationState(v, ElectionId, RueVoted(b, siblings))))),
                   ![v].cast = Append(@, b)]
      /\ vote' = Extend(vote, <<v, b>>,
                   [coin |-> CatOuter(RueVotingCoin(MintAction, v, b, data, from)),
                    data |-> data, from |-> from])
      /\ UNCHANGED <<state, election, tree, left>>

\* Under the oracle of the vote's own ballot; ElectionChain has the others.
UpdateVote(v, b, data) ==
  /\ <<v, b>> \in DOMAIN vote
  /\ VoteAccepted(b, data)
  /\ SpendBallot(b, OracleOf(b), ballot[b].state)
  /\ Runs(CatInner(vote[<<v, b>>].coin), <<Mod("update_vote")>>, Mod("update_vote"))
  /\ vote' = [vote EXCEPT
                ![<<v, b>>].data = data,
                ![<<v, b>>].coin = CatOuter(Recreate(CatInner(@),
                   RueVotingState(v, b, data, vote[<<v, b>>].from)))]
  /\ UNCHANGED <<state, election, tree, reg, left>>

\* The outcome is one some voter still supports.
FinalizeBallot(b) ==
  /\ b \in DOMAIN ballot
  /\ ~ballot[b].state.finalized
  /\ \E p \in DOMAIN vote :
       /\ p[2] = b
       /\ SpendBallot(b, FinalizeAction(b, ballot[b].root, ballot[b].weight),
                      [finalized |-> TRUE, outcome |-> vote[p].data, signers |-> Name("signers")])
  /\ UNCHANGED <<state, election, tree, reg, vote, left>>

AnnounceBallot(b) ==
  /\ b \in DOMAIN ballot
  /\ ballot[b].state.finalized
  /\ SpendBallot(b, AnnounceAction(b), ballot[b].state)
  /\ UNCHANGED <<state, election, tree, reg, vote, left>>

Init ==
  /\ \E lock \in Locks :
       /\ state = Genesis(lock)
       /\ election = DeployedElection(lock)
  /\ tree = <<>>
  /\ reg = <<>>
  /\ ballot = <<>>
  /\ vote = <<>>
  /\ left = {}

Next ==
  \/ \E v \in Voter : Leave(v) \/ \E amount \in Amount[v] : Register(v, amount)
  \/ \E b \in Ballot :
       \/ FinalizeBallot(b)
       \/ AnnounceBallot(b)
       \/ \E options \in Modes[b] : LaunchBallot(b, options)
  \/ \E v \in Voter, b \in Ballot, data \in Option : Cast(v, b, data) \/ UpdateVote(v, b, data)

Spec == Init /\ [][Next]_vars
----------------------------------------------------------------------------
(* What the SDK can do with the coins.                                      *)

\* walk_voted_ballots_history: from the live Registration Coin backward, the
\* ballot of each spend is the one whose insertion gives the coin it created.
WalkedBallots(v) ==
  LET coins == reg[v].coins
      cast  == reg[v].cast
      n     == Len(coins)
      found(k) == SubSeq(cast, k, n - 1)
      Explained(k) == coins[k] = CatOuter(RegistrationInner(v,
                                   VotedBallotsRoot(Append(found(k), cast[k - 1]))))
      walk[k \in 1 .. n] ==
        IF coins[k] = FreshRegistrationCoin(v) THEN [ok |-> TRUE, ballots |-> found(k)]
        ELSE IF k > 1 /\ Explained(k) THEN walk[k - 1]
        ELSE [ok |-> FALSE, ballots |-> <<>>]
  IN  walk[n]

RevealsElection(action) ==
  /\ election = SingletonOuter(ElectionId, ElectionReveal(Replayed))
  /\ Runs(ElectionReveal(Replayed), ElectionLeaves, action)

\* What an actor knows of a ballot is the memo its launcher was spent with; it
\* builds for the free mode, whatever the memo says of the options.
LauncherMemo(b) == [root |-> ballot[b].root, weight |-> ballot[b].weight]
FreeLeaves(b) == BallotLeaves(b, LauncherMemo(b).root, LauncherMemo(b).weight, FreeRoot)
FreeOracle(b) == OracleAction(b, FreeRoot)
FreeFinalize(b) == FinalizeAction(b, LauncherMemo(b).root, LauncherMemo(b).weight)
OpenInner(b) == BallotInner(b, FreeLeaves(b), FreshBallot)

\* The announcement's builder puts the decided state behind an empty cell.
AnnouncedInner(b, s) ==
  LayerPuzzle(FinalizerFull("ballot_finalizer", b), ActionRoot3(FreeLeaves(b)),
              Pair(Nil, Pair(ClvmInt(1), Pair(Atom(s.outcome), Atom(s.signers)))))

\* The proof that comes with the current coin of a ballot: its parent is taken
\* to have had the inner puzzle expected of the coin itself.
BallotLineage(b, inner) == IF ballot[b].parent = Launcher THEN Launcher ELSE inner

\* The chain accepts a spend of a ballot's coin that reveals this inner puzzle
\* and runs this action.
RevealsBallot(b, inner, action) ==
  /\ ballot[b].coin = SingletonOuter(b, inner)
  /\ Runs(inner, FreeLeaves(b), action)
  /\ BallotLineage(b, inner) = ballot[b].parent

\* The reader tells a decided ballot from an open one by its coin's hash.
FirstCoin(b) == SingletonOuter(b, BallotInner(b, LeavesOf(b), FreshBallot))
ReadsFinalized(b) == ballot[b].coin # FirstCoin(b)

\* Lists of actions for one spend of the election, and their solutions.
ActionLists ==
  UNION {[1 .. n -> [puzzle : Range(ElectionLeaves), solution : 1 .. 2]] : n \in 1 .. 3}
SolutionFor == [asked \in ActionLists |-> LayerSolution(ElectionLeaves, asked)]

\* The chain accepts what Voter::register builds for a voter with a free slot.
SdkRegisters(v, amount) ==
  /\ Root(LeafHashes) = state.root
  /\ RevealsElection(RegisterAction)
  /\ RueRegisterAccepts(RegisterAction, state, v, Siblings(v), amount)
  /\ FreshRegistrationCoin(v) = RueFreshRegistration(RegisterAction, v)

\* The chain accepts what Voter::release_collateral builds for a member.
SdkReleases(v) ==
  /\ RevealsElection(DeregisterAction)
  /\ RueDeregisterAccepts(state, v, Siblings(v), tree[SlotOf[v]].amount)
  /\ WalkedBallots(v).ok
  /\ Coin(v) = CatOuter(RegistrationInner(v, VotedBallotsRoot(WalkedBallots(v).ballots)))
  /\ Runs(CatInner(Coin(v)), RegistrationLeaves, ReleaseAction)

\* cast_vote moves k to the Voting Coin and gives the Registration Coin back
\* with what the configured collateral leaves, whatever the coin holds; the CAT
\* layer lets no amount come or go.  A coin without votes holds what was locked.
KeepsAmount(v, k) == (CollateralAmount - k) + k = tree[SlotOf[v]].amount

\* The chain accepts what Voter::cast_vote builds for an open ballot.
SdkCasts(v, b) ==
  /\ \A k \in 0 .. CollateralAmount : KeepsAmount(v, k)
  /\ RevealsBallot(b, OpenInner(b), FreeOracle(b))
  /\ Coin(v) = FreshRegistrationCoin(v)
  /\ Runs(CatInner(Coin(v)), RegistrationLeaves, MintAction)
  /\ RueNotVoted(VotedRoot(v), b, EmptySiblings)
  /\ RueOracleMessage(FreeOracle(b)) = RueAssertedMessage(b, CloseHeight, FreeRoot)

\* The chain accepts what Voter::update_vote builds for a vote on an open ballot.
SdkUpdates(v, b) ==
  /\ RevealsBallot(b, OpenInner(b), FreeOracle(b))
  /\ vote[<<v, b>>].coin = VotingCoin(v, b, vote[<<v, b>>].data, vote[<<v, b>>].from)
  /\ Runs(CatInner(vote[<<v, b>>].coin), <<Mod("update_vote")>>, Mod("update_vote"))
  /\ RueOracleMessage(FreeOracle(b)) = RueAssertedMessage(b, CloseHeight, FreeRoot)

\* The chain accepts what BallotIssuer::create_ballot builds.
SdkCreatesBallots(options) ==
  /\ RevealsElection(CreateBallotAction)
  /\ RueModeLockOk(CreateBallotAction, state, OptionsRoot[options])

\* The chain accepts what Aggregator::build_finalize_for_ballot builds for a
\* proof with these scalars, which the coin computes as integers and compares.
SdkFinalizes(b, scalars) ==
  /\ RevealsBallot(b, OpenInner(b), FreeFinalize(b))
  /\ \A n \in scalars : ScalarAtom(n) = ClvmInt(n)

\* The chain accepts what build_announce_finalization_bundle builds.
SdkAnnounces(b) == RevealsBallot(b, AnnouncedInner(b, ballot[b].state), AnnounceAction(b))

----------------------------------------------------------------------------
(* Properties.                                                              *)

\* Every live coin has the puzzle hash that the SDK computes from the state
\* it tracks, whatever spends led to it: the election (if it has no lock),
\* Registration Coins after any votes, Voting Coins after any updates, and
\* ballots before and after their decision, which the reader tells apart.
CoinsAreWhereTheSdkLooks ==
  /\ state.lock = NoLock => election = SingletonOuter(ElectionId, ElectionInner(Replayed))
  /\ \A v \in DOMAIN reg : Coin(v) = CatOuter(RegistrationInner(v, VotedBallotsRoot(reg[v].cast)))
  /\ \A p \in DOMAIN vote : vote[p].coin = VotingCoin(p[1], p[2], vote[p].data, vote[p].from)
  /\ \A b \in DOMAIN ballot :
       /\ ballot[b].coin = SingletonOuter(b, BallotInner(b, LeavesOf(b), ballot[b].state))
       /\ ReadsFinalized(b) = ballot[b].state.finalized

Free(b) == ballot[b].options = <<>>
Open(b) == ~ballot[b].state.finalized

\* Scalars whose first byte after their zeros has no sign bit.
PlainScalars == {n \in 0 .. MaxInt : n > 0 => ~HasSign(BigEndian[n][1])}

\* In an election without lock, the chain accepts what the SDK builds: a
\* registration while the voter's slot is free, the release of a member who
\* voted at most once, a new ballot, and on a free ballot that is open a first
\* vote of exactly the members who locked no more than the configured
\* collateral, an update, and the decision by a proof with plain scalars.
SdkSpendsAreAccepted ==
  state.lock = NoLock =>
    /\ \A v \in Voter : \A amount \in Amount[v] :
         SlotOf[v] \notin DOMAIN tree /\ amount >= CollateralAmount => SdkRegisters(v, amount)
    /\ \A v \in Members : Len(reg[v].cast) <= 1 => SdkReleases(v)
    /\ \A options \in OptionLists : SdkCreatesBallots(options)
    /\ \A b \in {c \in DOMAIN ballot : Free(c) /\ Open(c)} :
         /\ SdkFinalizes(b, PlainScalars)
         /\ \A v \in Members :
              reg[v].cast = <<>> =>
                (SdkCasts(v, b) <=> tree[SlotOf[v]].amount = CollateralAmount)
         /\ \A p \in DOMAIN vote : p[2] = b => SdkUpdates(p[1], b)

\* A restricted ballot's coin accepts exactly its own options with the proofs
\* the SDK makes, and a free ballot's any: no option of a list of any length
\* is lost to the padding of its tree.
ListedOptionsCanBeVoted ==
  \A b \in DOMAIN ballot : \A data \in Option \cup Range(ballot[b].options) :
    LET options == ballot[b].options
    IN  VoteIsAllowed(OptionsRoot[options], data, ProofOf[options][data])
          <=> options = <<>> \/ data \in Range(options)

\* A solution for any list of up to three of the election's actions, with
\* repetitions, makes the live coin's layer run that list in that order, each
\* action with its own solution.  The coin's root never changes, so lists are
\* only tried on a coin without voters or ballots.
LayerRunsWhatWasAsked ==
  reg = <<>> /\ ballot = <<>> =>
  \A asked \in ActionLists :
    RunLayer(CurriedArg(SingletonInner(election), 2), SolutionFor[asked]) = asked
=============================================================================
