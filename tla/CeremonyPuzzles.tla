---------------------------- MODULE CeremonyPuzzles -----------------------------
(***************************************************************************)
(* The coins of one ceremony as the chain and the SDK see them: the puzzle *)
(* the Ceremony Singleton is recreated with, the solutions its lineage is  *)
(* read back from, the markers and the voucher it leaves, and the bundles  *)
(* the SDK and its WebAssembly bindings build.  Ceremony has the protocol  *)
(* these coins carry.                                                      *)
(*                                                                         *)
(* The puzzles look at a key, a hash and its predecessor, and leave the    *)
(* other fields of a solution to whoever spends the coin: they may be any  *)
(* nodes, and a spend may run an action several times.  The coins of the   *)
(* singleton's lineage are numbered; a coin of another kind is named by    *)
(* the one that its line started from, and its generation in that line, as *)
(* a voucher recreates itself.                                             *)
(***************************************************************************)
EXTENDS Clvm

CONSTANTS
  Contribution,     \* what may be contributed: [pk, hash, entropy, payload]
  Seal,             \* what a ceremony may be sealed with: [vk, root, bytes]
  Ceremonies,       \* the parameters a ceremony may be deployed with
  DefaultMaxVoters, \* max_voters as the WebAssembly bindings assume it
  FunderAmount,     \* amounts of the coin that pays for a bundle
  Order,            \* the order of the action hashes: [action name -> Nat]
  MaxHeight,        \* bound: the last height
  MaxSigned,        \* bound: signatures
  MaxContributions, \* bound: contributions of the ceremony, and of one spend
  MaxBatch,
  MaxElections,     \* bound: vouchers that elections were linked with
  MaxForged         \* bound: voucher coins that the ceremony did not create

Parameters ==
  [start : 0 .. MaxInt, length : 0 .. MaxInt, minimum : 0 .. MaxInt, maxVoters : 0 .. MaxInt]

ASSUME CeremonyPuzzlesAssumption ==
  /\ \A c \in Contribution :
       /\ c.pk[1] = "bytes48"
       /\ \A node \in {c.entropy, c.payload} : node[1] = "atom" => node = Atom(node[2])
  /\ Order["contribute"] \in Nat /\ Order["finalize"] \in Nat
  /\ Order["contribute"] # Order["finalize"]
  /\ Ceremonies \subseteq Parameters
  /\ DefaultMaxVoters \in 0 .. MaxInt
  /\ FunderAmount \subseteq Nat
  /\ {MaxHeight, MaxSigned, MaxContributions, MaxBatch, MaxElections, MaxForged} \subseteq Nat
  /\ MaxContributions <= MaxInt

VARIABLES
  height,
  params,    \* what the ceremony was deployed with
  memo,      \* what its launcher was spent with
  coins,     \* the singleton's lineage: [ph, solution, height]; the last is unspent
  state,     \* the state its last coin carries
  signed,    \* public signatures: [pk, msg]
  created,   \* markers and vouchers: [parent, generation, ph, memos]
  spent      \* the vouchers among them that were spent

vars == <<height, params, memo, coins, state, signed, created, spent>>

----------------------------------------------------------------------------
(* Names.                                                                   *)

CeremonyId == Name("ceremony")
MarkerMod == Mod("ceremony_coin")
VoucherMod == Mod("ceremony_voucher")

\* 32 bytes, and other strings: what a decoder tells apart.
Hash32(x) == <<"bytes32", x>>
Text(what, x) == <<what, x>>

VkSeed == Hash32("seed")
Zero32 == Hash32("zero")
NotSpent == <<"not_spent">>
Failed == [failed |-> TRUE]

----------------------------------------------------------------------------
(* What a running puzzle computes.                                          *)

IntArg(puzzle, i) == Unsigned(CurriedArg(puzzle, i)[2])

RueState(s) ==
  Pair(ClvmInt(s.count), Pair(Atom(s.last), Pair(ClvmInt(IF s.finalized THEN 1 ELSE 0),
    Pair(Atom(s.vk), Atom(s.root)))))

\* The singleton's last coin, as the one that a coin's line starts from.
ThisCoin == <<"singleton", Len(coins)>>

RueMessage(contribute, hash, prev) ==
  <<"ceremony_contribute", CurriedArg(contribute, 1), hash, prev>>

\* The window of a contribution and the check of its predecessor; its
\* signature is a condition that the bundle meets or not.
RueContributes(contribute, s, c, prev) ==
  /\ ~s.finalized
  /\ s.last = prev
  /\ IntArg(contribute, 2) <= height
  /\ height < IntArg(contribute, 2) + IntArg(contribute, 3)
  /\ [pk |-> c.pk, msg |-> RueMessage(contribute, c.hash, prev)] \in signed

RueMarker(contribute, c, prev) ==
  [parent |-> ThisCoin, generation |-> 0,
   ph     |-> Curry(CurriedArg(contribute, 4),
                    <<Atom(CurriedArg(contribute, 1)), Atom(c.pk), Atom(c.hash), Atom(prev)>>),
   memos  |-> <<Atom(CurriedArg(contribute, 1)), c.entropy>>]

RueFinalizes(finalize, s) ==
  /\ height >= IntArg(finalize, 2) + IntArg(finalize, 3)
  /\ s.count >= IntArg(finalize, 7)
  /\ ~s.finalized

RueSeal(finalize, seal) ==
  [parent |-> ThisCoin, generation |-> 0,
   ph     |-> Curry(CurriedArg(finalize, 5),
                    <<Atom(CurriedArg(finalize, 1)), Atom(seal.vk), Atom(seal.root)>>),
   memos  |-> <<Atom(CurriedArg(finalize, 1)), Atom(seal.vk), Atom(seal.root), seal.bytes>>]

RueVoucher(finalize, vk) ==
  LET msg   == <<"ceremony_voucher", vk, IntArg(finalize, 4), CurriedArg(finalize, 1)>>
      first == Curry(CurriedArg(finalize, 6),
                     <<Atom(CurriedArg(finalize, 6)), Atom(msg), Atom(CurriedArg(finalize, 1))>>)
  IN  [parent |-> ThisCoin, generation |-> 0,
       ph     |-> Curry(first, <<Atom(first)>>),
       memos  |-> <<Atom(CurriedArg(finalize, 1))>>]

\* A voucher's announcement, and the coin it leaves.
RueAnnounced(voucher) == CurriedArg(voucher.ph[2], 2)
RueRecreated(voucher) ==
  LET self == CurriedArg(voucher.ph, 1)
  IN  [parent |-> voucher.parent, generation |-> voucher.generation + 1,
       ph     |-> Curry(self, <<Atom(self)>>),
       memos  |-> <<Atom(CurriedArg(voucher.ph[2], 3))>>]

----------------------------------------------------------------------------
(* What the SDK hashes.                                                     *)

Genesis == [count |-> 0, last |-> VkSeed, finalized |-> FALSE, vk |-> Zero32, root |-> Zero32]

StateHash(s) ==
  Pair(UintAtom(s.count), Pair(Atom(s.last), Pair(UintAtom(IF s.finalized THEN 1 ELSE 0),
    Pair(Atom(s.vk), Atom(s.root)))))

\* Fault: the length is curried before the start.
ContributeHash_fault(p) ==
  Curry(Mod("contribute"),
        <<Atom(CeremonyId), UintAtom(p.length), UintAtom(p.start), Atom(MarkerMod)>>)

ContributeHash(p) ==
  Curry(Mod("contribute"),
        <<Atom(CeremonyId), UintAtom(p.start), UintAtom(p.length), Atom(MarkerMod)>>)

FinalizeHash(p) ==
  Curry(Mod("finalize"),
        <<Atom(CeremonyId), UintAtom(p.start), UintAtom(p.length), UintAtom(p.maxVoters),
          Atom(MarkerMod), Atom(VoucherMod), UintAtom(p.minimum)>>)

ActionLeaves(p) == SortedLeaves({ContributeHash(p), FinalizeHash(p)}, Order)
ActionsRoot(p) == ActionRoot2(ActionLeaves(p))

InnerWith(p, stateHash) ==
  LayerPuzzle(FinalizerFull("ceremony_finalizer", CeremonyId), ActionsRoot(p), stateHash)

DeployedCeremony(p) == SingletonOuter(CeremonyId, InnerWith(p, StateHash(Genesis)))

MarkerPuzzle(pk, hash, prev) ==
  Curry(MarkerMod, <<Atom(CeremonyId), Atom(pk), Atom(hash), Atom(prev)>>)

\* Fault: a voucher says nothing of the size of the key's circuit.
VoucherMessage_fault(vk, maxVoters) == <<"ceremony_voucher", vk, 0, CeremonyId>>
VoucherMessage(vk, maxVoters) == <<"ceremony_voucher", vk, maxVoters, CeremonyId>>

VoucherPuzzle(vk, maxVoters) ==
  LET first == Curry(VoucherMod,
                     <<Atom(VoucherMod), Atom(VoucherMessage(vk, maxVoters)), Atom(CeremonyId)>>)
  IN  Curry(first, <<Atom(first)>>)

\* What a participant signs.
ContributionMessage(hash, prev) == <<"ceremony_contribute", CeremonyId, hash, prev>>

MemoTag == Text("tag", "ceremony_v2")
LauncherMemo(p) ==
  <<MemoTag, ClvmInt(p.start), ClvmInt(p.length), ClvmInt(p.minimum), ClvmInt(p.maxVoters), VkSeed>>

----------------------------------------------------------------------------
(* Solutions, and the SDK's decoders of them.                               *)

IsPair(node) == node[1] = "pair"
IsAtom(node) == node[1] = "atom"
NoNode == <<"no_node">>

First(node) == IF IsPair(node) THEN node[2] ELSE NoNode
Rest(node) == IF IsPair(node) THEN node[3] ELSE NoNode

\* Field i of n: the last one is the rest of the list.
FieldOf(node, i, n) ==
  LET after[k \in 0 .. n - 1] == IF k = 0 THEN node ELSE Rest(after[k - 1])
  IN  IF i = n THEN after[n - 1] ELSE First(after[i - 1])

ContributeSolution(c, prev) ==
  Pair(Atom(c.pk), Pair(Atom(c.hash), Pair(Atom(prev), Pair(c.entropy, c.payload))))
FinalizeSolution(seal) == Pair(Atom(seal.vk), Pair(Atom(seal.root), seal.bytes))

\* The rest of a list, which no reader looks into.
More(list) == IF Len(list) = 1 THEN Nil ELSE <<"more", Tail(list)>>

SingletonSolution(proof, action, solutions) ==
  LET layer == Pair(action, Pair(Atom(Text("proof", proof)),
                                 Pair(Pair(Head(solutions), More(solutions)), Nil)))
  IN  Pair(Atom(proof), Pair(ClvmInt(1), Pair(layer, Nil)))

\* In the solution of a singleton, that of its action layer, the action that
\* it runs, and the solutions it runs it with: the SDK takes the first.
LayerIn(solution) == First(Rest(Rest(solution)))
ActionRun(solution) == First(LayerIn(solution))
ActionSolutions(solution) == First(Rest(Rest(LayerIn(solution))))
ActionSolution(solution) == First(ActionSolutions(solution))

\* The fields of a solution of this shape, or failure.
Decode(node, shape) ==
  LET field(i) == FieldOf(node, i, Len(shape))
  IN  IF \A i \in DOMAIN shape :
           /\ IsAtom(field(i))
           /\ shape[i] = "hash" => field(i)[2][1] = "bytes32"
      THEN [fields |-> [i \in DOMAIN shape |-> field(i)[2]]]
      ELSE Failed

\* Fault: the entropy is not expected before the payload.
ContributeShape_fault == <<"bytes", "hash", "hash", "bytes">>
ContributeShape == <<"bytes", "hash", "hash", "bytes", "bytes">>
FinalizeShape == <<"hash", "hash", "bytes">>

----------------------------------------------------------------------------
(* The SDK's readers.                                                       *)

ReadMemo ==
  IF memo[1] # MemoTag THEN Failed
  ELSE LET int(i) == Unsigned(memo[i][2][2])
       IN  [start |-> int(2), length |-> int(3), minimum |-> int(4), maxVoters |-> int(5)]

\* The lineage without its unspent coin.
SpentCoins == 1 .. Len(coins) - 1

\* A spend that decodes as a contribution is taken for one, another for a
\* finalize.
AfterSpend(s, coin) ==
  LET node == ActionSolution(coin.solution)
      contribution == Decode(node, ContributeShape)
      seal == Decode(node, FinalizeShape)
  IN  IF s = Failed THEN Failed
      ELSE IF contribution # Failed
           THEN [s EXCEPT !.count = @ + 1, !.last = contribution.fields[2]]
      ELSE IF seal # Failed
           THEN [s EXCEPT !.finalized = TRUE, !.vk = seal.fields[1], !.root = seal.fields[2]]
      ELSE Failed

\* The walk to the unspent coin, and the lineage proof that comes with it:
\* only the first coin's is more than a placeholder.
CurrentState ==
  LET after[k \in 0 .. Len(coins) - 1] ==
        IF k = 0 THEN Genesis ELSE AfterSpend(after[k - 1], coins[k])
  IN  after[Len(coins) - 1]
EveProof == <<"eve">>
CurrentProof ==
  IF Len(coins) = 1 THEN EveProof ELSE <<"lineage", Len(coins) - 1, Zero32>>
Tip == [proof |-> CurrentProof, state |-> CurrentState]

RecordOf(i) ==
  LET contribution == Decode(ActionSolution(coins[i].solution), ContributeShape)
  IN  IF contribution = Failed \/ contribution.fields[1][1] # "bytes48" THEN Failed
      ELSE LET f == contribution.fields
           IN  [pk |-> f[1], hash |-> f[2], prev |-> f[3], height |-> coins[i].height,
                entropy |-> f[4], payload |-> f[5],
                marker |-> <<<<"singleton", i>>, MarkerPuzzle(f[1], f[2], f[3])>>]

\* One spend that is not a contribution, and there is no list.
ListContributions ==
  LET records == [i \in SpentCoins |-> RecordOf(i)]
  IN  IF Failed \in Range(records) THEN Failed ELSE [records |-> records]

\* The unspent vouchers among the coins with the ceremony's hint.
Vouchers(vk, maxVoters) ==
  {c \in created \ spent : c.memos[1] = Atom(CeremonyId) /\ c.ph = VoucherPuzzle(vk, maxVoters)}

----------------------------------------------------------------------------
(* The bundles the SDK builds.  A puzzle it reveals has its integers from   *)
(* the CLVM library, where a hash has them from the SDK's own encoder.      *)

ContributePuzzle(p) ==
  Curry(Mod("contribute"),
        <<Atom(CeremonyId), ClvmInt(p.start), ClvmInt(p.length), Atom(MarkerMod)>>)

\* As the bundle's builder curries it: neither max_voters nor the voucher.
FinalizePuzzle(p) ==
  Curry(Mod("finalize"),
        <<Atom(CeremonyId), ClvmInt(p.start), ClvmInt(p.length), Atom(MarkerMod),
          ClvmInt(p.minimum)>>)

\* As finalize.rue lists its arguments.
CommittedFinalize(p) ==
  Curry(Mod("finalize"),
        <<Atom(CeremonyId), ClvmInt(p.start), ClvmInt(p.length), ClvmInt(p.maxVoters),
          Atom(MarkerMod), Atom(VoucherMod), ClvmInt(p.minimum)>>)

Bundle(p, s, proof, action) ==
  [inner |-> InnerWith(p, RueState(s)), leaves |-> ActionLeaves(p), action |-> action,
   proof |-> proof]

\* The funder pays for a marker of two mojos, and gets the rest back.
Funded(funder, cost) == funder >= cost
Change(funder, cost) == IF funder > cost THEN funder - cost ELSE 0

\* The chain's view of a bundle: its reveal is the coin's, its action is a
\* leaf, and its proof names the coin's parent.
TrueProof ==
  IF Len(coins) = 1 THEN EveProof
  ELSE <<"lineage", Len(coins) - 2, SingletonInner(coins[Len(coins) - 1].ph)>>

Reveals(bundle) ==
  /\ Last(coins).ph = SingletonOuter(CeremonyId, bundle.inner)
  /\ Contains(bundle.leaves, bundle.action)
  /\ Runs(bundle.inner, bundle.leaves, bundle.action)
  /\ bundle.proof = TrueProof

\* A contribution after the state a reader returned.
ContributionAccepted(p, s, proof, c, funder) ==
  /\ Funded(funder, 2)
  /\ Change(funder, 2) + 2 = funder
  /\ Reveals(Bundle(p, s, proof, ContributePuzzle(p)))
  /\ RueContributes(ContributePuzzle(p), s, c, s.last)

\* If the reader failed there is nothing to build on.
SdkContribute(proof, c, funder) ==
  Tip.state # Failed /\ ContributionAccepted(ReadMemo, Tip.state, proof, c, funder)

\* The bindings know one max_voters, and drop the seal from a tip.
BindingsParams(p) == [p EXCEPT !.maxVoters = DefaultMaxVoters]
BindingsState(s) == [s EXCEPT !.finalized = FALSE, !.vk = Zero32, !.root = Zero32]
BindingsContribute(proof, c, funder) ==
  /\ Tip.state # Failed
  /\ ContributionAccepted(BindingsParams(ReadMemo), BindingsState(Tip.state), proof, c, funder)

FinalizeAccepted(p, s, proof, funder) ==
  /\ Funded(funder, 4)
  /\ Change(funder, 4) + 4 = funder
  /\ Reveals(Bundle(p, s, proof, FinalizePuzzle(p)))
  /\ RueFinalizes(FinalizePuzzle(p), s)

\* A deployment that spends this voucher with the puzzle it makes of the key,
\* and asserts the announcement of that puzzle.
LinkAccepted(voucher, vk, maxSigners) ==
  /\ voucher \in created \ spent
  /\ voucher.ph = VoucherPuzzle(vk, maxSigners)
  /\ Sha(voucher, RueAnnounced(voucher)) = Sha(voucher, VoucherMessage(vk, maxSigners))

\* The bindings are given a voucher's parent, and make its puzzle themselves.
BindingsLink(voucher, vk) ==
  LinkAccepted([voucher EXCEPT !.ph = VoucherPuzzle(vk, DefaultMaxVoters)], vk, DefaultMaxVoters)

----------------------------------------------------------------------------
(* Steps.                                                                   *)

Keys == {seal.vk : seal \in Seal}
Sizes == {p.maxVoters : p \in Ceremonies}
Predecessors == {VkSeed} \cup {c.hash : c \in Contribution}

AdvanceHeight ==
  /\ height < MaxHeight
  /\ height' = height + 1
  /\ UNCHANGED <<params, memo, coins, state, signed, created, spent>>

\* A participant signs a contribution, after any it likes.
SignContribution(c, prev) ==
  /\ Cardinality(signed) < MaxSigned
  /\ signed' = signed \cup {[pk |-> c.pk, msg |-> ContributionMessage(c.hash, prev)]}
  /\ UNCHANGED <<height, params, memo, coins, state, created, spent>>

\* The singleton's spend: its finalizer recreates the coin.  An action that is
\* run again needs no other proof.
SpendSingleton(action, solutions, new, outputs) ==
  LET k     == Len(coins)
      inner == SingletonInner(coins[k].ph)
  IN  /\ Runs(inner, ActionLeaves(params), action)
      /\ state' = new
      /\ coins' = Append([coins EXCEPT
                            ![k].solution = SingletonSolution(TrueProof, action, solutions),
                            ![k].height   = height],
                         [ph       |-> SingletonOuter(CeremonyId, Recreate(inner, RueState(new))),
                          solution |-> NotSpent, height |-> 0])
      /\ created' = created \cup outputs

\* Contributions in one spend follow one another.
Batches == UNION {[1 .. n -> Contribution] : n \in 1 .. MaxBatch}
Before(batch, i) == IF i = 1 THEN state.last ELSE batch[i - 1].hash
StateBefore(batch, i) == [state EXCEPT !.count = @ + (i - 1), !.last = Before(batch, i)]

\* Contributions with signatures that are public, by whoever spends them; a
\* coin creates no two children alike.
Contribute(batch) ==
  LET action    == ContributePuzzle(params)
      marker(i) == RueMarker(action, batch[i], Before(batch, i))
      n         == Len(batch)
  IN  /\ \A i \in 1 .. n :
           RueContributes(action, StateBefore(batch, i), batch[i], Before(batch, i))
      /\ \A i, j \in 1 .. n : i # j => marker(i).ph # marker(j).ph
      /\ state.count + n <= MaxContributions
      /\ SpendSingleton(action, [i \in 1 .. n |-> ContributeSolution(batch[i], Before(batch, i))],
           StateBefore(batch, n + 1), {marker(i) : i \in 1 .. n})
      /\ UNCHANGED <<height, params, memo, signed, spent>>

\* Anyone may seal the ceremony, with any key.
Finalize(seal) ==
  LET action == CommittedFinalize(params)
  IN  /\ RueFinalizes(action, state)
      /\ SpendSingleton(action, <<FinalizeSolution(seal)>>,
           [state EXCEPT !.finalized = TRUE, !.vk = seal.vk, !.root = seal.root],
           {RueSeal(action, seal), RueVoucher(action, seal.vk)})
      /\ UNCHANGED <<height, params, memo, signed, spent>>

\* Anyone may create a coin with a voucher's puzzle and the ceremony's hint;
\* here, for each key and size from a coin of its own.
Outside(vk, maxVoters) == <<"outside", vk, maxVoters>>
ForgeVoucher(vk, maxVoters) ==
  /\ Cardinality({c \in created : c.parent[1] = "outside" /\ c.generation = 0}) < MaxForged
  /\ \A c \in created : c.parent # Outside(vk, maxVoters)
  /\ created' = created \cup
       {[parent |-> Outside(vk, maxVoters), generation |-> 0,
         ph |-> VoucherPuzzle(vk, maxVoters), memos |-> <<Atom(CeremonyId)>>]}
  /\ UNCHANGED <<height, params, memo, coins, state, signed, spent>>

\* An election is deployed with a voucher; the voucher recreates itself.
DeployLinkedElection(vk, maxVoters) ==
  /\ Cardinality(spent) < MaxElections
  /\ \E voucher \in Vouchers(vk, maxVoters) :
       /\ LinkAccepted(voucher, vk, maxVoters)
       /\ spent' = spent \cup {voucher}
       /\ created' = created \cup {RueRecreated(voucher)}
  /\ UNCHANGED <<height, params, memo, coins, state, signed>>

Init ==
  /\ height = 0
  /\ params \in Ceremonies
  /\ memo = LauncherMemo(params)
  /\ coins = <<[ph |-> DeployedCeremony(params), solution |-> NotSpent, height |-> 0]>>
  /\ state = Genesis
  /\ signed = {}
  /\ created = {}
  /\ spent = {}

Next ==
  \/ AdvanceHeight
  \/ \E c \in Contribution, prev \in Predecessors : SignContribution(c, prev)
  \/ \E batch \in Batches : Contribute(batch)
  \/ \E seal \in Seal : Finalize(seal)
  \/ \E vk \in Keys, size \in Sizes : ForgeVoucher(vk, size) \/ DeployLinkedElection(vk, size)

Spec == Init /\ [][Next]_vars

----------------------------------------------------------------------------
(* Properties.                                                              *)

\* A spend as the SDK makes them: of one action, whose solution has hashes of
\* 32 bytes and atoms where a puzzle would take any node.
ListedShape(c, prev) ==
  /\ c.hash[1] = "bytes32" /\ prev[1] = "bytes32"
  /\ IsAtom(c.entropy) /\ IsAtom(c.payload)
SealedShape(seal) == seal.vk[1] = "bytes32" /\ seal.root[1] = "bytes32" /\ IsAtom(seal.bytes)

Plain(coin) ==
  LET node == ActionSolution(coin.solution)
  IN  /\ Rest(ActionSolutions(coin.solution)) = Nil
      /\ IF ModName(ActionRun(coin.solution)) = "contribute"
         THEN \E c \in Contribution, prev \in Predecessors :
                node = ContributeSolution(c, prev) /\ ListedShape(c, prev)
         ELSE \E seal \in Seal : node = FinalizeSolution(seal) /\ SealedShape(seal)

AllPlain == \A i \in SpentCoins : Plain(coins[i])

\* The contributions of a list follow one another from the seed to the state,
\* each in the window, with a marker that exists and carries its entropy.
Transcribes(records) ==
  /\ Len(records) = state.count
  /\ \A i \in DOMAIN records :
       LET r == records[i]
       IN  /\ r.prev = (IF i = 1 THEN VkSeed ELSE records[i - 1].hash)
           /\ r.height \in params.start .. params.start + params.length - 1
           /\ \E c \in Contribution :
                /\ r.pk = c.pk /\ r.hash = c.hash
                /\ Atom(r.entropy) = c.entropy /\ Atom(r.payload) = c.payload
           /\ \E c \in created : <<c.parent, c.ph>> = r.marker /\ c.memos[2] = Atom(r.entropy)
  /\ state.last = (IF records = <<>> THEN VkSeed ELSE Last(records).hash)

\* The SDK reads the parameters of any ceremony from its launcher, and hashes
\* its last coin as the puzzles do.  Its walk ends in the state that coin
\* carries exactly if every spend was one the SDK could have made; then, until
\* it is sealed, its contributions can be listed in order
\* (read_ceremony_launcher_memo, find_current_singleton,
\* list_contributions_via_chain).  A payload that is no atom, a hash of another
\* length, two contributions in a spend or a seal whose key's bytes decode as
\* the rest of a contribution is enough to lose every reader.
ReaderRebuildsTheCeremony ==
  /\ ReadMemo = params
  /\ Last(coins).ph = SingletonOuter(CeremonyId, InnerWith(params, StateHash(state)))
  /\ CurrentState = state <=> AllPlain
  /\ AllPlain =>
       IF state.finalized THEN ListContributions = Failed
       ELSE ListContributions # Failed /\ Transcribes(ListContributions.records)

\* The chain accepts a contribution built on the state that a reader returned
\* exactly if the reader was not lost, its participant signed for that state,
\* in the window and before the seal; with the reader's lineage proof, only if
\* it is the first, and from the bindings, only if the ceremony has the
\* max_voters they assume (build_contribute_bundle, contribute_to_ceremony_js).
ContributionsAreAccepted ==
  \A c \in Contribution, funder \in FunderAmount, proof \in {Tip.proof, TrueProof} :
    LET due == /\ funder >= 2
               /\ AllPlain
               /\ proof = Tip.proof => coins[1].solution = NotSpent
               /\ [pk |-> c.pk, msg |-> ContributionMessage(c.hash, state.last)] \in signed
               /\ height \in params.start .. params.start + params.length - 1
               /\ ~state.finalized
    IN  /\ SdkContribute(proof, c, funder) <=> due
        /\ BindingsContribute(proof, c, funder)
             <=> due /\ params.maxVoters = DefaultMaxVoters

\* An election can be linked with a key and a size exactly if the ceremony was
\* sealed with that key and has that max_voters, however many elections used
\* its voucher, or somebody created a voucher's coin of that key and size:
\* nothing ties such a coin to the seal.  Through the bindings, only for the
\* max_voters they assume (find_voucher_coin,
\* build_deploy_bundle_with_ceremony_link, build_deploy_bundle_js).
ElectionsCanBeLinked ==
  \A vk \in Keys, size \in Sizes :
    LET due == \/ state.finalized /\ state.vk = vk /\ size = params.maxVoters
               \/ \E c \in created : c.parent = Outside(vk, size)
    IN  /\ (\E voucher \in Vouchers(vk, size) : LinkAccepted(voucher, vk, size)) <=> due
        /\ (\E voucher \in Vouchers(vk, size) : BindingsLink(voucher, vk))
             <=> due /\ size = DefaultMaxVoters

\* What the SDK builds for the ceremony's coins is what their puzzles accept.
CeremonyBundlesAreAccepted == ContributionsAreAccepted /\ ElectionsCanBeLinked
=============================================================================
