# Formal models of chia-scaled-parallel-voting

A TLA+ development of the on-chain voting protocol in this repository: the
coins the Rue puzzles under `puzzles/` define, the SDK actors that read them
and build their spends, the ceremonies that make an election's keys, and what
an election promises as a result. `PROJECT.json` ties every definition to the
lines it models and lists the runs, the mutant each property must refute, the
hazards and the theorems.

## 1. The system

An election is a family of coins. Spending a coin runs one *action* puzzle of a
committed set, whose *finalizer* recreates the coin with the new state. A bundle
holds several spends, succeeds or fails as a whole, and its spends bind each
other by announcements. No process keeps protocol state for the others: every
actor reads the chain through a node, builds a bundle from what it read, and
submits it while others do the same.

What a puzzle does not constrain, the spender chooses, and that is a good deal
here: the coin an announcement is expected from, the signatures and memos of a
vote, the snapshot that a launcher curries, the signers of a proof, the hashes of
a ceremony, the key it is sealed with. Several promises of the protocol therefore
rest on clients that use the SDK. The models keep the two apart: `ElectionChain`,
`Ceremony` and `CeremonyPuzzles` have what the puzzles enforce of anybody,
`ElectionOfficers` and `ElectionSdk` what holds when some or all of the parties
use the SDK. Section 5 lists the texts that claim more.

| part | state | operations | talks to |
|---|---|---|---|
| Election Singleton (`puzzles/election`) | registration root, count, weight, mode lock | `register`, `deregister`, `create_ballot` | CAT parent (register), Registration Coin (deregister announcement), ballot launcher |
| Registration Coin (`puzzles/registration_coin`) | voted-ballots root, release destination, CAT amount | `mint_voting_coin`, `release` | Ballot oracle, deregister announcement |
| Voting Coin (`puzzles/voting_coin`) | ballot, vote data | `update_vote` | Ballot oracle |
| Ballot Coin (`puzzles/ballot_coin`) | finalized, outcome, signer commitment; curried close height, threshold, options root, registration snapshot | `finalize`, `oracle`, `announce_finalization` | proof verifier, everyone who asserts its announcements |
| Action layer (`puzzles/action.rue`, `finalizer.rue`, `merkle_utils.rue`) | none | runs the actions whose Merkle proofs verify | all coins |
| Trees and modes (`sdk/src/merkle.rs`, `vote_mode.rs`) | sparse tree of voters | insert, remove, prove, options proofs | voter, aggregator, issuer |
| Chain readers, indexer (`sdk/src/chain.rs`, `actors/aggregator.rs`, `actors/indexer.rs`) | a synced copy of state, voter set and tree | sync, find or wait for the current singleton | a node with a primary and a lagging secondary index |
| Ballot issuer and reader (`sdk/src/actors/ballot.rs`) | none of its own | `create_ballot`, `launch_ballot`, listing, lookup, announcement bundles | reads the election, writes the ballot |
| Voter (`sdk/src/actors/voter.rs`) | keys | register, cast, update, release | reads election and ballot lineages, builds bundles |
| Aggregator (`sdk/src/actors/aggregator.rs`) | the synced copy | collect votes, prepare the witness, `build_finalize` | reads all lineages, proves, writes finalize |
| Prover (`sdk/src/prover`) | witness | `prove`, `verify_offchain`, `Scalars::compute` | aggregator, `finalize.rue` |
| Ceremony Singleton, voucher, marker (`puzzles/ceremony_*`) | last hash, count, finalized | `contribute`, `finalize` | contributors, deployer of elections |
| Ceremony actors (`sdk/src/actors/ceremony.rs`) | none of their own | contribute and finalize bundles, listing, key derivation, voucher lookup | ceremony coins |
| Off-chain ceremony (`sdk/src/ceremony`) | a transcript, in memory and in a file | contribute, accept, finalize, save, resume | participants, by files |
| Puzzle hashing (`sdk/src/puzzles.rs`, `state.rs`, `action_spends.rs`) | none | the hash of every coin, and the puzzle and proofs of its next spend | all SDK actors |
| Deployer (`sdk/src/actors/deployer.rs`) | configuration | genesis state and action root | everyone who derives them again |
| CLI, wasm, web app | - | front ends | SDK |

What is hard here, and what each part must get right (the full list, with the
line where each bites, is `hazards` in `PROJECT.json`):

* **Election Singleton.** Root, count and weight are three values kept equal by
  increments; two keys may share a tree slot; a departure subtracts an amount
  the spender names. Correct when count and weight always total the tree. That
  registered weight is collateral that is still locked holds of voters who use the
  SDK (`NothingStranded`, `CountedVotesWerePaidFor`); the puzzles take the id of
  the coin that announces the lock from the spender.
* **Registration and Voting Coins.** The record of what a voter voted on lives
  in a coin that dies when the voter leaves; spends are joined only by
  announcements of one bundle; the ballot an update refers to is named by the
  solution, and so is the coin that speaks for it. Correct when released coins
  are never spent again and no collateral is created or lost when votes split it;
  through the SDK also when a counted vote was paid for, and a vote for a ballot
  stands from its close.
* **Ballot Coin.** The election moves on while the ballot runs, the launch spend
  is included some time after the state it carries was read, and anybody may
  finalize. Correct when parameters never change after launch and the outcome is
  decided once. That it is decided by a quorum of the snapshot is up to the
  clients that launch and finalize: the circuit takes signers and weights from the
  prover. That it is one of the listed options is up to the signers.
* **Readers.** A state is rebuilt spend by spend, from announcements and atoms
  of solutions, over a node whose secondary index lags and while the coins move.
  Correct when what is returned was so at some time of the read, nothing that
  was visible is missed, and a read ends.
* **Voter, issuer, aggregator.** Each works from a copy of the chain that is
  already old: live tree against snapshot, spent coins, votes that change while
  they are collected. Correct when a bundle that was returned is one the chain
  takes unless one of its coins was spent, and a ballot that can be decided is.
* **Puzzle hashing.** The SDK finds a coin only by a hash it computes itself,
  from the state it tracks; the coin got its hash from a finalizer in Rue.
  Correct when the two agree after any history of spends, and what the SDK
  reveals is what the coin committed to.
* **Ceremonies.** Contributors race for one chain of hashes, several to a spend,
  and the first to finalize seals it, with whatever key. Correct when the chain
  stays one chain and is sealed once, and a reader has its state exactly when it
  understood every spend. Off
  the chain, contributions arrive late, twice, on forks or altered, and the
  coordinator restarts from a file that it writes in place.

## 2. Modules

| module | models |
|---|---|
| `ElectionChain` | all election coins, with one action per puzzle: what the puzzles enforce of anybody |
| `ElectionOfficers` | extends `ElectionChain`: the same coins when the issuer and the aggregator use the SDK |
| `BallotDecision` | the abstract promise: electorates that never change, endorsements, at most one decision carried by a quorum |
| `ElectionSdk` | extends `ElectionOfficers` and `Circuit`: voters, issuer and aggregator that read, build, submit and are overtaken |
| `SingletonReader` | how an actor reads the Election Singleton, query by query |
| `BallotReader` | how ballots are listed and looked up, query by query |
| `Ceremony` | the Ceremony Singleton, the readers of its lineage, the clients that derive a key and finalize |
| `SealedTranscript` | the abstract promise: a transcript that grows at its end, at most one seal, after enough entries, nothing after it |
| `OffchainCeremony` | the coordinator, its file, the participants and the files they send |
| `Clvm` | tree hashes as terms, the encodings of integers, the action layer and the SDK's side of it, singletons over the layer |
| `SparseTree` | extends `Clvm`: the sparse Merkle trees, their proofs, and the tree of a ballot's options |
| `CoinPuzzles` | extends `SparseTree`: the puzzle hashes of an election's coins, as Rue makes them and as the SDK predicts them |
| `CeremonyPuzzles` | extends `Clvm`: the coins of a ceremony, the readers of their solutions and memos, the bundles of the SDK and its bindings |
| `Circuit` | the public scalars, the witness and its arithmetic in words, the constraints |
| `CeremonyPuzzlesClaims`, `CoinPuzzlesClaims` | what a comment says of the SDK and the code does not do |
| `MCElectionChain`, `MCElectionOfficers`, `MCElectionSdk`, `MCSingletonReader`, `MCBallotReader`, `MCCeremony`, `MCCeremonyPuzzles`, `MCCoinPuzzles`, `MCOffchainCeremony` | instances for TLC |
| `ElectionProofs` | theorems about `ElectionChain`, `ElectionOfficers` and `ElectionSdk`, with facts about sums over a finite set |
| `ClvmProofs` | what the operators of `Clvm` compute: encoders, trees of actions, solutions of the layer |
| `CoinPuzzlesProofs` | what the operators of `SparseTree` compute, and theorems about `CoinPuzzles` |
| `CeremonyPuzzlesProofs`, `SingletonReaderProofs`, `BallotReaderProofs`, `CeremonyProofs`, `OffchainCeremonyProofs` | theorems about the module each is named for |

`ElectionSdk` is `ElectionOfficers` composed with its clients: every landed bundle
is one of its actions. A bundle waits before it lands, and what was checked when it
was built may no longer hold then; that no landing breaks the promises
`ElectionOfficers` takes from its issuer and aggregator is a refinement
(`ImplementsOffice`, `OfficeTheorem`). `ElectionOfficers` in turn only restricts
`ElectionChain`, so the theorems of each module are theorems of the next.
`SingletonReader`, `BallotReader` and `CoinPuzzles` each take apart what
`ElectionSdk` and `ElectionChain` treat as one step: a read of a coin, a listing,
and a coin's identity. `CeremonyPuzzles` does the same for `Ceremony`.

### `ElectionChain`

*State.* `tree`, `count`, `weight` are the Election Singleton's
`registration_merkle_root`, `registration_count`, `registration_vote_weight`; a
root is represented by what it commits to. `regCoin[<<v, n>>]` is v's n-th
Registration Coin (`voted` is its `voted_ballots_root`, `locked` what its first
coin held and `amount` what is left after minting; status `released` stands for a
release_destination that is set, which ends the lineage). `ballot[b]` goes from no
coin, to the launcher coin `create_ballot` makes (`minted`), to a launcher spend
built but not included (`drafted`), to a Ballot Coin (`launched`) with what was
curried into it. `votingCoin[<<v, n, b>>]` is the coin `regCoin[<<v, n>>]` minted
for b: its vote, the ballot its last spend named (`cast`), when, and its stake.
`signed` is every vote signature its signer has given away, in a bundle or
otherwise: it cannot be withdrawn, so a later vote does not erase an earlier one.

*Actions.* Each is an action puzzle with the announcements it asserts, in two
forms: beside the counterpart in this election, or beside another coin. The
puzzles compute an announcement's id from a coin id the solution gives
(`register.rue:185`, `release.rue:44`, `mint_voting_coin.rue:106`,
`update_vote.rue:90`), so any coin may make it.

* `Register` has the CAT parent create the coin it announces; `RegisterAlone` has
  no such coin; `FundCoin` is a CAT spend that creates a Registration Coin
  without any registration.
* `Deregister(v, R)` with the voter's coins R released in the same bundle;
  `ReleaseAlone` releases beside another announcer.
* `CreateBallot`; `PrepareLaunch` and `LaunchBallot` split the launch where its
  spend is built and where it is included, with the live state for a snapshot or
  any of `Snapshot`, as the standard launcher curries what it is given. A drafted
  launch may be abandoned for a new one.
* `MintVotingCoin` and `UpdateVote` assert an open ballot only of the counterpart
  (`by`). The signature is a solution field that is announced and not verified, so
  a spend may carry it or not (`sigs`); `SignOffChain` gives one away without a
  spend. `UpdateVote` may name another ballot than the coin's.
* `Finalize` takes the tree and the total of the prover's scalars, the set S that
  the aggregate signature stands for, and no more: `finalize.rue` compares the
  scalars with what is curried, and verifies proof and signature.
* `AdvanceHeight` is a new transaction block.

*Abstractions.* Hashes are injective and signatures unforgeable; `AggregateVerifies`
is that each signer signed. A CAT coin is spent in a ring of its own, as every
builder in `action_spends.rs` makes it. A signature check by AggSigMe means the
actor is the voter, and is not a separate guard. Numbers are unbounded.
`max_voters` is carried by the state and tested by no puzzle.

### `ElectionOfficers`

`ElectionChain` with two of its parties held to what the SDK does. `SdkPrepareLaunch`
curries root and weight as `launch_ballot` reads them, of one state of the election;
`SdkFinalize` asks first what the aggregator and the prover ask before they build a
bundle (`Provable`): signers registered in the tree, whose weight there meets the
threshold. Voters and everybody else stay as free as in `ElectionChain`.

It is here, and not on the chain, that an outcome gets its quorum. `create_ballot`
leaves the snapshot to whoever spends the launcher; the circuit (`circuit.rs:36-54`
and `265-275`) has no membership gadget and takes weights and slack as free
witnesses; the puzzle sees scalars, a proof and a signature. `OutcomeHasQuorum`,
`RivalOutcomesShareASigner` and the refinement of `BallotDecision`
(`ImplementsDecision`) are stated for this module and for no other finalizer.

### `ElectionSdk`

*State.* `draft[c]` is the call that client c is in: which operation, how far
(`synced`, `read`, `built`), what it has read, which coins its bundle spends, and
whether one of them has been spent since (`stale`).

*Actions.* Each operation of `voter.rs`, `ballot.rs` and `aggregator.rs` is split
where it awaits the node: `StartRegister`, `BuildRegister`, `LandRegister`, and
so on for `Cast`, `Update`, `Release`, `Create`; the aggregator syncs, collects
the votes voter by voter, prepares the witness, dry-runs and lands `finalize`.
A check that fails is an error the caller gets, and ends the call. Landing is the
action of `ElectionChain` with what was read, guarded by freshness. `OtherOracle`
is anybody's spend of an open Ballot Coin, which overtakes every bundle that has
it; `Drop` is a bundle that is given up or evicted, after which the caller may
start again.

*What the checks are.* They are the code's and no more: the caller's tree must
hash to the root found, the register path must end in an empty leaf, a
Registration Coin is found by the hash of one that has not voted, a ballot by
the hash of an open one without options, `create_ballot` only without a lock, a
release recovers at most one ballot from the coin's history, and `finalize` is
run with the scalars of the caller's tree against the curried snapshot. Reads of
a coin are single steps here.

*The proof.* `PrepareWitness` asks `Circuit` whether the prover gets through:
the aggregator's own check (`Quorate`, in u128) comes first, then the prover's
with checked u64 products, and then the constraints, over a field of `FieldOrder`
elements. `ScalarsMatch` compares the eight scalars. The model is of honest
provers: the circuit does not constrain the slack to be small, so what its
constraints alone would force on another prover is not claimed here.
`ElectionOfficers` takes the quorum as what the aggregator checked, by comparing
integers; that the arithmetic of the prover does not get in its way below the width
of a word is `QuorumsAreProvedTheorem`.

### `SingletonReader`

*State.* `lineage` is the singleton's coins with the spend of each but the last;
`indexed` is how many the node's secondary index has seen; `call[r]` is where a
read is in its walk.

*Actions.* One per query: the search by the eve's puzzle hash, its check against
the primary index, the launcher's child, the loop over children, the decoding of
a spend. `Start` is `sync_with_chain`, or `wait_for_current_singleton` around
`find_current_singleton` with its poll interval and limit. `OtherSpend` and
`CatchUp` move the chain and the index between any two queries. `Submit` is an
actor that spends the coin it found.

*Decoding.* `Decode` is `apply_singleton_spend`: it sees announcements and the
atoms of a solution, and tries hashes of candidate keys and amounts until one
matches, with the fallback to the curried minimum. With `Combine` a spend may
run two actions, of which it decodes the first; the properties are checked and
proved for spends of one action, which are all that the SDK builds.

### `BallotReader`

*State.* Every coin and spend has the height it happened at, one per height:
`deployed`, `created[b]` and `launch[b]` are those of the election's first coin, a
launcher coin and its spend with its memo; `election[k]` and `ballot[b][k]` are the
spends of the k-th coin of a lineage. `indexed` is the height the secondary index
has come up to; `call[r]` is a listing or a lookup under way.

*Actions.* One per query: the election's eve, the children of each of its coins,
a launcher's record, its memo, the launcher's child, the walk along the ballot's
coins, the solution that decided. Searches by parent are answered by the index,
point lookups by the chain, so one snapshot mixes two times; the properties say
how far it still makes sense. `Abort` is an error of any query.

### `Ceremony`

*State.* `state` is the `CeremonyState` curried into the unspent singleton, plus
the `vk` the finalize spend commits. `contributions` is what the singleton
accepted, each as the pair of its own hash and its predecessor's. `records`,
`sealSeen` and `garbled` are what the readers make of the spends: a reader decodes
the first solution of each (`actors/ceremony.rs:468`), as a contribution, as a seal,
or not at all. `key[c]` is what client c derived.

*Actions.* `Contribute(b, r)` is one spend with the contributions b, which a reader
decodes as r. `contribute.rue` binds a hash to nothing but a signature over it and
its predecessor: hashes may repeat, be their own predecessor or be the seed, the
key may be anybody's, and who saw a signature may push it again. `DeriveKey` is
listing, validating and deriving; it is possible at any height and only while the
transcript is readable. `Finalize(k, r)` seals with any key, by anyone, in bytes of
any shape, as `finalize.rue:47-54` allows; `FinalizeOwn` is a client that seals with
what it derived, perhaps long before.

*Abstractions.* A key is represented by the records it was derived from; any other
key is `ForeignKey`. The marker root is a function of the same records and left out.
A derivation that fails on the entropy or payload of a contribution fails for
every reader, as a spend that does not decode (`garbled`) does.
`MinParticipants` is compared with a count of contributions, and one participant
may make them all. Vouchers and the elections linked through them are in
`CeremonyPuzzles`; nothing compares an election's verification key with the
voucher's `vk_hash`, so no property says that they agree.

### `OffchainCeremony`

*State.* `coord` is the coordinator in memory (transcript, finalized flag, keys it
has handed out, whether it is writing), `disk` the file it resumes from, which is
`Torn` while it is not whole, `saved` the last transcript that was written in full,
`overridden` whether the operator passed over that file. `out` is every
contribution file that exists and `made` those that are as `contribute` wrote them;
`drawn` and `damages` are the bounds.

*Actions.* `Start` (init), `Resume`, `AcceptContribution`, `Finalize`, `BeginSave`,
`EndSave` and `Stop` are the coordinator's. `save_json` truncates the file and then
writes it, so a stop in between leaves one that no command reads. With
`--overwrite`, `Start` replaces a file that exists, and the operator may resume
from any other transcript (`overridden`). `Stop` loses what was not saved, and the
finalized flag, which is not in the file. A participant extends any transcript it
can get, so that forks and contributions on contributions nobody accepted are
ordinary. A file is never used up, so it is delivered late and again.
`DamageContribution` and `DamageDisk` alter one field, to bytes no round produced or
to those of another file; a participant that rewrites several fields of one file
to fit each other is several of these steps.

*Abstractions.* A raw transcript determines the entropies mixed in, and a digest
what it digests; the keys are a function of the raw bytes.

*What it promises, and what not.* `accept_contribution` compares the last
attestation of a file with the coordinator's transcript and with the file's own raw
bytes, and nothing else of it. A file that `contribute` wrote extends what was mixed
in before (`AcceptedRoundsOnlyExtend`, whatever was altered elsewhere), and one
altered field is never accepted in a way that loses a round or does not replay.
Two altered fields that fit each other are enough to replace every round, and TLC
shows it when the condition is dropped; the properties say `damages <= 1` where
they need it, and section 5 has the texts that claim more.

### `Clvm`, `SparseTree`, `CoinPuzzles`

Here a hash is a term: two hashes are equal exactly when they were built the same
way, which makes "the SDK finds the coin" and "the puzzle it reveals is the
coin's" decidable. `Clvm` has currying, the encodings of integers that the code
uses (bytes of base `ByteBase`, the sign bit, the minimal form), and the layer's
verification of action proofs beside the SDK's construction of them. `SparseTree`
has the SDK's root and proofs from occupied leaves, the coins' walk from a leaf to
the root, and the padded tree of options.

`CoinPuzzles` keeps each live coin's puzzle hash as state, updated only by what
the Rue finalizers and actions compute from their own curried arguments, and, on
the other side, the hashes, reveals and proofs as the SDK computes them from the
data it tracks. The actions are the same protocol steps as in `ElectionChain`,
with the solution the SDK would give. A CAT spend is accepted only if its outputs
add up to what the coin holds: a cast, which `cast_vote` writes for the configured
minimum, only where that is what was locked (`KeepsAmount`). The order in which action hashes sort as
byte strings lays out the action tree and is not the program's choice; it is a
constant (`Order`).

### `CeremonyPuzzles`

*State.* `coins` is the singleton's lineage: each coin's puzzle hash, as the
finalizer in Rue makes it from the coin before, and the solution it was spent
with. `state` is what the last coin carries, known to no reader. `created` are the
markers and vouchers, with their parents and memos, and `spent` the vouchers used
since; `memo` is the launcher's. `signed` are the participants' signatures, which
bind neither a coin nor a time.

*Actions.* `SignContribution` reads the tip and signs. `Contribute` and `Finalize`
are the puzzles with any solution they accept: a spend may run several
contributions, a payload or entropy may be a pair, a hash may have another length
than 32 bytes, and the bytes of a seal may go on like a contribution.
`ForgeVoucher` creates a coin with the voucher's puzzle hash that the ceremony has
nothing to do with; `DeployLinkedElection` spends a voucher that the reader found. The
SDK's side has no steps: the decoders walk solutions as pairs and atoms, and tell a
contribution from a seal only by the shape they find. What a reader returns feeds
the builders, in the properties: does the coin have the puzzle that is revealed, is
the action in its root, does the layer run it, is the lineage proof the parent's,
does the action accept the solution, is the bundle funded.

*What the readers can do.* Their walk ends in the state the coin carries exactly if
every spend was one the SDK could have made (`AllPlain`), and one other spend, by
anybody, loses them: from then on no contribution can be built. The properties are
equivalences, so that they say when the reader is right and when it is not.

*Abstractions.* A contribution's hash names its participant, key, payload and
entropy. The readers' queries are single steps (`SingletonReader` has the
interleavings). Labels and fees are left out. A seal's key and root are not
compared with the contributions, by the puzzle or here.

### Faults

A definition whose name ends in `_fault` is a plausible bug of the definition
next to it, and part of no specification. Each is put in place of its namesake in
turn (`mutants` in `PROJECT.json`), and the property listed must then fail.

## 3. Runs

All runs set `CHECK_DEADLOCK FALSE`: heights, registrations, spends and
contributions are bounded; an election in which everything is finalized and
spent, a sealed ceremony whose elections are deployed, or a lineage that has
reached its bound really stops.

| run | instance | shows |
|---|---|---|
| `shared_slot` | `ElectionOfficers`: 3 voters, v2 and v3 in one slot, amounts 1 and 2, 1 ballot, threshold 2/3, height to 1, no Registration Coins | totals of tree, count and weight, quorums, rival outcomes share a signer, refinement of `BallotDecision` |
| `two_ballots` | `ElectionChain`: 1 voter with 1 registration, amounts 1 and 2 against a minimum of 2, stakes of 1, 2 ballots of either mode, the live snapshot or another, height to 1 | types, collateral conserved by votes, released coins stay spent, launched ballots fixed, under any announcer |
| `sdk` | 2 voters, 1 ballot, thresholds of 1/2 and 2/3, words of 6 in a field of 37, amount 1, height to 1, 1 registration each | bundles that were returned are accepted, what they were built from still holds, a ripe ballot is decided, and landings keep the promises of `ElectionOfficers` |
| `sdk_rejoin` | 1 voter with 2 registrations, amounts 1 and 2, a unanimous threshold, height to 2, with and without options | the bundles of a voter who leaves and comes back are accepted, collateral is never stranded, counted votes were paid for, votes are frozen at the close |
| `reader` | 2 voters, amounts 1 and 2, 1 reader, 4 singleton coins, 2 attempts, one action per spend | reads return states of the lineage, recent ones, fail only under lag, and end |
| `ballots` | 2 ballots of the election and 1 of another, 6 heights, 1 reader | listings miss nothing, snapshots say of a ballot only what was so during the read |
| `ceremony` | the seed and 2 more hashes, up to 4 contributions in spends of 1 or 2, 2 clients, window of heights 1 and 2, threshold 2 | types, one chain, when a walk has the coin's state, refinement of `SealedTranscript`, and under fairness a ceremony that can be read and has enough is sealed |
| `offchain` | 3 participants with 1 contribution each, 2 altered fields, any restarts, overwriting | one key per coordinator, saved rounds are kept, accepted rounds extend and replay |
| `coin_puzzles` | 2 voters in slots 0 and 3, 2 ballots in slots 2 and 3 of trees of depth 2, bytes below 4, amounts 2 and 6, a list of 5 options, with and without a lock | the coins have the hashes the SDK computes, and accept the puzzles and proofs it writes |
| `ceremony_puzzles` | up to 3 contributions alone or in pairs out of 4 kinds, 2 signatures, 2 kinds of seal, thresholds 1 and 2, max_voters 3 and 9, window of heights 1 and 2, 2 linked elections, 1 forged voucher | readers rebuild the ceremony exactly when every spend is the SDK's kind; contributions and linked deployments are accepted exactly when they should be |
| `claim_sdk_seals`, `claim_announce` | the smallest ceremony; 1 voter and 1 ballot | two statements of comments that the code does not keep (section 5) |

*Bounds.* Three voters are the fewest for a shared slot beside another voter;
weights 1 and 2 with 2/3 give totals the fraction divides and totals it does not
(which is what separates the real comparison from a rounded one). No property of
`shared_slot` reads a Registration or Voting Coin: registrations are those beside
another announcer and signatures those given away off chain, which leave the
election and the ballot no different. In `two_ballots`, a minimum of 2 with stakes
of 1 lets a vote split a lock, and two ballots are the fewest for an update that
names another ballot than the coin's. Two registrations (`sdk_rejoin`) are the fewest
for leaving and coming back. Height 1 gives a before and an at-or-after of a close,
and with two ballots one that is closed beside one that is open. In the SDK runs one
client's bundle is overtaken by another's as soon as there are two clients, and
voter, issuer, aggregator and outsider are four.

A reader sees an eve, a later coin back in the genesis state and a coin after
that in a lineage of four; two attempts are the fewest for a retry. Six heights
are the fewest for two ballots that are created and launched and one of them
decided (with the deployment), and with fewer ballots leave room for spends
before and after the decision. Four contributions of a ceremony are two more than
the threshold: a key can be derived at the threshold, and again from a longer
transcript; two clients can then hold different keys. Two hashes beside the seed
let a chain repeat one, return to the seed or name itself; spends of two
contributions are the fewest of which a reader sees a part. Heights 0 to 4 give a
block before the window, two in it and two after. Off the chain, three participants
with a contribution each give forks of equal length, a contribution on one nobody
accepted, and a chain that is longer than what is replaced. One altered field is
what the checks are for; two are the fewest that pass them, and are there so that
the condition `damages <= 1` decides something.

Trees of depth 2 have the first and the last slot and both neighbours of one pair.
Bytes below 4 make the sign bit (2), the carry (2 + 6) and the length of an
integer all happen below 16. A coin's integers end at `MaxInt`, and registrations
and contributions that would pass it are not tried. Five options are padded on two
levels. The order of action hashes is one that is neither the code's own nor its
reverse. In the ceremony the window and the third contribution set a sign bit,
max_voters is 3 or 9 so that one of them has two bytes and only one is what the
bindings assume, and heights run from before the window to the block after it.
Three contributions are the fewest for a pair before or after a single one; a
finalize after them is a reader that meets a seal, and one with bytes that decode
as a contribution is a reader that is fooled. A second election uses the voucher
that a first one left. Two signatures carry three contributions where a hash is
signed as its own predecessor.

With words of 6 a total of 2 at 2/3 overflows the prover's product (2 * 3) and a
total of 1, or a threshold of 1/2, does not: a quorum the aggregator accepts and
the prover refuses is reached, and so is one that both accept. The field has more
than 6 * 6 elements, as the real one has more than the square of a word.

*Symmetry.* `shared_slot` permutes the two voters of the shared slot, whose
weights and slot are the same, and the two outcomes; `two_ballots` permutes the two
ballots, `ballots` the election's own two ballots, and `offchain` the participants.
Neither the specifications nor the properties name one of them, and none of these
runs has a liveness property. No other run uses symmetry.

*Fairness.* Three properties assume some, and each only of the party that it is
about.

* `EnoughIsSealed`: blocks keep coming, every client keeps reading the chain until
  it holds a key and keeps trying to finalize. Finalizing is permissionless and
  one honest client is enough; nothing is assumed of contributors, and none of
  the steps is assumed to win a race (weak fairness). The property supposes that a
  key can be derived, and ends where somebody makes that impossible: one spend the
  readers do not decode is enough, and anyone can make it. The code justifies the
  fairness as far as its users run it: no process of the repository finalizes by
  itself.
* `RipeBallotsAreDecided`: weak fairness of `AggregatorNext`, that is of the calls
  of one aggregator in whatever order; it gives up on a bundle only once one of
  its coins is spent. The property supposes that outsiders eventually stop
  spending the Ballot Coin to read it, and that the ballot stays ripe: its
  snapshot is, or is again, the live tree. Without either, this code may try for
  ever.
* `ReadsEnd`: weak fairness of the steps of a call that was started. Nothing is
  assumed of the index, which may never catch up.

`BuiltBundlesAreAccepted` leaves two things out, and says so: bundles whose
height has not come or has passed, which no dry run tests, and a cast from a lock
above the minimum, which the CAT layer refuses (section 5).

## 4. Proofs

All theorems hold for all constants satisfying the assumptions their module
names. Of `ElectionChain` these are `ConstantsAssumption` and `FiniteAssumption`
(finitely many voters, slots and ballots).

`ElectionProofs`, of `ElectionChain`, for whoever spends the coins:

* `TypeCorrect`: `Spec => []TypeOK`. That `registration_count` stays natural is
  not inductive alone; `TypeInv` adds that it is the number of occupied slots.
* `LaunchedBallotTheorem`, `ReleasedCoinTheorem`: the action properties
  `LaunchedBallotIsFixed` and `ReleasedCoinIsSpent`, with one lemma for what a step
  may do to a ballot (`BallotMoves`), one for a Registration Coin (`RegCoinMoves`)
  and one for votes (`VoteMoves`).

What follows needs facts on sums: a sum over a finite set unfolds, adds over
disjoint sets, changes by the change of one term. The library's induction theorems
take an operator as a parameter, so induction over finite sets comes from the
well-founded order of the natural numbers instead, as a fact about sets of numbers
(`NumberInduction`).

* `RegistrationTotalsTheorem`: `RegistrationTotals`, through `Totals`: the weight
  totals the tree, which has only leaves that are empty or hold the minimum
  (`ElectionTotals`). A departure names its amount, and the proof of its leaf is
  what makes it the right one; who announces does not matter.
* `ConservedTheorem`: `CollateralIsConserved`, through `ConservedInv`, which adds
  that a coin that was not minted holds nothing and that a minted one is recorded
  in the coin that minted it; a step changes one term of a sum, or moves an amount
  from the coin to a term that was zero.

of `ElectionOfficers`, whose steps are steps of `ElectionChain` (`OfficeIsChain`), with
`OfficeInv`: types, every snapshot drafted or launched totals its tree
(`WeightInv`), and only launched ballots have an outcome (`BallotInv`, else a new
draft could replace the snapshot of a decided one):

* `QuorumTheorem`: `OfficeSpec => []OutcomeHasQuorum`.
* `RivalsTheorem`: two outcomes that each carry more than half of a snapshot share
  a signer: disjoint sets of signers would weigh more than the snapshot
  (`DisjointSigners`, `MajoritiesExceed`).
* `DecisionTheorem`: `OfficeSpec => ImplementsDecision`. Each step of the coins maps
  to a step of `BallotDecision` or to none of its steps (`DecisionStep`), and the
  electorate's weight is the snapshot's (`ElectorateWeight`).

and of `ElectionSdk`, under `ClientAssumption` too. Every step of the coins there is
one an actor makes (`ActorNext`), and those are steps of `ElectionOfficers`
(`ActorsAreOfficers`). `ActorInv` is what such coins satisfy: `OfficeInv`, quorums,
a standing vote is signed and a signed vote was minted, the registered voters are the
holders of one live coin each (`StrandInv`), and a snapshot's leaves were locked.
`SdkInv` adds the drafts.

* `OfficeTheorem`: `SdkSpec => ImplementsOffice`. A launch that lands curries what one
  state of the election had, and a decision was checked against a snapshot that
  launched ballots keep. With it every theorem above is one on elections run
  through the SDK.
* `SdkTypeCorrect`, `FreshDraftsTheorem`: through `SdkInv`. A step either only
  plans (`Planning`: the chain stays, and one draft changes to one that is fresh
  and grounded) or lands, and then a draft that shares no coin with what landed
  keeps what it was built from (`KeepsFresh`).
* `BuiltBundlesTheorem`: `BuiltBundlesAreAccepted`. The puzzles' assertions are
  the `Can...` predicates of `ElectionChain`, which guard its actions. The fresh
  part of a draft gives those on coins it spends; the rest come from `Grounded`,
  what earlier phases of the call checked and no later step undoes, stale draft
  or not: the registration is still unused, because only its voter's bundles
  create it; the votes collected are signed, because a standing vote always is;
  the quorum was taken from a snapshot that launched ballots keep
  (`KeepsGrounded`, `LaunchedKeeps`).
* `NothingStrandedTheorem`: the puzzles let a voter deregister without releasing, and
  register without locking; through the SDK the registered voters are exactly the
  holders of a live Registration Coin.
* `PaidVotesTheorem`: `CountedVotesWerePaidFor`, from `SnapshotsWereLocked`: a leaf of a
  snapshot was of a live coin when it was read, and coins keep what they locked.
* `FrozenVotesTheorem`: `VotesFrozenAtClose`: an update for the ballot is too late,
  and a second mint of the same coin is recorded.
* `QuorumsAreProvedTheorem`: whenever both products of a ballot's numbers stay in
  a word, a set of signers that passes the aggregator's check passes the prover's
  (`QuorumInWords`), and the witness satisfies the constraints over the field
  (`WitnessSatisfies`). The step that matters is from the weight of the signers to
  the total of the snapshot, which bounds the carried weight and so the wrapped sum.
  A hypothesis on the numbers is needed: `sdk` reaches quorums that the prover
  refuses. It says nothing of other provers.

`SingletonReaderProofs`, through `ReaderInv` (`ChainOK`: the lineage is chained by
the actions of its spends; `CallOK`: what each phase of a walk knows):

* `LineageStatesTheorem`: with one action per spend, a read returns the state of a
  coin of the lineage. The step that carries it is `DecodeIsAfter`: whatever
  candidates the decoder tries, the announcement determines the action.
* `RecentReadsTheorem`, `ErrorsTheorem`, `ReaderTypeCorrect`.

`BallotReaderProofs`, through `IInv`: the chain's heights (`ChainInv`: coins and
spends of a lineage follow one another, at most one ballot decision) and what each
phase of a read knows (`CallInv`). Every claim about a past time is stated for a
prefix of heights, and `PastIsFixed` shows once that growth of the chain does not
touch it; the stability of each part of the invariant follows, and only the step
of the read itself is left to look at.

* `ListingsComplete`: a listing has come to the election's coin k with exactly the
  ballots created below k, in order, and ends only where the index had no further
  spend, so nothing that was indexed when it began can be left out.
* `SnapshotsRegular`: the walk knows that every coin it passed was spent, and that
  no decision lies before the coin it stands on unless it has named it; the memo
  was read before the launcher's child, which is why it may be missing only for a
  launch after the read began.

`CeremonyProofs`, under `CeremonyAssumption`:

* `CeremonyTypeCorrect`: `Spec => []TypeOK`.
* `OneChainTheorem`: `ContributionsFormOneChain`, through `ChainInv`, that the curried
  hash is the last of a chain from the seed, whatever a spend runs (`LineageOfConcat`).
  That no signature counts twice needs fresh hashes, and the property has them as a
  condition: in a chain, a contribution that came twice would follow one that came
  twice before, and the first of them the seed (`FreshChainHasNoRepeat`).
* `WalkTheorem`: `WalkMatchesState`, an equivalence. `ReadInv`: a walk sees at most one
  contribution of a spend, so that with as many as there are it saw them all; a seal
  it took for something else leaves it with an open state for good (`HiddenSeal`).
* `TranscriptTheorem`: `Spec => ImplementsTranscript`, with `SealInv`, that a ceremony is
  finalized exactly when it has a key.

`OffchainCeremonyProofs`, for any `MaxDamages`, through `OffchainInv`: types; the keys
handed out are those of the transcript in memory once it is finalized (`KeyInv`);
without damage every transcript that exists replays (`ReplayInv`); a whole file holds
what was saved, and a coordinator started from it extends it (`KeptInv`); a file that
`contribute` wrote adds one entropy to what it was made from (`MadeInv`).
`OffchainTypeCorrect`, `OneKeyTheorem` and `SavedRoundsTheorem` follow. `ExtendTheorem` has
two cases: a file as written (`MadeExtends`), and one altered field.
For that and for `ReplayTheorem` there is `SoundInv`: while at most one field was
altered, every file whose hashes are chained up to its raw bytes replays. One
alteration keeps this, because each hash is written twice (`AlteredIsSound`), and so
does a round mixed into any file, which passes only if the file does (`MixIsSound`).
The bound on the damage is a condition of the properties, not an assumption: with
two fields it is false.

`ClvmProofs`, under `ClvmAssumption` (a byte has an even number of values, `MaxInt`
is positive). Trees, digits and selectors are recursive functions, each with a
lemma that it is what its recursion says (`...Def`): for every bound such a
function exists, and the ones for two bounds agree. What holds of all lengths or
levels follows by induction over sets of numbers (`NumberInduction`,
`StrongInduction`).

* `EncodersAgree`: the SDK's own encoder of integers and the CLVM's minimal one
  write the same atom, and it reads back as the integer. A string that denotes a
  number has at least its digits, and one byte more only as a zero in front
  (`DigitsAreShortest`, `NextShortest`).
* `ProofsLead`: the proof of a leaf leads to the root of its subtree, by induction
  over the number of leaves; `RootsByHand`: so do the roots of one, two and three
  actions for which the SDK has formulas.
* `LayerRunsRequests`: the solution the SDK writes for any list of requests, with
  repetitions, of leaves of a tree of any size makes the layer run that list. A
  request that repeats a puzzle is sent to the place where it came first
  (`SelectorsSelect`, `IndexOfFinds`).

`CoinPuzzlesProofs`, under `CoinPuzzlesAssumption` (slots in the tree, the deployed
numbers in the range of a coin's integers, a list of options as such, and no two
actions of a coin with the same hash). First what the trees compute:

* `SubtreeIsPair`: cutting off ranges without leaves loses nothing;
* `ProofsClimb`: the siblings the SDK proves with lead from a slot's leaf, occupied or
  not, to the root, and from any other leaf put there to the root of the changed
  tree; `RootsTellLeaves`: with the same siblings two leaves have two roots, so a walk
  that ends in the curried root started from the slot's own leaf;
* `InsertsGiveRoot`: hashing level by level gives the same root;
* `LevelsClimb`: each proof of an option leads to the root of the list, whatever the
  length, padded levels included.

Then the coins. `IInv` says that the Election Singleton follows its state, whose root
is the tree's and whose integers stay in range (`ElectionFits`); that count and
weight are sums over the slots (`SumsFit`), without which a departure could take
more than there is and leave an integer no coin holds; that each Registration
Coin has the root of its own history of votes, no two of which share a slot
(`RegsFit`), without which that root would not be that of the slots it wrote; and that the
parent of an open ballot is the launcher or has the ballot's own inner puzzle
(`BallotsFit`), which is what a lineage proof names.

* `CoinsFollow`: `Spec => []IInv`. In `RegisterFits`, `LeaveFits` and `VoterFollows`
  the check of the leaf is first turned into a fact about the slot
  (`RootsTellLeaves`), and then the root that the puzzle computes into that of the
  changed tree (`ProofsClimb`, which rests on `OnlyPathChanges`).
* `SdkFindsTheCoins`, `OptionsCanBeVoted`, `ElectionRunsRequests`: the properties
  `CoinsAreWhereTheSdkLooks`, `ListedOptionsCanBeVoted`, `LayerRunsWhatWasAsked`.
* `SdkSpendsGoThrough`: `SdkSpendsAreAccepted`, one lemma for each spend; of a cast,
  where the lock is the configured amount (`KeepsAmount`).

`CeremonyPuzzlesProofs`, under `CeremonyPuzzlesAssumption` (a participant's key has 48
bytes, payloads and entropies are nodes, the two actions have different hashes). The
parts of `IInv`: the launcher's memo and the parameters are the deployed ones
(`Deployed`), the last coin has the puzzle of the state (`Lineage`), a seal is the last
spend (`Sealed`), a reader has the state if every spend was the SDK's kind and else has
failed or is behind it (`ReadState`), the spends are then contributions, each on the
one before it and with its marker (`Contributions`), and each voucher's line, the
ceremony's and forged ones, has one that is unspent (`Vouched`).

* `CeremonyCoinsFollow`: `Spec => []IInv`.
* `CeremonyIsRebuilt`: `ReaderRebuildsTheCeremony`. `WalkIsRight` is the equivalence: a
  seal is told from a contribution by the shapes the decoder knows
  (`ContributeDecodes`, `FinalizeDecodes`), and a reader that missed one never
  catches up (`ReadState`). `OpenIsListed` and `SealedIsNotListed` are the list.
* `CeremonyAcceptsBundles`: `CeremonyBundlesAreAccepted`. It says exactly when bundles
  are accepted; that others are refused needs what a hash says of its parts:
  two sizes make two roots (`RootsTellSizes`), a coin's hash tells its root and state
  (`PuzzlesTell`), a reader that is lost builds nothing (`LostBuildsNothing`), and a
  voucher found is one that is due (`FoundIsDue`, `DueIsFound`).

Only model-checked: liveness (`EnoughIsSealed`, `RipeBallotsAreDecided`, `ReadsEnd`), and
that the two statements of section 5 are refuted.

## 5. Disagreements

Two statements of the code's own comments are refuted by a run each, with a trace
of legal steps.

* `claim_sdk_seals`: `build_finalize_bundle` (`actors/ceremony.rs:1027`) curries
  five arguments where the committed finalize action has seven, so a ceremony is
  never finalized through it or the bindings, though a client has the right
  lineage proof and funds and keeps trying.
* `claim_announce`: `build_announce_finalization_bundle` (`actors/ballot.rs:1468`)
  predicts the decided state with one empty cell too many, so it refuses every
  decided ballot. Past that, its lineage proof would name the inner puzzle hash of
  the decided coin and not of its parent.

The others below were met while reading for the models. They have no run of their
own; where a model depends on one, it follows the code. Paths are below `sdk/src`
unless they start with `puzzles`, `docs` or `cli`.

*What a text says is enforced, and is not.* The models let these things happen;
the properties that need them are stated for clients that use the SDK, or with a
condition.

* The announcer. `puzzles/registration_coin/release.rue:30` says that a voter cannot
  lie about `singleton_coin_id`, because the announcement must have been made; it
  must, but by any coin, as nothing ties the id to the election. The same holds of
  the CAT parent in `puzzles/election/register.rue:185`, and of the ballot in
  `mint_voting_coin.rue:106` and `update_vote.rue:90`, whose comment (15-26) and
  `docs/CHIP_DRAFT.md:159` and `178` rest on the oracle. Collateral can be released
  without a departure, weight registered without collateral, and votes minted or
  changed at any height.
* The signature of a vote. `update_vote.rue:20` says that a signature pins the
  ballot; it is a field of the solution (89), announced and not verified.
* The launch. `docs/CHIP_DRAFT.md:97` and `docs/chip-election-coins.md:37` have
  `createBallot` forward the parameters and snapshot root and weight; it creates a
  standard launcher coin (`puzzles/election/create_ballot.rue:6`), and whoever spends
  that curries what it likes.
* The quorum. `prover/circuit.rs:36-54` and `265-275` defer membership to `register`
  and to the aggregate signature, and the latter says only who signed, not that they
  are registered or what they weigh; weights and slack are free witnesses.
  `docs/CHIP_DRAFT.md:170` says that safety does not rely on the aggregator being
  honest. It does: `QuorumTheorem` is of aggregators that check.
* The options. Only the spends of Voting Coins compare a vote with them, and a
  signature needs no such spend: `finalize` takes any outcome that was signed.
* The ceremony's key. `puzzles/ceremony_singleton/finalize.rue:47-54` leaves the key to
  consumers who recompute it, and once it is sealed the SDK cannot list the
  contributions any more (below). `actors/deployer.rs:91-97` says that a `vk_hash`
  that does not match the `verification_key` cannot be deployed; the two are
  never compared.
* One contribution, one participant. Nothing ties a contribution's hash to its
  payload or to its key (`puzzles/ceremony_singleton/contribute.rue`): a hash signed as
  its own predecessor can be pushed again and again, and `min_participants` counts
  contributions.
* Readers of a ceremony. `actors/ceremony.rs:1356-1359` says that exactly one parse
  succeeds of a well-formed spend; a seal whose bytes go on like the rest of a
  contribution parses as one, and a contribution whose payload is a pair as
  neither.
* Contributions off the chain. `ceremony/coordinator.rs:9-11` says that a corrupted
  contribution never overwrites the transcript, and `ceremony/mod.rs:14-16` that one
  honest participant is enough. A participant that rewrites two fields of its file,
  so that they fit, has one accepted that has nobody's entropy but its own.

*Bundles that the chain or the SDK itself refuses.*

* `cast_vote` (`actors/voter.rs:1054`) recreates the Registration Coin with the
  curried minimum less the stake, although `register` accepts more than the
  minimum: a vote from a larger lock violates CAT conservation.
  `BuiltBundlesAreAccepted` excludes it by `RingBalances`.
* `compute_eve_singleton_puzzle_hash` (`actors/aggregator.rs:2774`) says that it
  agrees with the deployer byte for byte; `genesis_from_config` (`state.rs:140`)
  always has no lock where the deployer (`actors/deployer.rs:505`) has
  `vote_mode_lock`. An election with a lock is never found.
* The builders of votes, decisions and announcements curry the oracle with the
  options root of a free ballot (`actors/voter.rs:816` and `1336`,
  `actors/aggregator.rs:928`, `actors/ballot.rs:1411`), so restricted ballots are
  refused, though `docs/chip-election-coins.md:20` and the parameters
  (`actors/voter.rs:176`) provide for them. `launch_ballot` takes any options root,
  also in an election with a lock, and `create_ballot` curries no lock.
* `walk_voted_ballots_history` (`actors/voter.rs:2082`) matches a coin that voted on
  two ballots at no first step, so its release fails; and `cast_vote`
  (`actors/voter.rs:930`, `977`) proves against an empty tree of ballots, so only a
  coin's first vote is built.
* `canonical_int_bytes32` (`actors/aggregator.rs:2359`) strips leading zeros without
  a sign byte. Its comment argues from the leading byte of the field's modulus,
  which says nothing of the byte that leads after stripping: about one scalar in
  two hundred is encoded as a negative number. `SdkSpendsAreAccepted` speaks of
  `PlainScalars`.
* The scalars of `finalize` come from the live tree (`actors/aggregator.rs:700`)
  and the ballot curries its snapshot: one registration after the launch blocks
  the SDK's decision until it is undone. `Ripe` has it as a conjunct.
* The lineage proof that the ceremony's `find_current_singleton` returns with a
  later tip is a placeholder (`actors/ceremony.rs:1381`: "the dApp builds its
  lineage proof manually"), though its contract offers it for building a contribution
  (`actors/ceremony.rs:1250`) and the dApp passes it on
  (`app/app/ceremony/page.tsx:415`). With it only a first contribution is accepted.
  `ContributionsAreAccepted` is stated for it and for the right proof.
* `DEFAULT_CEREMONY_MAX_VOTERS` (`actors/ceremony.rs:82`) is what "production
  deploys override via the dApp form", but the bindings assume 20 000 whatever the
  ceremony was deployed with, to contribute (`src/wasm/src/lib.rs:1426`), to
  finalize (1648) and to link an election (`MAX_SIGNERS`, 1120). A ceremony of
  another size can be deployed through them, and not used.
  `CeremonyBundlesAreAccepted` says when the bindings' bundles are accepted.
* The vote records of the aggregator name the registration coin that is unspent now
  (`actors/aggregator.rs:415`); the Voting Coin's state has the one that minted it
  (`actors/voter.rs:1282`).

*What the puzzles allow and a text excludes.*

* A voter who registers again gets a second Voting Coin on the same ballot
  (`actors/aggregator.rs:253` against the record in
  `puzzles/registration_coin/mint_voting_coin.rue:187`, which starts anew).
* A Voting Coin of a closed ballot is spendable under another ballot's oracle
  (`puzzles/voting_coin/finalizer.rue:18` against `update_vote.rue:106`).
* A first vote is accepted after the close height until somebody finalizes
  (`docs/CHIP_DRAFT.md:178`; `mint_voting_coin` has no height condition).
* The key that is sealed may be older than the last contributions
  (`puzzles/ceremony_singleton/finalize.rue:7`,
  `cli/src/bin/live_integration_test.rs:1478`).
* `puzzles/ceremony_singleton/finalize.rue:92` asserts `min_participants`, which
  `shared.rue:24` and `actors/ceremony.rs:1210` call enforced off the chain.

*Readers.*

* Once a ceremony is sealed its contributions can no longer be listed: the reader
  (`actors/ceremony.rs:1501`) decodes the finalize spend as a contribution, and
  `finalize.rue:52` relies on consumers who recompute the key from them.
  `ReaderRebuildsTheCeremony` says so of sealed ceremonies.
* `vote_records` (`actors/indexer.rs:276`) promises a live tally; the memos it reads
  are never written, so it is empty. The synced list of ballots is empty too
  (`actors/aggregator.rs:1930`).
* `get_ballot` (`actors/ballot.rs:1022`) returns any launcher coin of amount 2, also
  of another election.
* A spend of several actions is decoded as its first (`actors/aggregator.rs:1919`
  says that all are), and an outcome that cannot be read is reported as the zero
  outcome of a finalized ballot.
* The readers of ballots, and `sync_with_chain`, have no check against the primary
  index such as `find_current_singleton` has: what they call unspent is so by the
  secondary one. The properties say "as far as the index had seen" for them.
* `verify_merkle_inclusion_sort` (`vote_mode.rs:177`) says that it mirrors the
  puzzle; the proofs it is given are positional, and the puzzle walks by position.

*Off-chain ceremony.* On resuming, and in `verify_transcript`, the hash of the last
attestation is not compared with the raw bytes, though `ceremony/verification.rs:74`
and `ceremony/coordinator.rs:68` say so. That a ceremony was finalized is not in the
file. The command line runs it with the simulated backend.

## 6. Not modelled, and why

* **Prover and circuit**, in part: curve arithmetic, Groth16 and the format of keys
  are arkworks'. There is no membership gadget to model; what a proof shows of an
  election is its scalars.
* **Puzzle hashing**, in part: the serialisation of compiled puzzles and
  `clvm_runner.rs`. The SDK's dry run of a bundle is modelled by what it compares.
* **Deployer and configuration**, in part: parsing and validating a configuration.
  The state and action root that are deployed are in `CoinPuzzles`, the linked
  deployment in `CeremonyPuzzles`; the unlinked one lacks only the voucher.
* **Indexer**, in part: it delegates to the sync, listing, lookup and collection
  modelled here and keeps the last result; its tally is named in section 5.
* **WebAssembly bindings**, in part: what they decide for themselves about a
  ceremony is in `CeremonyPuzzles`; the other exports marshal values.
* **Ceremony actors**: what a payload contributes to the key is in
  `OffchainCeremony`, and its decoding is left out.
* **Command line**, in part: the ceremony's init, contribute, accept and finalize, with
  their file, are in `OffchainCeremony`. The other commands parse, call and show;
  several (finalize, collect, ballot listing) are stubs.
* **Web application.** A user interface over the bindings.

What would extend the development next: a second reader of the same election with
multi-action spends (`Combine`); the dApp's own caches.
