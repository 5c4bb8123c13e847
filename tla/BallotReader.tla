------------------------------ MODULE BallotReader ------------------------------
(***************************************************************************)
(* How ballots are listed and looked up (BallotReader, Indexer): one       *)
(* action per node query, while ballots are created, launched, read by     *)
(* voters, decided and announced between two queries.                      *)
(*                                                                         *)
(* Every coin and spend of the chain has the height it happened at, and a  *)
(* height holds one of them.  As in SingletonReader, a node answers point  *)
(* lookups (coin_record_by_id, puzzle_and_solution) from all of the chain  *)
(* and searches by parent from a secondary index that has come up to       *)
(* height `indexed'.  Every spend runs one action.                         *)
(***************************************************************************)
EXTENDS Integers, Sequences

CONSTANTS
  Ballot,    \* ballot launcher coins
  Foreign,   \* the ones that another election creates
  Params,    \* what the memo of a launcher's spend may hold
  Outcome,   \* vote outcomes
  Reader,    \* actors that list or look up ballots
  MaxHeight, \* bound on the chain
  All,       \* the target of a listing
  NoBallot, NoMemo, NoOutcome

ASSUME BallotReaderAssumption ==
  /\ Foreign \subseteq Ballot /\ All \notin Ballot /\ NoBallot \notin Ballot
  /\ MaxHeight \in Nat
  /\ NoMemo \notin Params /\ NoOutcome \notin Outcome

VARIABLES
  height,
  deployed,  \* the height of the election's first coin; 0 is never
  created,   \* created[b]: the height of the launcher coin b, or 0
  launch,    \* launch[b]: the height of the launcher's spend, or 0, and its memo
  election,  \* election[k]: the spend of the election's k-th coin: its height,
             \* and the ballot it creates
  ballot,    \* ballot[b][k]: the spend of ballot b's k-th coin: its height, and
             \* the outcome if it decides
  indexed,   \* the height the secondary index has come up to
  call       \* call[r]: r's current or last read

chain == <<height, deployed, created, launch, election, ballot>>
vars == <<chain, indexed, call>>
------------------------------------------------------------------------------
(* The chain up to a height h *)

Deployed(h) == deployed \in 1 .. h
Created(h, b) == created[b] \in 1 .. h
Launched(h, b) == launch[b].at \in 1 .. h
MemoOf(h, b) == IF Launched(h, b) THEN launch[b].memo ELSE NoMemo

ElectionSpent(h, k) == k \in DOMAIN election /\ election[k].at <= h
BallotSpent(h, b, k) == k \in DOMAIN ballot[b] /\ ballot[b][k].at <= h

Decides(b, k) == ballot[b][k].outcome # NoOutcome
Decided(h, b) == \E k \in DOMAIN ballot[b] : BallotSpent(h, b, k) /\ Decides(b, k)

\* A coin's puzzle hash differs from the first one's once a spend before it
\* decided the ballot.
Diverges(h, b, k) ==
  \E i \in DOMAIN ballot[b] : i < k /\ BallotSpent(h, b, i) /\ Decides(b, i)
------------------------------------------------------------------------------
(* The chain and its index *)

Advance == height < MaxHeight /\ height' = height + 1 /\ UNCHANGED <<indexed, call>>

SpendElectionFor(b) ==
  election' = Append(election, [at |-> height + 1, creates |-> b])

Deploy ==
  /\ deployed = 0
  /\ Advance
  /\ deployed' = height + 1
  /\ UNCHANGED <<created, launch, election, ballot>>

\* Registrations and departures.
SpendElection ==
  /\ Deployed(height)
  /\ Advance
  /\ SpendElectionFor(NoBallot)
  /\ UNCHANGED <<deployed, created, launch, ballot>>

Create(b) ==
  /\ ~Created(height, b)
  /\ Advance
  /\ created' = [created EXCEPT ![b] = height + 1]
  /\ \/ b \in Foreign /\ UNCHANGED election
     \/ b \notin Foreign /\ Deployed(height) /\ SpendElectionFor(b)
  /\ UNCHANGED <<deployed, launch, ballot>>

\* The launcher's spend, by the issuer or by anybody who leaves no memo.
Launch(b, memo) ==
  /\ Created(height, b) /\ ~Launched(height, b)
  /\ Advance
  /\ launch' = [launch EXCEPT ![b] = [at |-> height + 1, memo |-> memo]]
  /\ UNCHANGED <<deployed, created, election, ballot>>

SpendBallot(b, outcome) ==
  /\ Launched(height, b)
  /\ Advance
  /\ ballot' = [ballot EXCEPT ![b] = Append(@, [at |-> height + 1, outcome |-> outcome])]
  /\ UNCHANGED <<deployed, created, launch, election>>

\* A spend that recreates the coin as it was: the oracle's, before or after
\* the decision, or the decision's announcement.
Answer(b) == SpendBallot(b, NoOutcome)

Finalize(b, o) == ~Decided(height, b) /\ SpendBallot(b, o)

CatchUp ==
  /\ indexed < height
  /\ indexed' = indexed + 1
  /\ UNCHANGED <<chain, call>>
------------------------------------------------------------------------------
(* Reads *)

\* One read: where it is (pc), the election's coin it has come to (at), whether
\* the record of the next one said it was spent (follow), and the ballot still
\* to be read; of that ballot, the memo, the coin the walk is at (0 is the
\* launcher), whether its record said it was spent, and the coin that was spent
\* to decide (decider); the snapshots so far (listed); the height of the chain,
\* and of the index, when it began.
NoCall == [target |-> All, pc |-> "idle", at |-> 0, follow |-> FALSE, ballot |-> NoBallot,
           memo |-> NoMemo, coin |-> 0, spent |-> FALSE, decider |-> 0, listed |-> <<>>,
           since |-> 0, seen |-> 0]

Step(r, c) == call' = [call EXCEPT ![r] = c] /\ UNCHANGED <<chain, indexed>>

Busy(r) == call[r].pc \notin {"idle", "done", "failed"}

\* list_ballots, or get_ballot.
Start(r, target) ==
  /\ ~Busy(r)
  /\ Step(r, [NoCall EXCEPT
                !.target = target,
                !.pc     = IF target = All THEN "eve" ELSE "record",
                !.ballot = IF target = All THEN NoBallot ELSE target,
                !.since  = height, !.seen = indexed])

\* An error of any query ends the read, with nothing.
Abort(r) == Busy(r) /\ Step(r, [NoCall EXCEPT !.pc = "failed"])

\* The next launcher, or else the next coin of the election, or else the end.
Proceed(c) ==
  IF c.ballot # NoBallot THEN [c EXCEPT !.pc = "memo"]
  ELSE IF c.follow THEN [c EXCEPT !.pc = "children", !.at = @ + 1]
  ELSE [c EXCEPT !.pc = "done", !.at = 0]

QueryEve(r) ==
  LET c == call[r] IN
  /\ c.pc = "eve"
  /\ Step(r, IF Deployed(indexed) THEN [c EXCEPT !.pc = "children", !.at = 1]
                                  ELSE [c EXCEPT !.pc = "done"])

\* The launcher among the children of the election's k-th coin.
LauncherOf(k) == IF ElectionSpent(indexed, k) THEN election[k].creates ELSE NoBallot

\* Whether the child that continues the election has been spent itself.
\* Fault: it is followed only if its own successor is spent too.
SpentChild_fault(k) == ElectionSpent(indexed, k + 2)
SpentChild(k) == ElectionSpent(indexed, k + 1)

QueryChildren(r) ==
  LET c == call[r] IN
  /\ c.pc = "children"
  /\ Step(r, Proceed([c EXCEPT !.ballot = LauncherOf(c.at), !.follow = SpentChild(c.at)]))

\* get_ballot looks for a launcher coin, and not at who created it.
QueryRecord(r) ==
  LET c == call[r] IN
  /\ c.pc = "record"
  /\ Step(r, [c EXCEPT !.pc = IF Created(height, c.ballot) THEN "memo" ELSE "done"])

QueryMemo(r) ==
  LET c == call[r] IN
  /\ c.pc = "memo"
  /\ Step(r, [c EXCEPT !.pc = "launcher", !.memo = MemoOf(height, c.ballot)])

\* BallotCoinSnapshot
Snapshot(c, outcome) ==
  [ballot |-> c.ballot, memo |-> c.memo, finalized |-> c.decider # 0,
   outcome |-> outcome, coin |-> c.coin]

Report(c, outcome) ==
  Proceed([c EXCEPT !.listed = Append(@, Snapshot(c, outcome)), !.ballot = NoBallot,
                    !.memo = NoMemo, !.coin = 0, !.spent = FALSE, !.decider = 0])

QueryLauncher(r) ==
  LET c == call[r] IN
  /\ c.pc = "launcher"
  /\ Step(r, IF Launched(indexed, c.ballot)
               THEN [c EXCEPT !.pc = "walk", !.coin = 1,
                              !.spent = BallotSpent(indexed, c.ballot, 1)]
               ELSE Report(c, NoOutcome))

\* The coin that was spent to decide is the parent of the first coin whose
\* hash differs.
\* Fault: of the first one that has a parent of the ballot.
Decider_fault(c, k) == IF c.decider = 0 THEN k - 1 ELSE c.decider
Decider(c, k) ==
  IF c.decider = 0 /\ Diverges(indexed, c.ballot, k) THEN k - 1 ELSE c.decider

WalkOn(c, k) ==
  [c EXCEPT !.coin = k, !.decider = Decider(c, k),
            !.spent = BallotSpent(indexed, c.ballot, k)]

QueryWalk(r) ==
  LET c == call[r] IN
  /\ c.pc = "walk"
  /\ Step(r, CASE c.spent                    -> WalkOn(c, c.coin + 1)
               [] ~c.spent /\ c.decider # 0  -> [c EXCEPT !.pc = "outcome"]
               [] OTHER                      -> Report(c, NoOutcome))

\* extract_finalize_outcome reads the spend's solution as a decision's.
QueryOutcome(r) ==
  LET c == call[r] IN
  /\ c.pc = "outcome"
  /\ Step(r, Report(c, ballot[c.ballot][c.decider].outcome))

ReadStep(r) == \/ QueryEve(r) \/ QueryChildren(r) \/ QueryRecord(r) \/ QueryMemo(r)
               \/ QueryLauncher(r) \/ QueryWalk(r) \/ QueryOutcome(r)

Init ==
  /\ height = 0
  /\ deployed = 0
  /\ created = [b \in Ballot |-> 0]
  /\ launch = [b \in Ballot |-> [at |-> 0, memo |-> NoMemo]]
  /\ election = <<>>
  /\ ballot = [b \in Ballot |-> <<>>]
  /\ indexed = 0
  /\ call = [r \in Reader |-> NoCall]

Next ==
  \/ Deploy \/ SpendElection \/ CatchUp
  \/ \E b \in Ballot :
       \/ Create(b) \/ Answer(b)
       \/ \E memo \in Params \cup {NoMemo} : Launch(b, memo)
       \/ \E o \in Outcome : Finalize(b, o)
  \/ \E r \in Reader :
       \/ \E target \in Ballot \cup {All} : Start(r, target)
       \/ ReadStep(r) \/ Abort(r)

Spec == Init /\ [][Next]_vars
------------------------------------------------------------------------------
(* Properties *)

OwnBallots(h) == {b \in Ballot \ Foreign : Created(h, b)}

Lists(c, b) == \E i \in 1 .. Len(c.listed) : c.listed[i].ballot = b

InOrder(c) ==
  \A i, j \in 1 .. Len(c.listed) :
    i < j => created[c.listed[i].ballot] < created[c.listed[j].ballot]

Complete(c) ==
  /\ InOrder(c)
  /\ \A i \in 1 .. Len(c.listed) : c.listed[i].ballot \in OwnBallots(height)
  /\ \A b \in OwnBallots(c.seen) : Lists(c, b)
  /\ \A b, later \in OwnBallots(height) :
       Lists(c, later) /\ created[b] < created[later] => Lists(c, b)

\* A listing that ends without an error has ballots of the election and no
\* other's, each once and in the order of their creation; it leaves out no
\* ballot older than one it has, and none that the index showed when it began,
\* however the election was spent meanwhile.
ListingsAreComplete ==
  \A r \in Reader : call[r].pc = "done" /\ call[r].target = All => Complete(call[r])

\* What snapshot s of call c says of its ballot was so at some time of the read.
Regular(c, s) ==
  /\ s.finalized => /\ Decided(height, s.ballot)
                    /\ \A k \in DOMAIN ballot[s.ballot] :
                         Decides(s.ballot, k) => s.outcome = ballot[s.ballot][k].outcome
  /\ ~s.finalized => ~Decided(c.seen, s.ballot)
  /\ s.coin <= Len(ballot[s.ballot]) + 1
  /\ Launched(c.seen, s.ballot) => s.coin > 0 /\ ~BallotSpent(c.seen, s.ballot, s.coin)
  /\ \/ s.memo = MemoOf(height, s.ballot)
     \/ s.memo = NoMemo /\ ~Launched(c.since, s.ballot)

\* A snapshot is put together from queries at different times, and yet it is
\* as if it had been taken at one: a ballot reported decided is, with that
\* outcome; one reported open was open when the read began, as far as the index
\* had seen; its parameters are those of its launch, and are missing only if
\* there was none when the read began, or none with a memo.
SnapshotsAreRegular ==
  \A r \in Reader : \A i \in 1 .. Len(call[r].listed) : Regular(call[r], call[r].listed[i])
==============================================================================
