---------------------------- MODULE SingletonReader ----------------------------
(***************************************************************************)
(* How the SDK's actors read the Election Singleton from a node:           *)
(* sync_with_chain, find_current_singleton and its polling form            *)
(* wait_for_current_singleton, one action per node query, with the chain   *)
(* moving between two queries.                                             *)
(*                                                                         *)
(* A node answers point lookups (coin_record_by_id, puzzle_and_solution)   *)
(* from its primary index and searches (by puzzle hash, by parent) from a  *)
(* secondary one, which lags.  lineage[k] is the k-th singleton coin, the  *)
(* eve first; an index that has seen j coins shows coins 1..j, all spent   *)
(* but the j-th.  The primary index has seen them all.                     *)
(***************************************************************************)
EXTENDS Integers, Sequences, FiniteSets

CONSTANTS
  Voter,            \* voter public keys, each with a slot of its own
  Amount,           \* CAT amounts a voter may lock
  CollateralAmount, \* curried minimum of a lock
  Reader,           \* actors that read and spend the singleton
  Combine,          \* TRUE: a spend may run two actions
  MaxCoins,         \* bound on the singleton's lineage
  MaxAttempts,      \* max_wait / poll_interval
  NoVoter, NoAct

ASSUME ReaderAssumption ==
  /\ CollateralAmount \in Nat \ {0}
  /\ Amount \subseteq Nat
  /\ Combine \in BOOLEAN
  /\ MaxCoins \in Nat
  /\ MaxAttempts \in Nat \ {0}
  /\ NoVoter \notin Voter

VARIABLES
  lineage, \* the singleton's coins, with the spend of each but the last
  indexed, \* how many of them the secondary index has seen
  call     \* call[r]: r's current or last read

vars == <<lineage, indexed, call>>

------------------------------------------------------------------------------
(* Election state, the actions of a spend and what it announces *)

State == [leaf : [Voter -> Nat], count : Int, weight : Int]
Genesis == [leaf |-> [v \in Voter |-> 0], count |-> 0, weight |-> 0]

Locks == {a \in Amount : a >= CollateralAmount}
Act == [op : {"register"}, voter : Voter, locked : Locks]
         \cup [op : {"deregister"}, voter : Voter, locked : {0}]
         \cup [op : {"create_ballot"}, voter : {NoVoter}, locked : {0}]

\* register proves that the slot is free, deregister that the leaf is there.
Legal(s, a) ==
  /\ a.op = "register" => s.leaf[a.voter] = 0
  /\ a.op = "deregister" => s.leaf[a.voter] # 0

Insert(s, v, locked) == [leaf   |-> [s.leaf EXCEPT ![v] = locked],
                         count  |-> s.count + 1,
                         weight |-> s.weight + locked]
Remove(s, v) == [leaf   |-> [s.leaf EXCEPT ![v] = 0],
                 count  |-> s.count - 1,
                 weight |-> s.weight - s.leaf[v]]

After(s, a) == CASE a.op = "register"   -> Insert(s, a.voter, a.locked)
                 [] a.op = "deregister" -> Remove(s, a.voter)
                 [] OTHER               -> s

\* The 32-byte message an action announces, by what its preimage binds.
Message(s, a) ==
  CASE a.op = "register" ->
         <<"registered", After(s, a).leaf, s.count + 1, a.voter, a.locked>>
    [] a.op = "deregister" -> <<"deregistered", a.voter>>
    [] OTHER -> <<"ballot_created">>

\* A spend runs one action, or a second one on the state the first leaves.
Spend(s, a, b) ==
  [acts |-> IF b = NoAct THEN <<a>> ELSE <<a, b>>,
   msgs |-> {Message(s, a)} \cup
              (IF b = NoAct THEN {} ELSE {Message(After(s, a), b)}),
   next |-> IF b = NoAct THEN After(s, a) ELSE After(After(s, a), b)]

NoSpend == [acts |-> <<>>, msgs |-> {}, next |-> Genesis]
Coin(s) == [state |-> s, spend |-> NoSpend]

------------------------------------------------------------------------------
(* apply_singleton_spend: what the reader makes of one spend.  It sees the   *)
(* announcements and the atoms of the solution, where the keys and amounts   *)
(* of the actions are, and tries hashes until one matches.                   *)

Keys(sp) == {i \in 1..Len(sp.acts) : sp.acts[i].voter # NoVoter}
First(I) == CHOOSE i \in I : \A j \in I : i <= j

Deregisters(sp) ==
  {i \in Keys(sp) : <<"deregistered", sp.acts[i].voter>> \in sp.msgs}

\* SparseMerkleTree::insert succeeds on a free slot, or on the same leaf.
Insertable(s, v, locked) == s.leaf[v] \in {0, locked}

\* <<i, l>>: the key of action i with amount l explains an announcement.
Explains(s, sp) ==
  {p \in Keys(sp) \X {sp.acts[i].locked : i \in Keys(sp)} :
     LET v == sp.acts[p[1]].voter IN
     /\ p[2] >= CollateralAmount
     /\ Insertable(s, v, p[2])
     /\ <<"registered", [s.leaf EXCEPT ![v] = p[2]], s.count + 1, v, p[2]>>
          \in sp.msgs}

\* Pushes are tried in the order of the solution.
Explanation(s, sp) ==
  CHOOSE p \in Explains(s, sp) : \A q \in Explains(s, sp) : p[1] <= q[1]

Unregister(s, v) == IF s.leaf[v] = 0 THEN s ELSE Remove(s, v)
Fallback(s, v) == IF Insertable(s, v, CollateralAmount)
                    THEN Insert(s, v, CollateralAmount) ELSE s

\* Fault: every registration is taken to lock the curried minimum.
Decode_fault(s, sp) ==
  CASE Deregisters(sp) # {} ->
         Unregister(s, sp.acts[First(Deregisters(sp))].voter)
    [] Deregisters(sp) = {} /\ Keys(sp) # {} ->
         Fallback(s, sp.acts[First(Keys(sp))].voter)
    [] OTHER -> s

Decode(s, sp) ==
  CASE Deregisters(sp) # {} ->
         Unregister(s, sp.acts[First(Deregisters(sp))].voter)
    [] Deregisters(sp) = {} /\ Explains(s, sp) # {} ->
         Insert(s, sp.acts[Explanation(s, sp)[1]].voter, Explanation(s, sp)[2])
    [] Deregisters(sp) = {} /\ Explains(s, sp) = {} /\ Keys(sp) # {} ->
         Fallback(s, sp.acts[First(Keys(sp))].voter)
    [] OTHER -> s

------------------------------------------------------------------------------
(* The chain and its indices *)

Deploy ==
  /\ lineage = <<>>
  /\ lineage' = <<Coin(Genesis)>>
  /\ UNCHANGED <<indexed, call>>

\* The coin at the end of the lineage is spent by a and b.
SpendTip(a, b) ==
  LET k == Len(lineage)
      s == lineage[k].state IN
  /\ k \in 1..(MaxCoins - 1)
  /\ Legal(s, a)
  /\ b # NoAct => Combine /\ Legal(After(s, a), b)
  /\ lineage' = Append([lineage EXCEPT ![k].spend = Spend(s, a, b)],
                       Coin(Spend(s, a, b).next))

OtherSpend ==
  /\ \E a \in Act, b \in Act \cup {NoAct} : SpendTip(a, b)
  /\ UNCHANGED <<indexed, call>>

CatchUp ==
  /\ indexed < Len(lineage)
  /\ indexed' = indexed + 1
  /\ UNCHANGED <<lineage, call>>

------------------------------------------------------------------------------
(* Reads *)

Busy == {"eve", "eve_check", "launcher", "loop", "apply", "child"}

Pc == Busy \cup {"idle", "found", "failed"}

Call == [op       : {"sync", "find"},
         pc       : Pc,
         at       : Nat,     \* the coin the walk is at
         unspent  : BOOLEAN, \* the flag its record came with
         decoded  : State,
         attempts : Nat,
         since    : Nat,     \* coins that existed when the call began
         seen     : Nat]     \* coins the index showed when the call began

NoCall == [op |-> "find", pc |-> "idle", at |-> 0, unspent |-> FALSE,
           decoded |-> Genesis, attempts |-> 0, since |-> 0, seen |-> 0]

Step(r, c) == call' = [call EXCEPT ![r] = c] /\ UNCHANGED <<lineage, indexed>>

\* sync, and wait_for_current_singleton around find.
Start(r, op) ==
  /\ call[r].pc \notin Busy
  /\ Step(r, [NoCall EXCEPT !.op = op, !.pc = "eve",
                            !.since = Len(lineage), !.seen = indexed])

\* Time spent: one poll interval for each failed attempt.
\* Fault: the clock restarts with every attempt.
Elapsed_fault(c) == c.attempts
Elapsed(c) == c.attempts + 1

\* An error ends a sync; a wait sleeps and tries again until max_wait.
Fail(r) ==
  LET c == call[r] IN
  Step(r, IF c.op = "find" /\ Elapsed(c) < MaxAttempts
            THEN [c EXCEPT !.pc = "eve", !.attempts = Elapsed(c)]
            ELSE [c EXCEPT !.pc = "failed", !.attempts = Elapsed(c)])

Found(c, k, s) == [c EXCEPT !.pc = "found", !.at = k, !.decoded = s]

\* The search by the eve's puzzle hash shows the unspent coin whose state
\* hashes to it: the eve, or a later coin back in the genesis state.
EveHits == {k \in {indexed} : k > 0 /\ lineage[k].state = Genesis}

QueryEve(r) ==
  LET c == call[r] IN
  /\ c.pc = "eve"
  /\ CASE c.op = "sync" /\ EveHits # {} -> Step(r, Found(c, indexed, Genesis))
       [] c.op = "find" /\ 1 \in EveHits -> Step(r, [c EXCEPT !.pc = "eve_check"])
       [] OTHER -> Step(r, [c EXCEPT !.pc = "launcher"])

\* find confirms an unspent eve against the primary index.
CheckEve(r) ==
  /\ call[r].pc = "eve_check"
  /\ Step(r, IF Len(lineage) = 1 THEN Found(call[r], 1, Genesis)
                                 ELSE [call[r] EXCEPT !.pc = "launcher"])

\* Fault: only an unspent child of the launcher counts as a deployment.
EveVisible_fault == indexed = 1
EveVisible == indexed >= 1

QueryLauncher(r) ==
  /\ call[r].pc = "launcher"
  /\ IF EveVisible
       THEN Step(r, [call[r] EXCEPT !.pc = "loop", !.at = 1,
                       !.unspent = (indexed = 1), !.decoded = Genesis])
       ELSE Fail(r)

\* find asks the primary index whether a record flagged unspent really is.
\* Fault: the secondary index's flag is trusted.
TrulyUnspent_fault(c) == c.unspent
TrulyUnspent(c) == c.unspent /\ (c.op = "find" => Len(lineage) = c.at)

LoopHead(r) ==
  LET c == call[r] IN
  /\ c.pc = "loop"
  /\ Step(r, IF TrulyUnspent(c) THEN Found(c, c.at, c.decoded)
                                ELSE [c EXCEPT !.pc = "apply"])

ApplySpend(r) ==
  LET c == call[r] IN
  /\ c.pc = "apply"
  /\ Step(r, [c EXCEPT !.pc = "child",
                       !.decoded = Decode(@, lineage[c.at].spend)])

QueryChild(r) ==
  LET c == call[r] IN
  /\ c.pc = "child"
  /\ IF c.at < indexed
       THEN Step(r, [c EXCEPT !.pc = "loop", !.at = @ + 1,
                              !.unspent = (indexed = c.at + 1)])
       ELSE Fail(r)

\* The actor spends the coin it found, with a proof made from the tree it
\* decoded: the chain takes it if the coin is unspent and the proof verifies.
Submit(r, a) ==
  LET c == call[r] IN
  /\ c.op = "find" /\ c.pc = "found"
  /\ c.at = Len(lineage)
  /\ c.decoded = lineage[c.at].state
  /\ SpendTip(a, NoAct)
  /\ call' = [call EXCEPT ![r] = NoCall]
  /\ UNCHANGED indexed

ReadStep(r) == \/ QueryEve(r) \/ CheckEve(r) \/ QueryLauncher(r)
               \/ LoopHead(r) \/ ApplySpend(r) \/ QueryChild(r)

Init ==
  /\ lineage = <<>>
  /\ indexed = 0
  /\ call = [r \in Reader |-> NoCall]

Next ==
  \/ Deploy \/ OtherSpend \/ CatchUp
  \/ \E r \in Reader :
       \/ \E op \in {"sync", "find"} : Start(r, op)
       \/ ReadStep(r)
       \/ \E a \in Act : Submit(r, a)

Spec == Init /\ [][Next]_vars

\* A call that was started keeps running; nothing is assumed of the index.
FairSpec == Spec /\ \A r \in Reader : WF_vars(ReadStep(r))

------------------------------------------------------------------------------
(* Properties *)

TypeOK ==
  /\ \A k \in DOMAIN lineage :
       lineage[k].state \in State /\ lineage[k].spend.acts \in Seq(Act)
  /\ indexed \in 0..Len(lineage)
  /\ call \in [Reader -> Call]

\* What a read returns is the state of a coin of the lineage, rebuilt from
\* nothing but the announcements and solutions of the spends before it: the
\* tree an actor proves against is the tree the coin commits to.
ReadsAreLineageStates ==
  \A r \in Reader : call[r].pc = "found" =>
    /\ call[r].at \in 1..Len(lineage)
    /\ call[r].decoded = lineage[call[r].at].state

\* A read misses no spend that had happened before it began: none at all for
\* find, which checks with the primary index, and none the secondary index
\* showed for sync, which does not.
ReadsAreRecent ==
  \A r \in Reader : call[r].pc = "found" =>
    call[r].at >= IF call[r].op = "find" THEN call[r].since ELSE call[r].seen

\* A read only reports an error while the secondary index lags behind the
\* chain, or before the election is deployed.
ErrorsOnlyUnderLag ==
  [][\A r \in Reader :
       call'[r].attempts > call[r].attempts
         => indexed < Len(lineage) \/ lineage = <<>>]_vars

\* Every read ends: a wait gives up after its last attempt however long the
\* index lags.
ReadsEnd == \A r \in Reader : call[r].pc \in Busy ~> call[r].pc \notin Busy
==============================================================================
