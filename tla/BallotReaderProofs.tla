--------------------------- MODULE BallotReaderProofs ---------------------------
(***************************************************************************)
(* Theorems about BallotReader, for any number of readers, ballots and     *)
(* coins and however far the index lags: listings miss nothing, and what a *)
(* snapshot says of a ballot was so during the read.                       *)
(***************************************************************************)
EXTENDS BallotReader, TLAPS

------------------------------------------------------------------------------
(* The inductive invariant: types *)

SnapshotSet ==
  [ballot : Ballot, memo : Params \cup {NoMemo}, finalized : BOOLEAN,
   outcome : Outcome \cup {NoOutcome}, coin : Nat]

Pc == {"idle", "eve", "children", "record", "memo", "launcher", "walk", "outcome", "done",
       "failed"}

CallSet ==
  [target : Ballot \cup {All}, pc : Pc, at : Nat, follow : BOOLEAN,
   ballot : Ballot \cup {NoBallot}, memo : Params \cup {NoMemo}, coin : Nat, spent : BOOLEAN,
   decider : Nat, listed : Seq(SnapshotSet), since : Nat, seen : Nat]

ElectionSpend == [at : Nat, creates : Ballot \cup {NoBallot}]
BallotSpend == [at : Nat, outcome : Outcome \cup {NoOutcome}]

ChainType ==
  /\ height \in Nat /\ indexed \in Nat /\ indexed <= height
  /\ deployed \in Nat
  /\ created \in [Ballot -> Nat]
  /\ launch \in [Ballot -> [at : Nat, memo : Params \cup {NoMemo}]]
  /\ election \in Seq(ElectionSpend)
  /\ ballot \in [Ballot -> Seq(BallotSpend)]

(* The chain: heights grow along each lineage, and no spend is before the  *)
(* coin it spends.                                                         *)

HeightsBounded ==
  /\ \A b \in Ballot : created[b] <= height /\ launch[b].at <= height
  /\ \A k \in DOMAIN election : election[k].at \in 1 .. height
  /\ \A b \in Ballot : \A k \in DOMAIN ballot[b] : ballot[b][k].at \in 1 .. height

ElectionLineage ==
  /\ \A j, k \in DOMAIN election : j < k => election[j].at < election[k].at
  /\ \A k \in DOMAIN election : election[k].creates # NoBallot =>
       /\ election[k].creates \notin Foreign
       /\ created[election[k].creates] = election[k].at
  /\ \A b \in Ballot \ Foreign : created[b] # 0 =>
       \E k \in DOMAIN election : election[k].creates = b

DeployedFirst == \A k \in DOMAIN election : deployed \in 1 .. election[k].at

BallotLineage ==
  \A b \in Ballot :
    /\ \A j, k \in DOMAIN ballot[b] : j < k => ballot[b][j].at < ballot[b][k].at
    /\ \A k \in DOMAIN ballot[b] : launch[b].at \in 1 .. ballot[b][k].at
    /\ \A j, k \in DOMAIN ballot[b] : Decides(b, j) /\ Decides(b, k) => j = k

ChainInv ==
  ChainType /\ HeightsBounded /\ ElectionLineage /\ DeployedFirst /\ BallotLineage

(* The reads: what a read has come to is what the chain was like.          *)

MemoIsRegular(c) ==
  \/ c.memo = MemoOf(height, c.ballot)
  \/ c.memo = NoMemo /\ ~Launched(c.since, c.ballot)

Walked(c) ==
  /\ c.coin \in 1 .. Len(ballot[c.ballot]) + 1
  /\ c.decider # 0 => /\ c.decider \in DOMAIN ballot[c.ballot]
                      /\ Decides(c.ballot, c.decider)
  /\ c.decider = 0 => \A k \in DOMAIN ballot[c.ballot] : k < c.coin => ~Decides(c.ballot, k)
  /\ c.spent => BallotSpent(indexed, c.ballot, c.coin)
  /\ ~c.spent => ~BallotSpent(c.seen, c.ballot, c.coin)

ReadInv(c) ==
  /\ c.since <= height /\ c.seen <= indexed
  /\ \A i \in 1 .. Len(c.listed) : Regular(c, c.listed[i])
  /\ c.pc \in {"record", "memo", "launcher", "walk", "outcome"} => c.ballot \in Ballot
  /\ c.pc \in {"launcher", "walk", "outcome"} => MemoIsRegular(c)
  /\ c.pc \in {"eve", "children", "record", "memo", "launcher"} => c.coin = 0 /\ c.decider = 0
  /\ c.pc \in {"walk", "outcome"} => Walked(c)
  /\ c.pc = "outcome" => ~c.spent /\ c.decider # 0

\* What is listed is the ballots of the election's first n coins.
ListsUpTo(c, n) ==
  /\ \A i \in 1 .. Len(c.listed) :
       \E k \in DOMAIN election : k <= n /\ election[k].creates = c.listed[i].ballot
  /\ \A k \in DOMAIN election :
       k <= n /\ election[k].creates # NoBallot => Lists(c, election[k].creates)
  /\ InOrder(c)

\* The ballots of the coins before the one a listing has come to are listed.
Covered(c) ==
  /\ c.at >= 1
  /\ c.at = 1 \/ ElectionSpent(indexed, c.at)
  /\ ListsUpTo(c, c.at - 1)

\* The ballot being read is the one its coin created.
AtLauncher(c) ==
  /\ ElectionSpent(indexed, c.at)
  /\ c.ballot = election[c.at].creates
  /\ c.follow => ElectionSpent(indexed, c.at + 1)
  /\ ~c.follow => ~ElectionSpent(c.seen, c.at + 1)

ListInv(c) ==
  c.target = All =>
    /\ c.pc # "record"
    /\ c.pc = "eve" => c.listed = <<>>
    /\ c.pc = "children" => Covered(c)
    /\ c.pc \in {"memo", "launcher", "walk", "outcome"} => Covered(c) /\ AtLauncher(c)
    /\ c.pc = "done" => Complete(c)

CallInv(c) == c \in CallSet /\ ReadInv(c) /\ ListInv(c)

IInv == ChainInv /\ call \in [Reader -> CallSet] /\ \A r \in Reader : CallInv(call[r])

------------------------------------------------------------------------------
(* The chain only grows, at its end                                         *)

\* t is s with spends above the present height behind it.
Longer(s, t) ==
  /\ Len(s) <= Len(t)
  /\ \A k \in 1 .. Len(s) : t[k] = s[k]
  /\ \A k \in 1 .. Len(t) : k > Len(s) => t[k].at > height

Grows ==
  /\ height <= height' /\ indexed <= indexed'
  /\ \A b \in Ballot :
       /\ created'[b] = created[b] \/ (created[b] = 0 /\ created'[b] > height)
       /\ launch'[b] = launch[b] \/ (launch[b].at = 0 /\ launch'[b].at > height)
       /\ Longer(ballot[b], ballot[b]')
  /\ Longer(election, election')

\* What the variables and the elements of the lineages are, for arithmetic.
Elements ==
  /\ height \in Nat /\ indexed \in Nat /\ indexed <= height
  /\ Len(election) \in Nat /\ DOMAIN election = 1 .. Len(election)
  /\ \A k \in 1 .. Len(election) :
       election[k].at \in 1 .. height /\ election[k].creates \in Ballot \cup {NoBallot}
  /\ \A b \in Ballot :
       /\ created[b] \in 0 .. height /\ launch[b].at \in 0 .. height
       /\ launch[b].memo \in Params \cup {NoMemo}
       /\ ballot[b] \in Seq(BallotSpend)
       /\ Len(ballot[b]) \in Nat /\ DOMAIN ballot[b] = 1 .. Len(ballot[b])
       /\ \A k \in 1 .. Len(ballot[b]) :
            ballot[b][k].at \in 1 .. height /\ ballot[b][k].outcome \in Outcome \cup {NoOutcome}

LEMMA ChainElements == ChainInv => Elements
  <1> SUFFICES ASSUME ChainType, HeightsBounded PROVE Elements
    BY DEF ChainInv
  <1>1. \A k \in 1 .. Len(election) : election[k] \in ElectionSpend
    BY DEF ChainType
  <1>2. \A b \in Ballot : ballot[b] \in Seq(BallotSpend)
    BY DEF ChainType
  <1>3. \A b \in Ballot : \A k \in 1 .. Len(ballot[b]) : ballot[b][k] \in BallotSpend
    BY <1>2
  <1>4. /\ Len(election) \in Nat /\ DOMAIN election = 1 .. Len(election)
        /\ \A b \in Ballot : Len(ballot[b]) \in Nat /\ DOMAIN ballot[b] = 1 .. Len(ballot[b])
    BY <1>2 DEF ChainType
  <1>5. \A k \in 1 .. Len(election) :
          election[k].at \in 1 .. height /\ election[k].creates \in Ballot \cup {NoBallot}
    BY <1>1, <1>4 DEF ElectionSpend, HeightsBounded
  <1>6. \A b \in Ballot : \A k \in 1 .. Len(ballot[b]) :
          ballot[b][k].at \in 1 .. height /\ ballot[b][k].outcome \in Outcome \cup {NoOutcome}
    BY <1>3, <1>4 DEF BallotSpend, HeightsBounded
  <1>7. \A b \in Ballot : /\ created[b] \in 0 .. height /\ launch[b].at \in 0 .. height
                           /\ launch[b].memo \in Params \cup {NoMemo}
    <2> TAKE b \in Ballot
    <2>1. created[b] \in Nat /\ launch[b] \in [at : Nat, memo : Params \cup {NoMemo}]
      BY DEF ChainType
    <2>2. created[b] <= height /\ launch[b].at <= height /\ height \in Nat
      BY DEF ChainType, HeightsBounded
    <2> QED
      BY <2>1, <2>2
  <1>8. height \in Nat /\ indexed \in Nat /\ indexed <= height
    BY DEF ChainType
  <1> QED
    BY <1>2, <1>4, <1>5, <1>6, <1>7, <1>8 DEF Elements

LEMMA AppendIsLonger ==
  ASSUME NEW S, NEW s \in Seq(S), NEW e \in S, e.at > height
  PROVE  /\ Append(s, e) \in Seq(S) /\ DOMAIN s = 1 .. Len(s)
         /\ Len(Append(s, e)) = Len(s) + 1
         /\ DOMAIN Append(s, e) = 1 .. Len(s) + 1
         /\ \A k \in 1 .. Len(s) : Append(s, e)[k] = s[k]
         /\ Append(s, e)[Len(s) + 1] = e
         /\ Longer(s, Append(s, e))
  BY DEF Longer

LEMMA SameIsLonger == ASSUME NEW S, NEW s \in Seq(S) PROVE Longer(s, s)
  BY DEF Longer

LEMMA DeployGrows ==
  ASSUME ChainInv, Deploy
  PROVE  ChainInv' /\ Grows
  <1>1. ChainType'
    BY DEF ChainInv, ChainType, Deploy, Advance
  <1>2. /\ height' = height + 1 /\ indexed' = indexed
        /\ UNCHANGED <<created, launch, election, ballot>>
    BY DEF Deploy, Advance
  <1>3. HeightsBounded' /\ BallotLineage'
    BY <1>2 DEF ChainInv, ChainType, HeightsBounded, BallotLineage, Decides
  <1>5. ElectionLineage' /\ DeployedFirst'
    BY <1>2 DEF ChainInv, ElectionLineage, DeployedFirst, Deploy
  <1>4. Grows
    BY <1>2, SameIsLonger DEF Grows, ChainInv, ChainType
  <1> QED
    BY <1>1, <1>3, <1>4, <1>5 DEF ChainInv

LEMMA CatchUpGrows ==
  ASSUME ChainInv, CatchUp
  PROVE  ChainInv' /\ Grows
  <1>1. ChainType'
    BY DEF ChainInv, ChainType, CatchUp, chain
  <1>2. /\ height' = height /\ indexed' = indexed + 1
        /\ UNCHANGED <<deployed, created, launch, election, ballot>>
    BY DEF CatchUp, chain
  <1>3. HeightsBounded' /\ ElectionLineage' /\ DeployedFirst' /\ BallotLineage'
    BY <1>2 DEF ChainInv, ChainType, HeightsBounded, ElectionLineage, DeployedFirst,
                BallotLineage, Decides
  <1>4. Grows
    BY <1>2, SameIsLonger DEF Grows, ChainInv, ChainType
  <1> QED
    BY <1>1, <1>3, <1>4 DEF ChainInv

LEMMA SpendElectionGrows ==
  ASSUME ChainInv, SpendElection
  PROVE  ChainInv' /\ Grows
  <1> DEFINE e == [at |-> height + 1, creates |-> NoBallot]
  <1>1. /\ height' = height + 1 /\ indexed' = indexed
        /\ UNCHANGED <<deployed, created, launch, ballot>>
        /\ election' = Append(election, e)
    BY DEF SpendElection, SpendElectionFor, Advance
  <1>2. e \in ElectionSpend /\ e.at > height /\ election \in Seq(ElectionSpend)
    BY DEF ElectionSpend, ChainInv, ChainType
  <1>3. /\ election' \in Seq(ElectionSpend)
        /\ DOMAIN election = 1 .. Len(election)
        /\ DOMAIN election' = 1 .. Len(election) + 1
        /\ \A k \in 1 .. Len(election) : election'[k] = election[k]
        /\ election'[Len(election) + 1] = e
        /\ Longer(election, election')
    BY <1>1, <1>2, AppendIsLonger
  <1>4. ChainType'
    BY <1>1, <1>3 DEF ChainInv, ChainType
  <1>5. HeightsBounded' /\ BallotLineage'
    BY <1>1, <1>3 DEF ChainInv, ChainType, HeightsBounded, BallotLineage, Decides
  <1>6. ElectionLineage' /\ DeployedFirst'
    <2>1. \A k \in DOMAIN election : election[k].at <= height /\ election[k].at \in Nat
      BY DEF ChainInv, HeightsBounded
    <2>2. deployed \in 1 .. height
      BY DEF SpendElection, Deployed
    <2>3. ElectionLineage'
      BY <1>1, <1>3, <2>1 DEF ChainInv, ChainType, ElectionLineage
    <2>4. DeployedFirst'
      BY <1>1, <1>3, <2>2 DEF ChainInv, ChainType, DeployedFirst
    <2> QED
      BY <2>3, <2>4
  <1>7. Grows
    BY <1>1, <1>3, SameIsLonger DEF Grows, ChainInv, ChainType
  <1> QED
    BY <1>4, <1>5, <1>6, <1>7 DEF ChainInv

LEMMA CreateGrows ==
  ASSUME ChainInv, NEW b \in Ballot, Create(b)
  PROVE  ChainInv' /\ Grows
  <1>1. /\ height' = height + 1 /\ indexed' = indexed
        /\ UNCHANGED <<deployed, launch, ballot>>
        /\ created' = [created EXCEPT ![b] = height + 1]
        /\ created[b] = 0
    BY DEF Create, Advance, Created, ChainInv, ChainType, HeightsBounded
  <1>2. /\ ChainType /\ HeightsBounded /\ ElectionLineage /\ BallotLineage
        /\ DeployedFirst /\ Elements
    BY ChainElements DEF ChainInv
  <1>3. BallotLineage'
    BY <1>1, <1>2 DEF BallotLineage, Decides
  <1>4. /\ created' \in [Ballot -> Nat] /\ created'[b] = height + 1
        /\ \A x \in Ballot : x # b => created'[x] = created[x]
    BY <1>1, <1>2 DEF ChainType
  <1>5. \A k \in DOMAIN election : election[k].creates # b
    BY <1>1, <1>2, BallotReaderAssumption DEF ElectionLineage, HeightsBounded
  <1>6. CASE b \in Foreign /\ UNCHANGED election
    <2>1. ChainType' /\ HeightsBounded'
      BY <1>1, <1>2, <1>4, <1>6 DEF ChainType, HeightsBounded
    <2>2. ElectionLineage'
      BY <1>1, <1>2, <1>4, <1>5, <1>6 DEF ElectionLineage, ChainType, ElectionSpend
    <2>3. Grows
      BY <1>1, <1>2, <1>4, <1>6, SameIsLonger DEF Grows, ChainType
    <2>4. DeployedFirst'
      BY <1>1, <1>2, <1>6 DEF DeployedFirst
    <2> QED
      BY <2>1, <2>2, <2>3, <2>4, <1>3 DEF ChainInv
  <1>7. CASE b \notin Foreign /\ Deployed(height) /\ SpendElectionFor(b)
    <2> DEFINE e == [at |-> height + 1, creates |-> b]
    <2>1. e \in ElectionSpend /\ e.at > height /\ election \in Seq(ElectionSpend)
      BY <1>2 DEF ElectionSpend, ChainType
    <2>2. /\ election' \in Seq(ElectionSpend)
          /\ DOMAIN election' = 1 .. Len(election) + 1
          /\ \A k \in 1 .. Len(election) : election'[k] = election[k]
          /\ election'[Len(election) + 1] = e
          /\ Longer(election, election')
      BY <1>7, <2>1, AppendIsLonger DEF SpendElectionFor
    <2>3. ChainType' /\ HeightsBounded'
      <3>1. ChainType'
        BY <1>1, <1>2, <1>4, <2>2 DEF ChainType
      <3>2. \A x \in Ballot : created'[x] <= height' /\ launch'[x].at <= height'
        BY <1>1, <1>2, <1>4 DEF Elements
      <3>3. \A k \in DOMAIN election' : election'[k].at \in 1 .. height'
        BY <1>1, <1>2, <2>2 DEF Elements
      <3>4. \A x \in Ballot : \A k \in DOMAIN ballot[x] : ballot[x][k].at \in 1 .. height'
        <4>1. height \in Nat
          BY <1>2 DEF ChainType
        <4> QED
          BY <1>1, <1>2, <4>1 DEF HeightsBounded
      <3> QED
        BY <1>1, <3>1, <3>2, <3>3, <3>4 DEF HeightsBounded
    <2>4. ElectionLineage'
      <3>2. \A j, k \in DOMAIN election' : j < k => election'[j].at < election'[k].at
        BY <1>2, <2>2 DEF ElectionLineage, Elements
      <3>3. \A k \in DOMAIN election' : election'[k].creates # NoBallot =>
              /\ election'[k].creates \notin Foreign
              /\ created'[election'[k].creates] = election'[k].at
        BY <1>2, <1>4, <1>5, <1>7, <2>2 DEF ElectionLineage, Elements
      <3>4. \A x \in Ballot \ Foreign : created'[x] # 0 =>
              \E k \in DOMAIN election' : election'[k].creates = x
        <4> SUFFICES ASSUME NEW x \in Ballot \ Foreign, created'[x] # 0
                     PROVE  \E k \in DOMAIN election' : election'[k].creates = x
          OBVIOUS
        <4>1. CASE x = b
          BY <1>2, <2>2, <4>1 DEF Elements
        <4>2. CASE x # b
          BY <1>2, <1>4, <2>2, <4>2 DEF ElectionLineage, Elements
        <4> QED
          BY <4>1, <4>2
      <3> QED
        BY <3>2, <3>3, <3>4 DEF ElectionLineage
    <2>6. DeployedFirst'
      <3>1. deployed \in 1 .. height + 1
        BY <1>2, <1>7 DEF Deployed, Elements
      <3> QED
        BY <1>1, <1>2, <2>2, <3>1 DEF DeployedFirst, Elements
    <2>5. Grows
      BY <1>1, <1>2, <1>4, <2>2, SameIsLonger DEF Grows, ChainType
    <2> QED
      BY <2>3, <2>4, <2>5, <2>6, <1>3 DEF ChainInv
  <1> QED
    BY <1>6, <1>7 DEF Create

LEMMA LaunchGrows ==
  ASSUME ChainInv, NEW b \in Ballot, NEW memo \in Params \cup {NoMemo}, Launch(b, memo)
  PROVE  ChainInv' /\ Grows
  <1>1. /\ height' = height + 1 /\ indexed' = indexed
        /\ UNCHANGED <<deployed, created, election, ballot>>
        /\ launch' = [launch EXCEPT ![b] = [at |-> height + 1, memo |-> memo]]
    BY DEF Launch, Advance
  <1>2. ChainType /\ HeightsBounded /\ ElectionLineage /\ DeployedFirst /\ BallotLineage
    BY DEF ChainInv
  <1>3. /\ launch[b].at = 0
        /\ launch' \in [Ballot -> [at : Nat, memo : Params \cup {NoMemo}]]
        /\ launch'[b].at = height + 1
        /\ \A x \in Ballot : x # b => launch'[x] = launch[x]
    BY <1>1, <1>2 DEF Launch, Launched, ChainType, HeightsBounded
  <1>4. \A k \in DOMAIN ballot[b] : FALSE
    BY <1>2, <1>3 DEF BallotLineage
  <1>5. ChainType' /\ HeightsBounded' /\ ElectionLineage' /\ DeployedFirst'
    BY <1>1, <1>2, <1>3 DEF ChainType, HeightsBounded, ElectionLineage, DeployedFirst
  <1>6. BallotLineage'
    BY <1>1, <1>2, <1>3, <1>4 DEF BallotLineage, Decides
  <1>7. Grows
    BY <1>1, <1>2, <1>3, SameIsLonger DEF Grows, ChainType
  <1> QED
    BY <1>5, <1>6, <1>7 DEF ChainInv

LEMMA SpendBallotGrows ==
  ASSUME ChainInv, NEW b \in Ballot, NEW o \in Outcome \cup {NoOutcome}, SpendBallot(b, o),
         o # NoOutcome => ~Decided(height, b)
  PROVE  ChainInv' /\ Grows
  <1> DEFINE e == [at |-> height + 1, outcome |-> o]
  <1> DEFINE n == Len(ballot[b])
  <1>1. /\ height' = height + 1 /\ indexed' = indexed
        /\ UNCHANGED <<deployed, created, launch, election>>
        /\ ballot' = [ballot EXCEPT ![b] = Append(@, e)]
    BY DEF SpendBallot, Advance
  <1>2. /\ ChainType /\ HeightsBounded /\ ElectionLineage /\ DeployedFirst /\ BallotLineage
        /\ Elements
    BY ChainElements DEF ChainInv
  <1>3. e \in BallotSpend /\ e.at > height /\ ballot[b] \in Seq(BallotSpend)
    <2>1. height \in Nat /\ ballot[b] \in Seq(BallotSpend)
      BY <1>2 DEF Elements
    <2> QED
      BY <2>1 DEF BallotSpend
  <1>4. ballot'[b] = Append(ballot[b], e)
    BY <1>1, <1>2 DEF ChainType
  <1>5. /\ ballot'[b] \in Seq(BallotSpend)
        /\ DOMAIN ballot[b] = 1 .. n /\ n \in Nat
        /\ DOMAIN ballot'[b] = 1 .. n + 1
        /\ \A k \in 1 .. n : ballot'[b][k] = ballot[b][k]
        /\ ballot'[b][n + 1] = e
        /\ Longer(ballot[b], ballot'[b])
    BY <1>3, <1>4, AppendIsLonger
  <1>6. \A x \in Ballot : x # b => ballot'[x] = ballot[x]
    BY <1>1, <1>2 DEF ChainType
  <1> HIDE DEF n
  <1>7. ChainType'
    <2>1. ballot' \in [Ballot -> Seq(BallotSpend)]
      BY <1>1, <1>2, <1>4, <1>5 DEF ChainType
    <2> QED
      BY <1>1, <1>2, <2>1 DEF ChainType
  <1>8. ElectionLineage' /\ DeployedFirst'
    BY <1>1, <1>2 DEF ElectionLineage, DeployedFirst
  <1>9. \A k \in 1 .. n : ballot[b][k].at \in 1 .. height
    BY <1>2, <1>5 DEF HeightsBounded
  <1>10. HeightsBounded'
    BY <1>1, <1>2, <1>5, <1>6, <1>9 DEF ChainType, HeightsBounded
  <1>11. BallotLineage'
    <2> SUFFICES ASSUME NEW x \in Ballot
                 PROVE  /\ \A j, k \in DOMAIN ballot'[x] :
                             j < k => ballot'[x][j].at < ballot'[x][k].at
                        /\ \A k \in DOMAIN ballot'[x] : launch[x].at \in 1 .. ballot'[x][k].at
                        /\ \A j, k \in DOMAIN ballot'[x] :
                             /\ ballot'[x][j].outcome # NoOutcome
                             /\ ballot'[x][k].outcome # NoOutcome
                             => j = k
      BY <1>1 DEF BallotLineage, Decides
    <2>1. CASE x # b
      BY <1>2, <1>6, <2>1 DEF BallotLineage, Decides
    <2>2. CASE x = b
      <3>1. \A j, k \in DOMAIN ballot'[b] : j < k => ballot'[b][j].at < ballot'[b][k].at
        <4>1. height \in Nat /\ \A j, k \in 1 .. n : j < k => ballot[b][j].at < ballot[b][k].at
          BY <1>2, <1>5 DEF BallotLineage, Elements
        <4> QED
          BY <1>5, <1>9, <4>1
      <3>2. launch[b].at \in 1 .. height
        BY DEF SpendBallot, Launched
      <3>3. \A k \in DOMAIN ballot'[b] : launch[b].at \in 1 .. ballot'[b][k].at
        BY <1>2, <1>5, <3>2 DEF BallotLineage, Elements
      <3>4. o # NoOutcome => \A k \in 1 .. n : ballot[b][k].outcome = NoOutcome
        BY <1>5, <1>9 DEF Decided, BallotSpent, Decides
      <3>5. \A j, k \in DOMAIN ballot'[b] :
              ballot'[b][j].outcome # NoOutcome /\ ballot'[b][k].outcome # NoOutcome => j = k
        BY <1>2, <1>5, <3>4 DEF BallotLineage, Decides
      <3> QED
        BY <2>2, <3>1, <3>3, <3>5
    <2> QED
      BY <2>1, <2>2
  <1>12. Grows
    <2>1. \A x \in Ballot : Longer(ballot[x], ballot'[x])
      BY <1>2, <1>5, <1>6, SameIsLonger DEF ChainType
    <2> QED
      BY <1>1, <1>2, <2>1, SameIsLonger DEF Grows, ChainType
  <1> QED
    BY <1>7, <1>8, <1>10, <1>11, <1>12 DEF ChainInv

------------------------------------------------------------------------------
(* What a read has come to stays so while the chain grows                   *)

LEMMA PastIsFixed ==
  ASSUME ChainInv, ChainInv', Grows, NEW b \in Ballot, NEW h \in Nat, h <= height
  PROVE  /\ Created(h, b)' <=> Created(h, b)
         /\ Launched(h, b)' <=> Launched(h, b)
         /\ \A k \in Nat : BallotSpent(h, b, k)' <=> BallotSpent(h, b, k)
         /\ Decided(h, b)' <=> Decided(h, b)
         /\ \A k \in DOMAIN ballot[b] :
              k \in DOMAIN ballot'[b] /\ ballot'[b][k] = ballot[b][k]
  <1>1. Elements /\ Elements'
    <2>1. Elements'
      BY ChainElements, PTL
    <2> QED
      BY <2>1, ChainElements DEF ChainInv
  <1>2. Created(h, b)' <=> Created(h, b)
    BY <1>1 DEF Created, Grows, Elements
  <1>3. Launched(h, b)' <=> Launched(h, b)
    BY <1>1 DEF Launched, Grows, Elements
  <1>4. /\ Len(ballot[b]) \in Nat /\ Len(ballot'[b]) \in Nat /\ height \in Nat
        /\ DOMAIN ballot[b] = 1 .. Len(ballot[b]) /\ DOMAIN ballot'[b] = 1 .. Len(ballot'[b])
        /\ Len(ballot[b]) <= Len(ballot'[b])
        /\ \A k \in 1 .. Len(ballot[b]) : ballot'[b][k] = ballot[b][k]
        /\ \A k \in 1 .. Len(ballot'[b]) : k > Len(ballot[b]) => ballot'[b][k].at > height
        /\ \A k \in 1 .. Len(ballot'[b]) : ballot'[b][k].at \in Nat
    BY <1>1 DEF Grows, Longer, Elements
  <1>5. \A k \in Nat : BallotSpent(h, b, k)' <=> BallotSpent(h, b, k)
    BY <1>4 DEF BallotSpent
  <1>6. Decided(h, b)' <=> Decided(h, b)
    <2>1. \A k \in Nat : BallotSpent(h, b, k) =>
            /\ k \in DOMAIN ballot[b] /\ k \in DOMAIN ballot'[b]
            /\ ballot'[b][k] = ballot[b][k]
      BY <1>4 DEF BallotSpent
    <2>2. ASSUME Decided(h, b) PROVE Decided(h, b)'
      <3>1. PICK k \in DOMAIN ballot[b] : BallotSpent(h, b, k) /\ ballot[b][k].outcome # NoOutcome
        BY <2>2 DEF Decided, Decides
      <3>2. k \in Nat /\ k \in DOMAIN ballot'[b] /\ ballot'[b][k].outcome # NoOutcome
        BY <1>4, <2>1, <3>1
      <3>3. BallotSpent(h, b, k)'
        BY <1>5, <3>1, <3>2
      <3> QED
        BY <3>2, <3>3 DEF Decided, Decides
    <2>3. ASSUME Decided(h, b)' PROVE Decided(h, b)
      <3>1. PICK k \in DOMAIN ballot'[b] : BallotSpent(h, b, k)' /\ ballot'[b][k].outcome # NoOutcome
        BY <2>3 DEF Decided, Decides
      <3>2. k \in Nat /\ BallotSpent(h, b, k)
        BY <1>4, <1>5, <3>1
      <3>3. k \in DOMAIN ballot[b] /\ ballot[b][k].outcome # NoOutcome
        BY <2>1, <3>1, <3>2
      <3> QED
        BY <3>2, <3>3 DEF Decided, Decides
    <2> QED
      BY <2>2, <2>3
  <1> QED
    BY <1>2, <1>3, <1>4, <1>5, <1>6

LEMMA RegularIsStable ==
  ASSUME ChainInv, ChainInv', Grows, NEW c \in CallSet, NEW s \in SnapshotSet,
         c.since <= height, c.seen <= indexed, Regular(c, s)
  PROVE  Regular(c, s)'
  <1> DEFINE b == s.ballot
  <1>1. Elements /\ Elements' /\ BallotLineage'
    <2>1. Elements'
      BY ChainElements, PTL
    <2> QED
      BY <2>1, ChainElements DEF ChainInv
  <1>2. b \in Ballot /\ s.coin \in Nat /\ c.seen \in Nat /\ c.since \in Nat
    BY DEF SnapshotSet, CallSet
  <1>3. height \in Nat /\ indexed \in Nat /\ indexed <= height /\ height <= height'
    BY <1>1 DEF Elements, Grows
  <1>4. /\ Launched(c.seen, b)' <=> Launched(c.seen, b)
        /\ Launched(c.since, b)' <=> Launched(c.since, b)
        /\ Decided(c.seen, b)' <=> Decided(c.seen, b)
        /\ Decided(height, b) => Decided(height, b)'
        /\ \A k \in Nat : BallotSpent(c.seen, b, k)' <=> BallotSpent(c.seen, b, k)
        /\ \A k \in DOMAIN ballot[b] :
             k \in DOMAIN ballot'[b] /\ ballot'[b][k] = ballot[b][k]
    <2>1. c.seen <= height
      BY <1>2, <1>3
    <2>2. \A k \in DOMAIN ballot[b] :
             k \in DOMAIN ballot'[b] /\ ballot'[b][k] = ballot[b][k]
      BY <1>2, <1>3, PastIsFixed
    <2>3. Decided(height, b) => Decided(height, b)'
      <3>1. \A k \in DOMAIN ballot'[b] : ballot'[b][k].at <= height'
        <4>1. /\ DOMAIN ballot'[b] = 1 .. Len(ballot'[b])
              /\ \A k \in 1 .. Len(ballot'[b]) : ballot'[b][k].at \in 1 .. height'
          BY <1>1, <1>2 DEF Elements
        <4> QED
          BY <4>1
      <3> QED
        BY <2>2, <3>1 DEF Decided, BallotSpent, Decides
    <2> HIDE DEF b
    <2> QED
      BY <1>2, <1>3, <2>1, <2>2, <2>3, PastIsFixed
  <1>5. s.finalized => /\ Decided(height, b)'
                       /\ \A k \in DOMAIN ballot'[b] :
                            ballot'[b][k].outcome # NoOutcome => s.outcome = ballot'[b][k].outcome
    <2> SUFFICES ASSUME s.finalized
                 PROVE  /\ Decided(height, b)'
                        /\ \A k \in DOMAIN ballot'[b] :
                             ballot'[b][k].outcome # NoOutcome => s.outcome = ballot'[b][k].outcome
      OBVIOUS
    <2>1. PICK j \in DOMAIN ballot[b] : Decides(b, j) /\ s.outcome = ballot[b][j].outcome
      BY DEF Regular, Decided
    <2>2. j \in DOMAIN ballot'[b] /\ Decides(b, j)' /\ s.outcome = ballot'[b][j].outcome
      BY <1>4, <2>1 DEF Decides
    <2>3. \A k \in DOMAIN ballot'[b] : ballot'[b][k].outcome # NoOutcome => j = k
      BY <1>1, <1>2, <2>2 DEF BallotLineage, Decides
    <2>4. Decided(height, b)'
      BY <1>4 DEF Regular
    <2> QED
      BY <2>2, <2>3, <2>4
  <1>6. s.coin <= Len(ballot'[b]) + 1
    <2>1. Len(ballot[b]) <= Len(ballot'[b]) /\ Len(ballot[b]) \in Nat /\ Len(ballot'[b]) \in Nat
      BY <1>1, <1>2 DEF Grows, Longer, Elements
    <2>2. s.coin <= Len(ballot[b]) + 1
      BY DEF Regular
    <2> HIDE DEF b
    <2> QED
      BY <1>2, <2>1, <2>2
  <1>7. s.memo = MemoOf(height, b)' \/ (s.memo = NoMemo /\ ~Launched(c.since, b)')
    <2>1. CASE s.memo = NoMemo /\ ~Launched(c.since, b)
      BY <1>4, <2>1
    <2>2. CASE s.memo = MemoOf(height, b) /\ Launched(height, b)
      <3>1. launch'[b] = launch[b] /\ Launched(height, b)'
        BY <1>1, <1>2, <1>3, <2>2 DEF Grows, Launched, Elements
      <3> QED
        BY <2>2, <3>1 DEF MemoOf
    <2>3. CASE s.memo = MemoOf(height, b) /\ ~Launched(height, b)
      <3>1. ~Launched(c.since, b)
        BY <1>1, <1>2, <2>3 DEF Launched, Elements
      <3> QED
        BY <1>4, <2>3, <3>1 DEF MemoOf
    <2> QED
      BY <2>1, <2>2, <2>3 DEF Regular
  <1> QED
    BY <1>2, <1>4, <1>5, <1>6, <1>7 DEF Regular, Decides

LEMMA WalkedIsStable ==
  ASSUME ChainInv, ChainInv', Grows, NEW c \in CallSet, c.ballot \in Ballot,
         c.since <= height, c.seen <= indexed, Walked(c)
  PROVE  Walked(c)'
  <1> DEFINE b == c.ballot
  <1>1. Elements /\ Elements'
    <2>1. Elements'
      BY ChainElements, PTL
    <2> QED
      BY <2>1, ChainElements DEF ChainInv
  <1>2. /\ b \in Ballot /\ c.coin \in Nat /\ c.seen \in Nat
        /\ height \in Nat /\ indexed \in Nat /\ indexed' \in Nat /\ indexed <= indexed'
        /\ indexed <= height /\ c.seen <= height
    BY <1>1 DEF CallSet, Elements, Grows
  <1>3. /\ Len(ballot[b]) <= Len(ballot'[b])
        /\ Len(ballot[b]) \in Nat /\ Len(ballot'[b]) \in Nat
        /\ DOMAIN ballot[b] = 1 .. Len(ballot[b]) /\ DOMAIN ballot'[b] = 1 .. Len(ballot'[b])
        /\ \A k \in 1 .. Len(ballot[b]) : ballot'[b][k] = ballot[b][k]
        /\ \A k \in 1 .. Len(ballot'[b]) : ballot'[b][k].at \in Nat
    BY <1>1, <1>2 DEF Grows, Longer, Elements
  <1>4. BallotSpent(c.seen, b, c.coin)' <=> BallotSpent(c.seen, b, c.coin)
    BY <1>2, PastIsFixed
  <1> HIDE DEF b
  <1>5. BallotSpent(indexed, b, c.coin) => BallotSpent(indexed, b, c.coin)'
    BY <1>2, <1>3 DEF BallotSpent
  <1> USE DEF b
  <1>6. CASE c.decider # 0
    <2>1. /\ c.coin \in 1 .. Len(ballot[b]) + 1
          /\ c.decider \in DOMAIN ballot[b] /\ ballot[b][c.decider].outcome # NoOutcome
          /\ c.spent => BallotSpent(indexed, b, c.coin)
          /\ ~c.spent => ~BallotSpent(c.seen, b, c.coin)
      BY <1>6 DEF Walked, Decides
    <2> HIDE DEF b
    <2>2. /\ c.coin \in 1 .. Len(ballot'[b]) + 1
          /\ c.decider \in DOMAIN ballot'[b] /\ ballot'[b][c.decider].outcome # NoOutcome
      BY <1>2, <1>3, <2>1
    <2> USE DEF b
    <2> QED
      BY <1>4, <1>5, <1>6, <2>1, <2>2 DEF Walked, Decides
  <1>7. CASE c.decider = 0
    <2>1. \A k \in DOMAIN ballot[b] : k < c.coin => ballot[b][k].outcome = NoOutcome
      BY <1>7 DEF Walked, Decides
    <2>2. c.coin \in 1 .. Len(ballot[b]) + 1
      BY DEF Walked
    <2> HIDE DEF b
    <2>3. \A k \in DOMAIN ballot'[b] : k < c.coin => ballot'[b][k].outcome = NoOutcome
      BY <1>2, <1>3, <2>1, <2>2
    <2>4. c.coin \in 1 .. Len(ballot'[b]) + 1
      BY <1>2, <1>3, <2>2
    <2> USE DEF b
    <2> QED
      BY <1>4, <1>5, <1>7, <2>3, <2>4 DEF Walked, Decides
  <1> QED
    BY <1>6, <1>7

LEMMA ReadInvIsStable ==
  ASSUME ChainInv, ChainInv', Grows, NEW c \in CallSet, ReadInv(c)
  PROVE  ReadInv(c)'
  <1>1. Elements /\ Elements' /\ c.since \in Nat /\ c.seen \in Nat
    <2>1. Elements'
      BY ChainElements, PTL
    <2> QED
      BY <2>1, ChainElements DEF ChainInv, CallSet
  <1>2. c.since <= height /\ c.seen <= indexed
    BY DEF ReadInv
  <1>3. c.since <= height' /\ c.seen <= indexed'
    BY <1>1, <1>2 DEF Grows, Elements
  <1>4. \A i \in 1 .. Len(c.listed) : c.listed[i] \in SnapshotSet
    BY DEF CallSet
  <1>5. \A i \in 1 .. Len(c.listed) : Regular(c, c.listed[i])'
    BY <1>2, <1>4, RegularIsStable DEF ReadInv
  <1>6. c.pc \in {"walk", "outcome"} => Walked(c)'
    BY <1>2, WalkedIsStable DEF ReadInv
  <1>7. c.pc \in {"launcher", "walk", "outcome"} => MemoIsRegular(c)'
    <2> SUFFICES ASSUME c.pc \in {"launcher", "walk", "outcome"} PROVE MemoIsRegular(c)'
      OBVIOUS
    <2>1. c.ballot \in Ballot /\ MemoIsRegular(c)
      BY DEF ReadInv
    <2>2. Launched(c.since, c.ballot)' <=> Launched(c.since, c.ballot)
      BY <1>1, <1>2, <2>1, PastIsFixed
    <2>3. CASE c.memo = NoMemo /\ ~Launched(c.since, c.ballot)
      BY <2>2, <2>3 DEF MemoIsRegular
    <2>4. CASE c.memo = MemoOf(height, c.ballot) /\ Launched(height, c.ballot)
      <3>1. launch'[c.ballot] = launch[c.ballot] /\ Launched(height, c.ballot)'
        BY <1>1, <2>1, <2>4 DEF Grows, Launched, Elements
      <3> QED
        BY <2>4, <3>1 DEF MemoOf, MemoIsRegular
    <2>5. CASE c.memo = MemoOf(height, c.ballot) /\ ~Launched(height, c.ballot)
      <3>1. ~Launched(c.since, c.ballot)
        BY <1>1, <1>2, <2>1, <2>5 DEF Launched, Elements
      <3> QED
        BY <2>2, <2>5, <3>1 DEF MemoOf, MemoIsRegular
    <2> QED
      BY <2>1, <2>3, <2>4, <2>5 DEF MemoIsRegular
  <1> QED
    BY <1>3, <1>5, <1>6, <1>7 DEF ReadInv

LEMMA ListInvIsStable ==
  ASSUME ChainInv, ChainInv', Grows, NEW c \in CallSet, ReadInv(c), ListInv(c)
  PROVE  ListInv(c)'
  <1> SUFFICES ASSUME c.target = All PROVE ListInv(c)'
    BY DEF ListInv
  <1>1. Elements /\ Elements' /\ ElectionLineage /\ ElectionLineage'
    <2>1. Elements'
      BY ChainElements, PTL
    <2> QED
      BY <2>1, ChainElements DEF ChainInv
  <1>2. /\ c.seen \in Nat /\ c.seen <= indexed /\ c.at \in Nat
        /\ height \in Nat /\ indexed \in Nat /\ indexed' \in Nat
        /\ indexed <= indexed' /\ indexed <= height /\ height' \in Nat /\ height <= height'
    BY <1>1 DEF CallSet, Elements, Grows, ReadInv
  <1>3. /\ Len(election) <= Len(election')
        /\ Len(election) \in Nat /\ Len(election') \in Nat
        /\ DOMAIN election = 1 .. Len(election) /\ DOMAIN election' = 1 .. Len(election')
        /\ \A k \in 1 .. Len(election) : election'[k] = election[k]
        /\ \A k \in 1 .. Len(election') : election'[k].at \in Nat
        /\ \A k \in 1 .. Len(election') : k > Len(election) => election'[k].at > height
    BY <1>1 DEF Grows, Longer, Elements
  <1>4. \A b \in Ballot : /\ created[b] \in Nat /\ created[b] <= height /\ created'[b] \in Nat
                          /\ \/ created'[b] = created[b]
                             \/ created[b] = 0 /\ created'[b] > height
    BY <1>1 DEF Grows, Elements
  <1>5. \A i \in 1 .. Len(c.listed) : c.listed[i].ballot \in Ballot
    <2>1. \A i \in 1 .. Len(c.listed) : c.listed[i] \in SnapshotSet
      BY DEF CallSet
    <2> QED
      BY <2>1 DEF SnapshotSet
  <1>6. Covered(c) => Covered(c)'
    <2> SUFFICES ASSUME Covered(c) PROVE Covered(c)'
      OBVIOUS
    <2>1. c.at = 1 \/ c.at \in 1 .. Len(election)
      BY <1>3 DEF Covered, ElectionSpent
    <2>2. \A i \in 1 .. Len(c.listed) : created[c.listed[i].ballot] # 0
      <3> TAKE i \in 1 .. Len(c.listed)
      <3>1. PICK k \in DOMAIN election : election[k].creates = c.listed[i].ballot
        BY DEF Covered, ListsUpTo
      <3>2. created[c.listed[i].ballot] = election[k].at
        BY <1>1, <1>5, <3>1, BallotReaderAssumption DEF ElectionLineage
      <3>3. election[k].at # 0
        BY <1>1 DEF Elements
      <3> QED
        BY <3>2, <3>3
    <2>3. \A i \in 1 .. Len(c.listed) : created'[c.listed[i].ballot] = created[c.listed[i].ballot]
      BY <1>4, <1>5, <2>2
    <2>4. InOrder(c)'
      BY <2>3 DEF InOrder, Covered, ListsUpTo
    <2>5. c.at = 1 \/ ElectionSpent(indexed, c.at)'
      BY <1>2, <1>3, <2>1 DEF Covered, ElectionSpent
    <2>6. \A i \in 1 .. Len(c.listed) :
            \E k \in DOMAIN election' : k <= c.at - 1 /\ election'[k].creates = c.listed[i].ballot
      BY <1>3 DEF Covered, ListsUpTo
    <2>7. \A k \in DOMAIN election' :
            k <= c.at - 1 /\ election'[k].creates # NoBallot => Lists(c, election'[k].creates)
      BY <1>2, <1>3, <2>1 DEF Covered, ListsUpTo
    <2> QED
      BY <2>4, <2>5, <2>6, <2>7 DEF Covered, ListsUpTo, Lists
  <1>7. AtLauncher(c) => AtLauncher(c)'
    <2> SUFFICES ASSUME AtLauncher(c) PROVE AtLauncher(c)'
      OBVIOUS
    <2>1. ElectionSpent(indexed, c.at)' /\ c.ballot = election'[c.at].creates
      BY <1>2, <1>3 DEF AtLauncher, ElectionSpent
    <2>2. c.follow => ElectionSpent(indexed, c.at + 1)'
      BY <1>2, <1>3 DEF AtLauncher, ElectionSpent
    <2>3. ~c.follow => ~ElectionSpent(c.seen, c.at + 1)'
      BY <1>2, <1>3 DEF AtLauncher, ElectionSpent
    <2> QED
      BY <2>1, <2>2, <2>3 DEF AtLauncher
  <1>8. Complete(c) => Complete(c)'
    <2> SUFFICES ASSUME Complete(c) PROVE Complete(c)'
      OBVIOUS
    <2>1. \A i \in 1 .. Len(c.listed) :
            created[c.listed[i].ballot] # 0 /\ c.listed[i].ballot \in Ballot \ Foreign
      BY DEF Complete, OwnBallots, Created
    <2>2. \A i \in 1 .. Len(c.listed) : created'[c.listed[i].ballot] = created[c.listed[i].ballot]
      BY <1>4, <2>1
    <2>3. InOrder(c)'
      BY <2>2 DEF InOrder, Complete
    <2>4. \A i \in 1 .. Len(c.listed) : c.listed[i].ballot \in OwnBallots(height)'
      BY <1>2, <1>4, <2>1, <2>2 DEF OwnBallots, Created
    <2>5. OwnBallots(c.seen)' = OwnBallots(c.seen)
      BY <1>2, <1>4 DEF OwnBallots, Created
    <2>6. \A b, later \in OwnBallots(height)' :
            Lists(c, later) /\ created'[b] < created'[later] => Lists(c, b)
      <3> SUFFICES ASSUME NEW b \in OwnBallots(height)', NEW later \in OwnBallots(height)',
                          Lists(c, later), created'[b] < created'[later]
                   PROVE  Lists(c, b)
        OBVIOUS
      <3>1. later \in OwnBallots(height) /\ created'[later] = created[later]
        BY <2>2 DEF Lists, Complete
      <3>2. b \in Ballot \ Foreign /\ created'[b] # 0 /\ later \in Ballot
        BY <3>1 DEF OwnBallots, Created
      <3>3. created'[b] = created[b]
        BY <1>2, <1>4, <3>1, <3>2
      <3>4. b \in OwnBallots(height)
        BY <1>2, <1>4, <3>2, <3>3 DEF OwnBallots, Created
      <3> QED
        BY <3>1, <3>3, <3>4 DEF Complete
    <2> QED
      BY <2>3, <2>4, <2>5, <2>6 DEF Complete, Lists
  <1> QED
    BY <1>6, <1>7, <1>8 DEF ListInv

------------------------------------------------------------------------------
(* The steps of a read, on a chain that does not change                     *)

LEMMA ListedSkip ==
  ASSUME NEW c, NEW n \in DOMAIN election, Elements, ListsUpTo(c, n - 1),
         election[n].creates = NoBallot
  PROVE  ListsUpTo(c, n)
  BY DEF ListsUpTo, Elements

LEMMA ListedAppend ==
  ASSUME ChainInv, NEW c \in CallSet, NEW s \in SnapshotSet, NEW n \in DOMAIN election,
         ListsUpTo(c, n - 1), s.ballot = election[n].creates,
         NEW d, d.listed = Append(c.listed, s)
  PROVE  ListsUpTo(d, n)
  <1> DEFINE m == Len(c.listed)
  <1>1. Elements /\ ElectionLineage
    BY ChainElements DEF ChainInv
  <1>2. /\ c.listed \in Seq(SnapshotSet) /\ m \in Nat
        /\ Len(d.listed) = m + 1 /\ d.listed[m + 1] = s
        /\ \A i \in 1 .. m : d.listed[i] = c.listed[i]
    BY DEF CallSet
  <1> HIDE DEF m
  <1>3. n \in Nat /\ s.ballot # NoBallot
    BY <1>1, BallotReaderAssumption DEF Elements, SnapshotSet
  <1>4. \A i \in 1 .. m + 1 :
          \E k \in DOMAIN election : k <= n /\ election[k].creates = d.listed[i].ballot
    <2> TAKE i \in 1 .. m + 1
    <2>1. CASE i = m + 1
      BY <1>2, <1>3, <2>1
    <2>2. CASE i \in 1 .. m
      <3>1. PICK k \in DOMAIN election : k <= n - 1 /\ election[k].creates = c.listed[i].ballot
        BY <2>2 DEF ListsUpTo, m
      <3>2. k <= n
        BY <1>1, <1>3, <3>1 DEF Elements
      <3> QED
        BY <1>2, <2>2, <3>1, <3>2
    <2> QED
      BY <1>2, <2>1, <2>2
  <1>5. \A k \in DOMAIN election :
          k <= n /\ election[k].creates # NoBallot => Lists(d, election[k].creates)
    <2> SUFFICES ASSUME NEW k \in DOMAIN election, k <= n, election[k].creates # NoBallot
                 PROVE  \E i \in 1 .. m + 1 : d.listed[i].ballot = election[k].creates
      BY <1>2 DEF Lists
    <2>1. CASE k = n
      BY <1>2, <2>1
    <2>2. CASE k # n
      <3>1. k <= n - 1
        BY <1>1, <1>3, <2>2 DEF Elements
      <3>2. PICK i \in 1 .. m : c.listed[i].ballot = election[k].creates
        BY <3>1 DEF ListsUpTo, Lists, m
      <3> QED
        BY <1>2, <3>2
    <2> QED
      BY <2>1, <2>2
  <1>6. InOrder(d)
    <2> SUFFICES ASSUME NEW i \in 1 .. m + 1, NEW j \in 1 .. m + 1, i < j
                 PROVE  created[d.listed[i].ballot] < created[d.listed[j].ballot]
      BY <1>2 DEF InOrder
    <2>1. CASE j \in 1 .. m
      <3>1. i \in 1 .. m
        BY <1>2, <2>1
      <3> QED
        BY <1>2, <2>1, <3>1 DEF ListsUpTo, InOrder, m
    <2>2. CASE j = m + 1
      <3>1. i \in 1 .. m
        BY <1>2, <2>2
      <3>2. PICK k \in DOMAIN election : k <= n - 1 /\ election[k].creates = c.listed[i].ballot
        BY <3>1 DEF ListsUpTo, m
      <3>3. k < n
        BY <1>1, <1>3, <3>2 DEF Elements
      <3>4. election[k].at < election[n].at
        BY <1>1, <3>3 DEF ElectionLineage
      <3>5. c.listed[i].ballot # NoBallot
        <4>1. c.listed[i] \in SnapshotSet
          BY <1>2, <3>1 DEF m
        <4> QED
          BY <4>1, BallotReaderAssumption DEF SnapshotSet
      <3>6. /\ created[c.listed[i].ballot] = election[k].at
            /\ created[s.ballot] = election[n].at
        BY <1>1, <1>3, <3>2, <3>5 DEF ElectionLineage
      <3> QED
        BY <1>2, <2>2, <3>1, <3>4, <3>6
    <2> QED
      BY <1>2, <2>1, <2>2
  <1> QED
    BY <1>2, <1>4, <1>5, <1>6 DEF ListsUpTo

\* Nothing is missing at the end of the election's lineage.
LEMMA ListedAll ==
  ASSUME ChainInv, NEW c \in CallSet, NEW n \in Nat, n = 0 \/ n \in DOMAIN election,
         ListsUpTo(c, n), c.seen <= indexed, ~ElectionSpent(c.seen, n + 1)
  PROVE  Complete(c)
  <1>1. Elements /\ ElectionLineage /\ c.seen \in Nat
    BY ChainElements DEF ChainInv, CallSet
  <1>2. \A i \in 1 .. Len(c.listed) : c.listed[i].ballot \in Ballot
    <2>1. \A i \in 1 .. Len(c.listed) : c.listed[i] \in SnapshotSet
      BY DEF CallSet
    <2> QED
      BY <2>1 DEF SnapshotSet
  <1>3. \A k \in DOMAIN election : election[k].creates # NoBallot =>
          /\ election[k].creates \in Ballot \ Foreign
          /\ created[election[k].creates] = election[k].at
          /\ election[k].at \in 1 .. height
    BY <1>1 DEF ElectionLineage, Elements
  <1>4. \A i \in 1 .. Len(c.listed) : c.listed[i].ballot \in OwnBallots(height)
    <2> TAKE i \in 1 .. Len(c.listed)
    <2>1. PICK k \in DOMAIN election : election[k].creates = c.listed[i].ballot
      BY DEF ListsUpTo
    <2> QED
      BY <1>2, <1>3, <2>1, BallotReaderAssumption DEF OwnBallots, Created
  <1>5. \A b \in OwnBallots(c.seen) : Lists(c, b)
    <2> TAKE b \in OwnBallots(c.seen)
    <2>1. b \in Ballot \ Foreign /\ created[b] \in 1 .. c.seen /\ b # NoBallot
      BY BallotReaderAssumption DEF OwnBallots, Created
    <2>2. PICK k \in DOMAIN election : election[k].creates = b
      BY <1>1, <2>1 DEF ElectionLineage
    <2>3. election[k].at <= c.seen
      BY <1>1, <1>3, <2>1, <2>2
    <2>4. k <= n
      <3> SUFFICES ASSUME k > n PROVE FALSE
        BY <1>1 DEF Elements
      <3>1. n + 1 \in DOMAIN election /\ n + 1 <= k
        BY <1>1 DEF Elements
      <3>2. election[n + 1].at <= election[k].at
        BY <1>1, <3>1 DEF ElectionLineage, Elements
      <3>3. election[n + 1].at <= c.seen
        BY <1>1, <2>3, <3>1, <3>2 DEF Elements
      <3> QED
        BY <3>1, <3>3 DEF ElectionSpent
    <2> QED
      BY <2>1, <2>2, <2>4 DEF ListsUpTo
  <1>6. \A b, later \in OwnBallots(height) :
          Lists(c, later) /\ created[b] < created[later] => Lists(c, b)
    <2> SUFFICES ASSUME NEW b \in OwnBallots(height), NEW later \in OwnBallots(height),
                        Lists(c, later), created[b] < created[later]
                 PROVE  Lists(c, b)
      OBVIOUS
    <2>1. b \in Ballot \ Foreign /\ created[b] # 0 /\ b # NoBallot
      BY BallotReaderAssumption DEF OwnBallots, Created
    <2>2. PICK k \in DOMAIN election : election[k].creates = b
      BY <1>1, <2>1 DEF ElectionLineage
    <2>3. PICK l \in DOMAIN election : l <= n /\ election[l].creates = later
      BY DEF Lists, ListsUpTo
    <2>4. election[k].at < election[l].at
      BY <1>3, <2>1, <2>2, <2>3, BallotReaderAssumption DEF OwnBallots
    <2>5. k < l
      <3> SUFFICES ASSUME l <= k PROVE FALSE
        BY <1>1 DEF Elements
      <3>1. election[l].at <= election[k].at
        BY <1>1 DEF ElectionLineage, Elements
      <3>2. election[l].at \in Nat /\ election[k].at \in Nat
        BY <1>1 DEF Elements
      <3> QED
        BY <2>4, <3>1, <3>2
    <2>6. k <= n
      BY <1>1, <2>3, <2>5 DEF Elements
    <2> QED
      BY <2>1, <2>2, <2>6 DEF ListsUpTo
  <1> QED
    BY <1>4, <1>5, <1>6 DEF Complete, ListsUpTo

\* A read that has dealt with a coin goes on with what it has to show for it.
LEMMA ProceedKeeps ==
  ASSUME ChainInv, NEW c \in CallSet, c.since <= height, c.seen <= indexed,
         \A i \in 1 .. Len(c.listed) : Regular(c, c.listed[i]),
         c.coin = 0, c.decider = 0,
         c.target = All =>
           /\ c.ballot # NoBallot => Covered(c) /\ AtLauncher(c)
           /\ c.ballot = NoBallot /\ c.follow =>
                ListsUpTo(c, c.at) /\ ElectionSpent(indexed, c.at + 1)
           /\ c.ballot = NoBallot /\ ~c.follow => Complete(c)
  PROVE  CallInv(Proceed(c))
  <1> DEFINE d == Proceed(c)
  <1>1. CASE c.ballot # NoBallot
    <2>1. d = [c EXCEPT !.pc = "memo"]
      BY <1>1 DEF Proceed
    <2>2. d \in CallSet
      BY <2>1 DEF CallSet, Pc
    <2>3. ReadInv(d)
      BY <1>1, <2>1 DEF ReadInv, Regular, CallSet
    <2>4. ListInv(d)
      BY <1>1, <2>1 DEF ListInv, Covered, ListsUpTo, Lists, InOrder, AtLauncher, CallSet
    <2> QED
      BY <2>2, <2>3, <2>4 DEF CallInv
  <1>2. CASE c.ballot = NoBallot /\ c.follow
    <2>1. d = [c EXCEPT !.pc = "children", !.at = @ + 1]
      BY <1>2 DEF Proceed
    <2>2. d \in CallSet /\ c.at \in Nat
      <3>1. c.at \in Nat /\ c.at + 1 \in Nat
        BY DEF CallSet
      <3> QED
        BY <2>1, <3>1 DEF CallSet, Pc
    <2>3. ReadInv(d)
      BY <2>1 DEF ReadInv, Regular, CallSet
    <2>4. c.target = All => Covered(d)
      <3>1. d.at = c.at + 1 /\ d.listed = c.listed /\ d.at - 1 = c.at
        BY <2>1, <2>2 DEF CallSet
      <3> QED
        BY <1>2, <2>2, <3>1 DEF Covered, ListsUpTo, Lists, InOrder
    <2>5. ListInv(d)
      BY <2>1, <2>4 DEF ListInv, CallSet
    <2> QED
      BY <2>2, <2>3, <2>5 DEF CallInv
  <1>3. CASE c.ballot = NoBallot /\ ~c.follow
    <2>1. d = [c EXCEPT !.pc = "done", !.at = 0]
      BY <1>3 DEF Proceed
    <2>2. d \in CallSet
      BY <2>1 DEF CallSet, Pc
    <2>3. ReadInv(d)
      BY <2>1 DEF ReadInv, Regular, CallSet
    <2>4. ListInv(d)
      BY <1>3, <2>1 DEF ListInv, Complete, Lists, InOrder, CallSet
    <2> QED
      BY <2>2, <2>3, <2>4 DEF CallInv
  <1> QED
    BY <1>1, <1>2, <1>3 DEF CallSet

LEMMA ReportKeeps ==
  ASSUME ChainInv, NEW c \in CallSet, ReadInv(c), ListInv(c),
         c.pc \in {"launcher", "walk", "outcome"},
         NEW o \in Outcome \cup {NoOutcome}, Regular(c, Snapshot(c, o))
  PROVE  CallInv(Report(c, o))
  <1> DEFINE s == Snapshot(c, o)
  <1> DEFINE d == [c EXCEPT !.listed = Append(@, s), !.ballot = NoBallot,
                            !.memo = NoMemo, !.coin = 0, !.spent = FALSE, !.decider = 0]
  <1>1. s \in SnapshotSet
    BY DEF Snapshot, SnapshotSet, CallSet, ReadInv
  <1>2. c.ballot \in Ballot /\ s.ballot = c.ballot /\ c.listed \in Seq(SnapshotSet)
    BY DEF Snapshot, ReadInv, CallSet
  <1> HIDE DEF s
  <1>3. d \in CallSet
    <2> DEFINE l == Append(c.listed, s)
    <2>1. l \in Seq(SnapshotSet)
      BY <1>1, <1>2
    <2>2. d = [c EXCEPT !.listed = l, !.ballot = NoBallot,
                        !.memo = NoMemo, !.coin = 0, !.spent = FALSE, !.decider = 0]
      BY DEF CallSet
    <2> HIDE DEF l, d
    <2> QED
      BY <2>1, <2>2 DEF CallSet
  <1>4. /\ d.since = c.since /\ d.seen = c.seen /\ d.coin = 0 /\ d.decider = 0
        /\ d.listed = Append(c.listed, s) /\ d.ballot = NoBallot /\ d.follow = c.follow
        /\ d.at = c.at /\ d.target = c.target
    BY DEF CallSet
  <1> HIDE DEF d
  <1>5. \A i \in 1 .. Len(d.listed) : Regular(d, d.listed[i])
    <2>1. \A i \in 1 .. Len(d.listed) : Regular(c, d.listed[i])
      BY <1>1, <1>2, <1>4 DEF ReadInv, s
    <2> QED
      BY <1>4, <2>1 DEF Regular
  <1>6. ASSUME c.target = All
        PROVE  /\ d.follow => ListsUpTo(d, d.at) /\ ElectionSpent(indexed, d.at + 1)
               /\ ~d.follow => Complete(d)
    <2>1. Covered(c) /\ AtLauncher(c)
      BY <1>6 DEF ListInv
    <2>2. c.at \in DOMAIN election /\ c.at \in Nat /\ s.ballot = election[c.at].creates
      BY <1>2, <2>1 DEF AtLauncher, ElectionSpent, CallSet
    <2>3. ListsUpTo(d, c.at)
      BY <1>1, <1>4, <2>1, <2>2, ListedAppend DEF Covered
    <2>4. ~c.follow => Complete(d)
      <3>1. ~c.follow => ~ElectionSpent(d.seen, c.at + 1)
        BY <1>4, <2>1 DEF AtLauncher
      <3>2. d.seen <= indexed
        BY <1>4 DEF ReadInv
      <3> QED
        BY <1>3, <2>2, <2>3, <3>1, <3>2, ListedAll
    <2>5. c.follow => ElectionSpent(indexed, c.at + 1)
      BY <2>1 DEF AtLauncher
    <2> QED
      BY <1>4, <2>3, <2>4, <2>5
  <1>7. d.since <= height /\ d.seen <= indexed
    BY <1>4 DEF ReadInv
  <1>8. CallInv(Proceed(d))
    BY <1>3, <1>4, <1>5, <1>6, <1>7, ProceedKeeps
  <1> QED
    BY <1>8 DEF Report, d, s

LEMMA NoCallType == NoCall \in CallSet
  <1>1. <<>> \in Seq(SnapshotSet)
    OBVIOUS
  <1> QED
    BY <1>1 DEF NoCall, CallSet, Pc

LEMMA StartKeeps ==
  ASSUME ChainInv, NEW target \in Ballot \cup {All}
  PROVE  CallInv([NoCall EXCEPT
                    !.target = target,
                    !.pc     = IF target = All THEN "eve" ELSE "record",
                    !.ballot = IF target = All THEN NoBallot ELSE target,
                    !.since  = height, !.seen = indexed])
  <1> DEFINE d == [NoCall EXCEPT
                     !.target = target,
                     !.pc     = IF target = All THEN "eve" ELSE "record",
                     !.ballot = IF target = All THEN NoBallot ELSE target,
                     !.since  = height, !.seen = indexed]
  <1>1. height \in Nat /\ indexed \in Nat
    BY DEF ChainInv, ChainType
  <1>2. /\ d.target = target /\ d.pc = IF target = All THEN "eve" ELSE "record"
        /\ d.ballot = IF target = All THEN NoBallot ELSE target
        /\ d.since = height /\ d.seen = indexed /\ d.listed = <<>>
        /\ d.coin = 0 /\ d.decider = 0
    BY DEF NoCall
  <1>3. d \in CallSet
    <2>1. d = [NoCall EXCEPT !.target = target, !.pc = d.pc, !.ballot = d.ballot,
                             !.since = d.since, !.seen = d.seen]
      BY DEF NoCall
    <2>2. d.pc \in Pc /\ d.ballot \in Ballot \cup {NoBallot} /\ d.since \in Nat /\ d.seen \in Nat
      BY <1>1, <1>2 DEF Pc
    <2> HIDE DEF d
    <2> QED
      BY <2>1, <2>2, NoCallType DEF CallSet
  <1> HIDE DEF d
  <1>4. ReadInv(d)
    BY <1>1, <1>2 DEF ReadInv
  <1>5. ListInv(d)
    BY <1>2 DEF ListInv
  <1> QED
    BY <1>3, <1>4, <1>5 DEF CallInv, d

LEMMA AbortKeeps ==
  ASSUME ChainInv
  PROVE  CallInv([NoCall EXCEPT !.pc = "failed"])
  <1> DEFINE d == [NoCall EXCEPT !.pc = "failed"]
  <1>1. /\ d.pc = "failed" /\ d.listed = <<>> /\ d.since = 0 /\ d.seen = 0
        /\ height \in Nat /\ indexed \in Nat
    BY DEF NoCall, ChainInv, ChainType
  <1>2. d \in CallSet
    BY NoCallType DEF CallSet, Pc
  <1> QED
    BY <1>1, <1>2 DEF CallInv, ReadInv, ListInv

LEMMA EveKeeps ==
  ASSUME ChainInv, NEW c \in CallSet, ReadInv(c), ListInv(c), c.pc = "eve"
  PROVE  CallInv(IF Deployed(indexed) THEN [c EXCEPT !.pc = "children", !.at = 1]
                                      ELSE [c EXCEPT !.pc = "done"])
  <1>1. CASE Deployed(indexed)
    <2> DEFINE d == [c EXCEPT !.pc = "children", !.at = 1]
    <2>1. d \in CallSet
      BY DEF CallSet, Pc
    <2>2. ReadInv(d)
      BY DEF ReadInv, Regular, CallSet
    <2>3. c.target = All => Covered(d)
      BY DEF ListInv, Covered, ListsUpTo, InOrder, CallSet, ChainInv, ChainType
    <2>4. ListInv(d)
      BY <2>3 DEF ListInv, CallSet
    <2> QED
      BY <1>1, <2>1, <2>2, <2>4 DEF CallInv
  <1>2. CASE ~Deployed(indexed)
    <2> DEFINE d == [c EXCEPT !.pc = "done"]
    <2>1. d \in CallSet
      BY DEF CallSet, Pc
    <2>2. ReadInv(d)
      BY DEF ReadInv, Regular, CallSet
    <2>3. ASSUME d.target = All PROVE Complete(d)
      <3>1. d.listed = <<>> /\ d.seen = c.seen /\ c.seen <= indexed
        BY <2>3 DEF ListInv, ReadInv, CallSet
      <3>2. Elements /\ deployed \in Nat /\ DeployedFirst /\ c.seen \in Nat
        BY ChainElements DEF ChainInv, ChainType, CallSet
      <3>3. ~ElectionSpent(d.seen, 1)
        <4> SUFFICES ASSUME ElectionSpent(c.seen, 1) PROVE FALSE
          BY <3>1
        <4>1. deployed \in 1 .. election[1].at /\ election[1].at <= c.seen
          BY <3>2 DEF DeployedFirst, ElectionSpent
        <4>2. 1 \in 1 .. Len(election)
          BY <3>2 DEF ElectionSpent, Elements
        <4>3. election[1].at \in Nat /\ indexed \in Nat
          BY <3>2, <4>2 DEF Elements
        <4>4. deployed \in 1 .. indexed
          BY <3>1, <3>2, <4>1, <4>3
        <4> QED
          BY <1>2, <4>4 DEF Deployed
      <3>4. ListsUpTo(d, 0)
        BY <3>1, <3>2 DEF ListsUpTo, InOrder, Elements
      <3>5. 0 \in Nat /\ 0 + 1 = 1
        OBVIOUS
      <3> HIDE DEF d
      <3> QED
        BY <2>1, <3>1, <3>3, <3>4, <3>5, ListedAll
    <2>4. d.pc = "done"
      BY DEF CallSet
    <2>5. ListInv(d)
      BY <2>3, <2>4 DEF ListInv
    <2> QED
      BY <1>2, <2>1, <2>2, <2>5 DEF CallInv
  <1> QED
    BY <1>1, <1>2

LEMMA ChildrenKeeps ==
  ASSUME ChainInv, NEW c \in CallSet, ReadInv(c), ListInv(c), c.pc = "children", c.coin = 0,
         c.decider = 0
  PROVE  CallInv(Proceed([c EXCEPT !.ballot = LauncherOf(c.at), !.follow = SpentChild(c.at)]))
  <1> DEFINE d == [c EXCEPT !.ballot = LauncherOf(c.at), !.follow = SpentChild(c.at)]
  <1>1. Elements /\ c.at \in Nat /\ c.seen \in Nat /\ indexed \in Nat /\ c.seen <= indexed
    BY ChainElements DEF CallSet, ReadInv, ChainInv, ChainType
  <1>2. /\ LauncherOf(c.at) \in Ballot \cup {NoBallot}
        /\ SpentChild(c.at) \in BOOLEAN
    BY <1>1 DEF LauncherOf, SpentChild, ElectionSpent, Elements
  <1>3. /\ d \in CallSet
        /\ d.at = c.at /\ d.seen = c.seen /\ d.since = c.since /\ d.listed = c.listed
        /\ d.coin = 0 /\ d.decider = 0 /\ d.target = c.target
        /\ d.ballot = LauncherOf(c.at) /\ d.follow = SpentChild(c.at)
    BY <1>2 DEF CallSet
  <1> HIDE DEF d
  <1>4. \A i \in 1 .. Len(d.listed) : Regular(d, d.listed[i])
    <2>1. \A i \in 1 .. Len(d.listed) : Regular(c, d.listed[i])
      BY <1>3 DEF ReadInv
    <2> QED
      BY <1>3, <2>1 DEF Regular
  <1>5. ASSUME d.target = All
        PROVE  /\ d.ballot # NoBallot => Covered(d) /\ AtLauncher(d)
               /\ d.ballot = NoBallot /\ d.follow =>
                    ListsUpTo(d, d.at) /\ ElectionSpent(indexed, d.at + 1)
               /\ d.ballot = NoBallot /\ ~d.follow => Complete(d)
    <2>1. Covered(d)
      BY <1>3, <1>5 DEF ListInv, Covered, ListsUpTo, Lists, InOrder
    <2>2. ~d.follow => ~ElectionSpent(d.seen, d.at + 1)
      <3>1. \A k \in DOMAIN election : election[k].at \in Nat
        BY <1>1 DEF Elements
      <3>2. ElectionSpent(c.seen, c.at + 1) => SpentChild(c.at)
        BY <1>1, <3>1 DEF SpentChild, ElectionSpent
      <3> QED
        BY <1>3, <3>2
    <2>3. d.follow => ElectionSpent(indexed, d.at + 1)
      BY <1>3 DEF SpentChild
    <2>4. CASE ElectionSpent(indexed, d.at)
      <3>1. d.ballot = election[d.at].creates /\ d.at \in DOMAIN election
        BY <1>3, <2>4 DEF LauncherOf, ElectionSpent
      <3>2. d.ballot # NoBallot => AtLauncher(d)
        BY <2>2, <2>3, <2>4, <3>1 DEF AtLauncher
      <3>3. d.ballot = NoBallot => ListsUpTo(d, d.at)
        BY <1>1, <2>1, <3>1, ListedSkip DEF Covered
      <3>4. d.ballot = NoBallot /\ ~d.follow => Complete(d)
        BY <1>1, <1>3, <2>2, <3>1, <3>3, ListedAll
      <3> QED
        BY <2>1, <2>3, <3>2, <3>3, <3>4
    <2>5. CASE ~ElectionSpent(indexed, d.at)
      <3>1. d.at = 1 /\ d.ballot = NoBallot
        BY <1>3, <2>1, <2>5 DEF Covered, LauncherOf
      <3>2. ~ElectionSpent(indexed, 2)
        <4> SUFFICES ASSUME ElectionSpent(indexed, 2) PROVE FALSE
          OBVIOUS
        <4>1. 1 \in DOMAIN election /\ 2 \in DOMAIN election /\ election[2].at <= indexed
          BY <1>1 DEF ElectionSpent, Elements
        <4>2. election[1].at < election[2].at
          BY <4>1 DEF ChainInv, ElectionLineage
        <4>3. election[1].at <= indexed
          BY <1>1, <4>1, <4>2 DEF Elements
        <4> QED
          BY <2>5, <3>1, <4>1, <4>3 DEF ElectionSpent
      <3>3. ~d.follow
        BY <1>3, <3>1, <3>2 DEF SpentChild
      <3>4. ~ElectionSpent(d.seen, 0 + 1)
        BY <1>1, <1>3, <2>5, <3>1 DEF ElectionSpent, Elements
      <3>5. ListsUpTo(d, 0)
        BY <2>1, <3>1 DEF Covered
      <3>6. Complete(d)
        BY <1>1, <1>3, <3>4, <3>5, ListedAll
      <3> QED
        BY <3>1, <3>3, <3>6
    <2> QED
      BY <2>4, <2>5
  <1>6. d.since <= height /\ d.seen <= indexed
    BY <1>3 DEF ReadInv
  <1>7. CallInv(Proceed(d))
    BY <1>3, <1>4, <1>5, <1>6, ProceedKeeps
  <1> QED
    BY <1>7 DEF d

LEMMA RecordKeeps ==
  ASSUME ChainInv, NEW c \in CallSet, ReadInv(c), ListInv(c), c.pc = "record", c.coin = 0,
         c.decider = 0
  PROVE  CallInv([c EXCEPT !.pc = IF Created(height, c.ballot) THEN "memo" ELSE "done"])
  <1> DEFINE d == [c EXCEPT !.pc = IF Created(height, c.ballot) THEN "memo" ELSE "done"]
  <1>1. d \in CallSet
    BY DEF CallSet, Pc
  <1>2. ReadInv(d)
    BY DEF ReadInv, Regular, CallSet
  <1>3. ListInv(d)
    BY DEF ListInv, CallSet
  <1> QED
    BY <1>1, <1>2, <1>3 DEF CallInv

LEMMA MemoKeeps ==
  ASSUME ChainInv, NEW c \in CallSet, ReadInv(c), ListInv(c), c.pc = "memo"
  PROVE  CallInv([c EXCEPT !.pc = "launcher", !.memo = MemoOf(height, c.ballot)])
  <1> DEFINE d == [c EXCEPT !.pc = "launcher", !.memo = MemoOf(height, c.ballot)]
  <1>1. Elements /\ c.ballot \in Ballot
    BY ChainElements DEF ReadInv
  <1>2. MemoOf(height, c.ballot) \in Params \cup {NoMemo}
    BY <1>1 DEF MemoOf, Elements
  <1>3. d \in CallSet
    BY <1>2 DEF CallSet, Pc
  <1>4. ReadInv(d)
    BY <1>1 DEF ReadInv, Regular, MemoIsRegular, CallSet
  <1>5. ListInv(d)
    BY DEF ListInv, Covered, ListsUpTo, Lists, InOrder, AtLauncher, CallSet
  <1> QED
    BY <1>3, <1>4, <1>5 DEF CallInv

LEMMA LauncherKeeps ==
  ASSUME ChainInv, NEW c \in CallSet, ReadInv(c), ListInv(c), c.pc = "launcher"
  PROVE  CallInv(IF Launched(indexed, c.ballot)
                   THEN [c EXCEPT !.pc = "walk", !.coin = 1,
                                  !.spent = BallotSpent(indexed, c.ballot, 1)]
                   ELSE Report(c, NoOutcome))
  <1>1. /\ Elements /\ c.ballot \in Ballot /\ c.seen \in Nat /\ indexed \in Nat
        /\ c.seen <= indexed /\ c.coin = 0 /\ c.decider = 0
    BY ChainElements DEF ReadInv, CallSet, ChainInv, ChainType
  <1>2. CASE Launched(indexed, c.ballot)
    <2> DEFINE d == [c EXCEPT !.pc = "walk", !.coin = 1,
                              !.spent = BallotSpent(indexed, c.ballot, 1)]
    <2>1. BallotSpent(indexed, c.ballot, 1) \in BOOLEAN
      BY DEF BallotSpent
    <2>2. d \in CallSet
      BY <2>1 DEF CallSet, Pc
    <2>3. Walked(d)
      <3>1. /\ d.ballot = c.ballot /\ d.coin = 1 /\ d.decider = 0 /\ d.seen = c.seen
            /\ d.spent = BallotSpent(indexed, c.ballot, 1)
        BY <1>1 DEF CallSet
      <3>2. 1 \in 1 .. Len(ballot[c.ballot]) + 1
        BY <1>1 DEF Elements
      <3>3. \A k \in DOMAIN ballot[c.ballot] : ~(k < 1)
        BY <1>1 DEF Elements
      <3>4. ~BallotSpent(indexed, c.ballot, 1) => ~BallotSpent(c.seen, c.ballot, 1)
        BY <1>1 DEF BallotSpent, Elements
      <3> HIDE DEF d
      <3> QED
        BY <3>1, <3>2, <3>3, <3>4 DEF Walked
    <2>4. ReadInv(d)
      BY <2>3 DEF ReadInv, Regular, MemoIsRegular, CallSet
    <2>5. ListInv(d)
      BY DEF ListInv, Covered, ListsUpTo, Lists, InOrder, AtLauncher, CallSet
    <2> QED
      BY <1>2, <2>2, <2>4, <2>5 DEF CallInv
  <1>3. CASE ~Launched(indexed, c.ballot)
    <2> DEFINE s == Snapshot(c, NoOutcome)
    <2>1. /\ s.ballot = c.ballot /\ s.coin = 0 /\ s.finalized = FALSE /\ s.memo = c.memo
      BY <1>1 DEF Snapshot
    <2>2. ~Launched(c.seen, c.ballot)
      BY <1>1, <1>3 DEF Launched, Elements
    <2>3. ~Decided(c.seen, c.ballot)
      <3> SUFFICES ASSUME NEW k \in DOMAIN ballot[c.ballot], ballot[c.ballot][k].at <= c.seen
                   PROVE  FALSE
        BY DEF Decided, BallotSpent
      <3>1. launch[c.ballot].at \in 1 .. ballot[c.ballot][k].at
        BY <1>1 DEF ChainInv, BallotLineage
      <3>2. ballot[c.ballot][k].at \in Nat
        BY <1>1 DEF Elements
      <3> QED
        BY <1>1, <2>2, <3>1, <3>2 DEF Launched
    <2>4. 0 <= Len(ballot[c.ballot]) + 1
      BY <1>1 DEF Elements
    <2>5. MemoIsRegular(c)
      BY DEF ReadInv
    <2> HIDE DEF s
    <2>6. Regular(c, s)
      BY <2>1, <2>2, <2>3, <2>4, <2>5 DEF Regular, MemoIsRegular
    <2> QED
      BY <1>3, <2>6, ReportKeeps DEF s
  <1> QED
    BY <1>2, <1>3

\* What a walk knows of its ballot when it ends, and the same if the decision's
\* outcome is still to be read.
LEMMA WalkEnds ==
  ASSUME ChainInv, NEW c \in CallSet, ReadInv(c), c.pc \in {"walk", "outcome"}, ~c.spent,
         NEW o \in Outcome \cup {NoOutcome},
         c.decider # 0 => o = ballot[c.ballot][c.decider].outcome
  PROVE  Regular(c, Snapshot(c, o))
  <1> DEFINE s == Snapshot(c, o)
  <1> DEFINE b == c.ballot
  <1>1. /\ s.ballot = b /\ s.coin = c.coin /\ s.memo = c.memo /\ s.outcome = o
        /\ s.finalized = (c.decider # 0)
    BY DEF Snapshot
  <1> HIDE DEF s
  <1>2. Elements /\ BallotLineage /\ b \in Ballot /\ c.seen \in Nat /\ Walked(c)
    BY ChainElements DEF ReadInv, CallSet, ChainInv
  <1>3. ASSUME c.decider # 0
        PROVE  /\ Decided(height, b)
               /\ \A k \in DOMAIN ballot[b] : Decides(b, k) => o = ballot[b][k].outcome
    <2>1. c.decider \in DOMAIN ballot[b] /\ Decides(b, c.decider)
      BY <1>2, <1>3 DEF Walked
    <2>2. ballot[b][c.decider].at <= height
      BY <1>2, <2>1 DEF Elements
    <2>3. \A k \in DOMAIN ballot[b] : Decides(b, k) => k = c.decider
      BY <1>2, <2>1 DEF BallotLineage
    <2> QED
      BY <1>3, <2>1, <2>2, <2>3 DEF Decided, BallotSpent
  <1>4. ASSUME c.decider = 0 PROVE ~Decided(c.seen, b)
    <2> SUFFICES ASSUME NEW k \in DOMAIN ballot[b], BallotSpent(c.seen, b, k), Decides(b, k)
                 PROVE  FALSE
      BY DEF Decided
    <2>1. c.coin \in 1 .. Len(ballot[b]) + 1 /\ ~BallotSpent(c.seen, b, c.coin) /\ ~(k < c.coin)
      BY <1>2, <1>4 DEF Walked
    <2>2. /\ Len(ballot[b]) \in Nat /\ DOMAIN ballot[b] = 1 .. Len(ballot[b])
          /\ \A j \in 1 .. Len(ballot[b]) : ballot[b][j].at \in Nat
      BY <1>2 DEF Elements
    <2>3. c.coin \in DOMAIN ballot[b]
      BY <2>1, <2>2
    <2>4. ballot[b][c.coin].at <= ballot[b][k].at
      <3>1. c.coin = k \/ c.coin < k
        BY <2>1, <2>2, <2>3
      <3>2. c.coin < k => ballot[b][c.coin].at < ballot[b][k].at
        BY <1>2, <2>3 DEF BallotLineage
      <3> QED
        BY <2>2, <2>3, <3>1, <3>2
    <2> QED
      BY <1>2, <2>1, <2>2, <2>3, <2>4 DEF BallotSpent
  <1>5. c.coin <= Len(ballot[b]) + 1 /\ c.coin > 0 /\ ~BallotSpent(c.seen, b, c.coin)
    BY <1>2 DEF Walked, Elements
  <1>6. MemoIsRegular(c)
    BY DEF ReadInv
  <1>7. Regular(c, s)
    BY <1>1, <1>3, <1>4, <1>5, <1>6 DEF Regular, MemoIsRegular
  <1> QED
    BY <1>7 DEF s

LEMMA WalkKeeps ==
  ASSUME ChainInv, NEW c \in CallSet, ReadInv(c), ListInv(c), c.pc = "walk"
  PROVE  /\ c.spent => CallInv(WalkOn(c, c.coin + 1))
         /\ ~c.spent /\ c.decider # 0 => CallInv([c EXCEPT !.pc = "outcome"])
         /\ ~c.spent /\ c.decider = 0 => CallInv(Report(c, NoOutcome))
  <1> DEFINE b == c.ballot
  <1>1. /\ Elements /\ b \in Ballot /\ c.seen \in Nat /\ indexed \in Nat
        /\ c.seen <= indexed /\ Walked(c) /\ c.coin \in Nat
    BY ChainElements DEF ReadInv, CallSet, ChainInv, ChainType
  <1>2. ASSUME c.spent PROVE CallInv(WalkOn(c, c.coin + 1))
    <2> DEFINE k == c.coin + 1
    <2> DEFINE d == WalkOn(c, k)
    <2>1. /\ c.coin \in 1 .. Len(ballot[b]) /\ BallotSpent(indexed, b, c.coin)
          /\ Len(ballot[b]) \in Nat /\ DOMAIN ballot[b] = 1 .. Len(ballot[b])
      BY <1>1, <1>2 DEF Walked, BallotSpent, Elements
    <2>2. Decider(c, k) \in Nat /\ BallotSpent(indexed, b, k) \in BOOLEAN /\ k \in Nat
      BY <2>1 DEF Decider, CallSet, BallotSpent
    <2>3. /\ d \in CallSet /\ d.coin = k /\ d.decider = Decider(c, k)
          /\ d.spent = BallotSpent(indexed, b, k)
          /\ d.ballot = b /\ d.seen = c.seen /\ d.since = c.since /\ d.listed = c.listed
          /\ d.pc = "walk" /\ d.memo = c.memo /\ d.target = c.target /\ d.at = c.at
          /\ d.follow = c.follow
      BY <2>2 DEF CallSet, WalkOn
    <2> HIDE DEF d
    <2>4. Walked(d)
      <3>1. ~BallotSpent(indexed, b, k) => ~BallotSpent(c.seen, b, k)
        <4>1. \A i \in DOMAIN ballot[b] : ballot[b][i].at \in Nat
          BY <1>1 DEF Elements
        <4> QED
          BY <1>1, <4>1 DEF BallotSpent
      <3>2. ASSUME d.decider # 0 PROVE d.decider \in DOMAIN ballot[b] /\ Decides(b, d.decider)
        <4>1. CASE c.decider # 0
          BY <1>1, <2>3, <4>1 DEF Walked, Decider
        <4>2. CASE c.decider = 0
          <5>1. Diverges(indexed, b, k) /\ d.decider = k - 1
            BY <2>3, <3>2, <4>2 DEF Decider
          <5>2. PICK i \in DOMAIN ballot[b] : i < k /\ Decides(b, i)
            BY <5>1 DEF Diverges
          <5>3. ~(i < c.coin)
            BY <1>1, <4>2, <5>2 DEF Walked
          <5>4. i = c.coin /\ k - 1 = c.coin
            BY <2>1, <5>2, <5>3
          <5> QED
            BY <5>1, <5>2, <5>4
        <4> QED
          BY <4>1, <4>2
      <3>3. ASSUME d.decider = 0, NEW i \in DOMAIN ballot[b], i < k PROVE ~Decides(b, i)
        <4>1. c.decider = 0 /\ ~Diverges(indexed, b, k)
          BY <2>1, <2>3, <3>3 DEF Decider
        <4>2. CASE i < c.coin
          BY <1>1, <4>1, <4>2 DEF Walked
        <4>3. CASE i = c.coin
          BY <2>1, <3>3, <4>1, <4>3 DEF Diverges
        <4> QED
          BY <2>1, <3>3, <4>2, <4>3
      <3>4. k \in 1 .. Len(ballot[b]) + 1
        BY <2>1
      <3> QED
        BY <2>3, <3>1, <3>2, <3>3, <3>4 DEF Walked
    <2>5. ReadInv(d)
      BY <2>3, <2>4 DEF ReadInv, Regular, MemoIsRegular
    <2>6. ListInv(d)
      BY <2>3 DEF ListInv, Covered, ListsUpTo, Lists, InOrder, AtLauncher
    <2> QED
      BY <2>3, <2>5, <2>6 DEF CallInv, d
  <1>3. ASSUME ~c.spent, c.decider # 0 PROVE CallInv([c EXCEPT !.pc = "outcome"])
    <2> DEFINE d == [c EXCEPT !.pc = "outcome"]
    <2>1. d \in CallSet
      BY DEF CallSet, Pc
    <2>2. ReadInv(d)
      BY <1>3 DEF ReadInv, Regular, MemoIsRegular, Walked, CallSet
    <2>3. ListInv(d)
      BY DEF ListInv, Covered, ListsUpTo, Lists, InOrder, AtLauncher, CallSet
    <2> QED
      BY <2>1, <2>2, <2>3 DEF CallInv
  <1>4. ASSUME ~c.spent, c.decider = 0 PROVE CallInv(Report(c, NoOutcome))
    BY <1>4, WalkEnds, ReportKeeps
  <1> QED
    BY <1>2, <1>3, <1>4

LEMMA OutcomeKeeps ==
  ASSUME ChainInv, NEW c \in CallSet, ReadInv(c), ListInv(c), c.pc = "outcome"
  PROVE  CallInv(Report(c, ballot[c.ballot][c.decider].outcome))
  <1>1. Elements /\ c.ballot \in Ballot /\ Walked(c) /\ ~c.spent /\ c.decider # 0
    BY ChainElements DEF ReadInv
  <1>2. ballot[c.ballot][c.decider].outcome \in Outcome \cup {NoOutcome}
    BY <1>1 DEF Walked, Elements
  <1> QED
    BY <1>1, <1>2, WalkEnds, ReportKeeps

------------------------------------------------------------------------------
(* The invariant is inductive                                               *)

\* A read keeps what it has while the chain and the index stand still.
LEMMA StillCallInv ==
  ASSUME UNCHANGED <<chain, indexed>>, NEW c, CallInv(c)
  PROVE  CallInv(c)'
  <1>1. UNCHANGED <<height, deployed, created, launch, election, ballot, indexed>>
    BY DEF chain
  <1>2. ReadInv(c)'
    BY <1>1 DEF CallInv, ReadInv, Regular, MemoIsRegular, Walked, MemoOf, Launched, Decided,
                BallotSpent, Decides
  <1>3. ListInv(c)'
    BY <1>1 DEF CallInv, ListInv, Covered, ListsUpTo, Lists, InOrder, AtLauncher, Complete,
                ElectionSpent, OwnBallots, Created
  <1> QED
    BY <1>2, <1>3 DEF CallInv

LEMMA StepKeeps ==
  ASSUME IInv, NEW r \in Reader, NEW d, CallInv(d), Step(r, d)
  PROVE  IInv'
  <1>1. /\ UNCHANGED <<chain, indexed>> /\ call' = [call EXCEPT ![r] = d] /\ d \in CallSet
        /\ call \in [Reader -> CallSet]
    BY DEF Step, CallInv, IInv
  <1>2. ChainInv'
    <2>1. UNCHANGED <<height, deployed, created, launch, election, ballot, indexed>>
      BY <1>1 DEF chain
    <2> QED
      BY <2>1 DEF IInv, ChainInv, ChainType, HeightsBounded, ElectionLineage, DeployedFirst,
                  BallotLineage, Decides
  <1>3. call' \in [Reader -> CallSet]
    BY <1>1
  <1>4. \A q \in Reader : call'[q] = d \/ call'[q] = call[q]
    BY <1>1
  <1>5. \A q \in Reader : CallInv(call[q])'
    <2>1. CallInv(d)'
      BY <1>1, StillCallInv
    <2>2. \A c \in CallSet : CallInv(c) => CallInv(c)'
      BY <1>1, StillCallInv
    <2>3. \A q \in Reader : call[q] \in CallSet /\ CallInv(call[q])
      BY DEF IInv
    <2> QED
      BY <1>1, <1>4, <2>1, <2>2, <2>3
  <1> QED
    BY <1>2, <1>3, <1>5 DEF IInv

LEMMA GrowthKeeps ==
  ASSUME IInv, ChainInv', Grows, UNCHANGED call
  PROVE  IInv'
  <1>1. \A c \in CallSet : CallInv(c) => CallInv(c)'
    BY ReadInvIsStable, ListInvIsStable DEF CallInv, IInv
  <1>2. \A r \in Reader : call[r] \in CallSet /\ CallInv(call[r])
    BY DEF IInv
  <1>3. \A r \in Reader : CallInv(call[r])'
    BY <1>1, <1>2
  <1> QED
    BY <1>3 DEF IInv

LEMMA InitInv == Init => IInv
  <1> SUFFICES ASSUME Init PROVE IInv
    OBVIOUS
  <1>1. ChainInv
    BY DEF Init, ChainInv, ChainType, HeightsBounded, ElectionLineage, DeployedFirst, BallotLineage
  <1>2. call \in [Reader -> CallSet]
    BY NoCallType DEF Init
  <1>3. CallInv(NoCall)
    <2>1. /\ NoCall.pc = "idle" /\ NoCall.listed = <<>> /\ NoCall.since = 0 /\ NoCall.seen = 0
      BY DEF NoCall
    <2> QED
      BY <2>1, NoCallType DEF CallInv, ReadInv, ListInv, Init
  <1> QED
    BY <1>1, <1>2, <1>3 DEF IInv, Init

LEMMA ReadStepInv == ASSUME IInv, NEW r \in Reader, ReadStep(r) PROVE IInv'
  <1> DEFINE c == call[r]
  <1>1. c \in CallSet /\ ReadInv(c) /\ ListInv(c) /\ ChainInv
    BY DEF IInv, CallInv
  <1>2. CASE QueryEve(r)
    BY <1>1, <1>2, EveKeeps, StepKeeps DEF QueryEve
  <1>3. CASE QueryChildren(r)
    BY <1>1, <1>3, ChildrenKeeps, StepKeeps DEF QueryChildren, ReadInv
  <1>4. CASE QueryRecord(r)
    BY <1>1, <1>4, RecordKeeps, StepKeeps DEF QueryRecord, ReadInv
  <1>5. CASE QueryMemo(r)
    BY <1>1, <1>5, MemoKeeps, StepKeeps DEF QueryMemo
  <1>6. CASE QueryLauncher(r)
    BY <1>1, <1>6, LauncherKeeps, StepKeeps DEF QueryLauncher
  <1>7. CASE QueryWalk(r)
    <2>1. c.pc = "walk" /\ c.spent \in BOOLEAN
      BY <1>1, <1>7 DEF QueryWalk, CallSet
    <2>2. CASE c.spent
      BY <1>1, <1>7, <2>1, <2>2, WalkKeeps, StepKeeps DEF QueryWalk
    <2>3. CASE ~c.spent /\ c.decider # 0
      BY <1>1, <1>7, <2>1, <2>3, WalkKeeps, StepKeeps DEF QueryWalk
    <2>4. CASE ~c.spent /\ c.decider = 0
      BY <1>1, <1>7, <2>1, <2>4, WalkKeeps, StepKeeps DEF QueryWalk
    <2> QED
      BY <2>1, <2>2, <2>3, <2>4
  <1>8. CASE QueryOutcome(r)
    BY <1>1, <1>8, OutcomeKeeps, StepKeeps DEF QueryOutcome
  <1> QED
    BY <1>2, <1>3, <1>4, <1>5, <1>6, <1>7, <1>8 DEF ReadStep

LEMMA NextInv == IInv /\ [Next]_vars => IInv'
  <1> SUFFICES ASSUME IInv, [Next]_vars PROVE IInv'
    OBVIOUS
  <1>1. ChainInv
    BY DEF IInv
  <1>2. CASE Deploy
    <2>1. UNCHANGED call
      BY <1>2 DEF Deploy, Advance
    <2> QED
      BY <1>1, <1>2, <2>1, DeployGrows, GrowthKeeps
  <1>3. CASE SpendElection
    <2>1. UNCHANGED call
      BY <1>3 DEF SpendElection, Advance
    <2> QED
      BY <1>1, <1>3, <2>1, SpendElectionGrows, GrowthKeeps
  <1>4. CASE CatchUp
    <2>1. UNCHANGED call
      BY <1>4 DEF CatchUp
    <2> QED
      BY <1>1, <1>4, <2>1, CatchUpGrows, GrowthKeeps
  <1>5. ASSUME NEW b \in Ballot, Create(b) PROVE IInv'
    <2>1. UNCHANGED call
      BY <1>5 DEF Create, Advance
    <2> QED
      BY <1>1, <1>5, <2>1, CreateGrows, GrowthKeeps
  <1>6. ASSUME NEW b \in Ballot, NEW memo \in Params \cup {NoMemo}, Launch(b, memo) PROVE IInv'
    <2>1. UNCHANGED call
      BY <1>6 DEF Launch, Advance
    <2> QED
      BY <1>1, <1>6, <2>1, LaunchGrows, GrowthKeeps
  <1>7. ASSUME NEW b \in Ballot, NEW o \in Outcome \cup {NoOutcome}, SpendBallot(b, o),
               o # NoOutcome => ~Decided(height, b)
        PROVE  IInv'
    <2>1. UNCHANGED call
      BY <1>7 DEF SpendBallot, Advance
    <2> QED
      BY <1>1, <1>7, <2>1, SpendBallotGrows, GrowthKeeps
  <1>8. ASSUME NEW r \in Reader, NEW target \in Ballot \cup {All}, Start(r, target) PROVE IInv'
    BY <1>1, <1>8, StartKeeps, StepKeeps DEF Start
  <1>9. ASSUME NEW r \in Reader, Abort(r) PROVE IInv'
    BY <1>1, <1>9, AbortKeeps, StepKeeps DEF Abort
  <1>10. CASE UNCHANGED vars
    <2>1. UNCHANGED <<height, deployed, created, launch, election, ballot, indexed, call>>
      BY <1>10 DEF vars, chain
    <2>2. ChainInv'
      BY <1>1, <2>1 DEF ChainInv, ChainType, HeightsBounded, ElectionLineage, DeployedFirst,
                        BallotLineage, Decides
    <2>3. Grows
      BY <1>1, <2>1, SameIsLonger DEF Grows, ChainInv, ChainType
    <2> QED
      BY <2>1, <2>2, <2>3, GrowthKeeps
  <1> QED
    BY <1>2, <1>3, <1>4, <1>5, <1>6, <1>7, <1>8, <1>9, <1>10, ReadStepInv
    DEF Next, Answer, Finalize

THEOREM Invariant == Spec => []IInv
  BY InitInv, NextInv, PTL DEF Spec

\* A listing that ends is complete: it has the election's ballots and no
\* other's, each once and in order, and all that the index showed when it began.
THEOREM ListingsComplete == Spec => []ListingsAreComplete
  <1>1. IInv => ListingsAreComplete
    BY DEF IInv, CallInv, ListInv, ListingsAreComplete
  <1> QED
    BY <1>1, Invariant, PTL

\* What a snapshot says of a ballot was so at some time of the read.
THEOREM SnapshotsRegular == Spec => []SnapshotsAreRegular
  <1>1. IInv => SnapshotsAreRegular
    BY DEF IInv, CallInv, ReadInv, SnapshotsAreRegular
  <1> QED
    BY <1>1, Invariant, PTL
==============================================================================
