------------------------- MODULE SingletonReaderProofs -------------------------
(***************************************************************************)
(* Theorems about SingletonReader, for any number of readers, voters,      *)
(* amounts and coins: what a read returns is a state the singleton had, at *)
(* least as recent as the read itself, and reads only fail under lag.      *)
(***************************************************************************)
EXTENDS SingletonReader, WellFoundedInduction, TLAPS

------------------------------------------------------------------------------
(* Decoding one spend *)

LEMMA ActFields ==
  ASSUME NEW a \in Act
  PROVE  \/ /\ a.op = "register" /\ a.voter \in Voter /\ a.voter # NoVoter
            /\ a.locked \in Nat /\ a.locked >= CollateralAmount /\ a.locked # 0
         \/ /\ a.op = "deregister" /\ a.voter \in Voter /\ a.voter # NoVoter
            /\ a.locked = 0
         \/ a.op = "create_ballot" /\ a.voter = NoVoter
  <1>1. \A n \in Locks : n \in Nat /\ n >= CollateralAmount /\ n # 0
    BY ReaderAssumption DEF Locks
  <1>2. CASE a \in [op : {"register"}, voter : Voter, locked : Locks]
    BY <1>1, <1>2, ReaderAssumption
  <1>3. CASE a \in [op : {"deregister"}, voter : Voter, locked : {0}]
    BY <1>3, ReaderAssumption
  <1>4. CASE a \in [op : {"create_ballot"}, voter : {NoVoter}, locked : {0}]
    BY <1>4
  <1> QED
    BY <1>2, <1>3, <1>4 DEF Act

\* From the announcement and the solution of a spend that ran one action, the
\* reader recovers the state the spend left.
LEMMA DecodeIsAfter ==
  ASSUME NEW s \in State, NEW a \in Act, Legal(s, a)
  PROVE  Decode(s, Spend(s, a, NoAct)) = Spend(s, a, NoAct).next
  <1> DEFINE sp == Spend(s, a, NoAct)
  <1>1. /\ sp.acts = <<a>> /\ sp.msgs = {Message(s, a)}
        /\ sp.next = After(s, a)
    BY DEF Spend
  <1>2. 1 \in {1} /\ Len(sp.acts) = 1 /\ sp.acts[1] = a
    BY <1>1
  <1> HIDE DEF sp
  <1>3. Keys(sp) = IF a.voter # NoVoter THEN {1} ELSE {}
    BY <1>2 DEF Keys
  <1>4. First({1}) = 1
    BY DEF First
  <1>5. CASE a.op = "register"
    <2>1. /\ a.voter \in Voter /\ a.voter # NoVoter /\ a.locked \in Nat
          /\ a.locked >= CollateralAmount /\ s.leaf[a.voter] = 0
      BY <1>5, ActFields DEF Legal
    <2>2. sp.msgs = {<<"registered", After(s, a).leaf, s.count + 1, a.voter,
                       a.locked>>}
      BY <1>1, <1>5 DEF Message
    <2>3. After(s, a) = Insert(s, a.voter, a.locked)
      BY <1>5 DEF After
    <2>4. After(s, a).leaf = [s.leaf EXCEPT ![a.voter] = a.locked]
      BY <2>3 DEF Insert
    <2>5. Deregisters(sp) = {}
      BY <2>2 DEF Deregisters
    <2>6. Explains(s, sp) = {<<1, a.locked>>}
      <3>1. Keys(sp) \X {sp.acts[i].locked : i \in Keys(sp)} = {<<1, a.locked>>}
        BY <1>2, <1>3, <2>1
      <3>2. /\ <<1, a.locked>>[1] = 1 /\ <<1, a.locked>>[2] = a.locked
        OBVIOUS
      <3>3. Insertable(s, a.voter, a.locked)
        BY <2>1 DEF Insertable
      <3>4. <<"registered", [s.leaf EXCEPT ![a.voter] = a.locked], s.count + 1,
              a.voter, a.locked>> \in sp.msgs
        BY <2>2, <2>4
      <3> QED
        BY <3>1, <3>2, <3>3, <3>4, <1>2, <2>1 DEF Explains
    <2>8. Explanation(s, sp) = <<1, a.locked>>
      BY <2>6 DEF Explanation
    <2>9. Decode(s, sp) = Insert(s, sp.acts[1].voter, a.locked)
      BY <2>5, <2>6, <2>8 DEF Decode
    <2> QED
      BY <2>9, <2>3, <1>1, <1>2 DEF sp
  <1>6. CASE a.op = "deregister"
    <2>1. a.voter \in Voter /\ a.voter # NoVoter /\ s.leaf[a.voter] # 0
      BY <1>6, ActFields DEF Legal
    <2>2. sp.msgs = {<<"deregistered", a.voter>>}
      BY <1>1, <1>6 DEF Message
    <2>3. Deregisters(sp) = {1}
      BY <1>2, <1>3, <2>1, <2>2 DEF Deregisters
    <2>4. Decode(s, sp) = Unregister(s, a.voter)
      BY <2>3, <1>2, <1>4 DEF Decode
    <2> QED
      BY <2>1, <2>4, <1>1, <1>6 DEF Unregister, After, sp
  <1>7. CASE a.op = "create_ballot"
    <2>1. Keys(sp) = {}
      BY <1>3, <1>7, ActFields
    <2>2. Deregisters(sp) = {} /\ Explains(s, sp) = {}
      BY <2>1 DEF Deregisters, Explains
    <2>3. Decode(s, sp) = s
      BY <2>1, <2>2 DEF Decode
    <2> QED
      BY <2>3, <1>1, <1>7 DEF After, sp
  <1> QED
    BY <1>5, <1>6, <1>7, ActFields

LEMMA AfterState ==
  ASSUME NEW s \in State, NEW a \in Act
  PROVE  After(s, a) \in State
  <1>1. CASE a.op = "register"
    BY <1>1, ActFields DEF After, Insert, State
  <1>2. CASE a.op = "deregister"
    BY <1>2, ActFields DEF After, Remove, State
  <1>3. CASE a.op = "create_ballot"
    BY <1>3 DEF After
  <1> QED
    BY <1>1, <1>2, <1>3, ActFields

------------------------------------------------------------------------------
(* The chain *)

MessageT == ({"registered"} \X [Voter -> Nat] \X Int \X Voter \X Nat)
              \cup ({"deregistered"} \X Voter)
              \cup {<<"ballot_created">>}
SpendT == [acts : Seq(Act), msgs : SUBSET MessageT, next : State]
CoinT == [state : State, spend : SpendT]

\* The coins are typed and, if spends run one action each, every coin is the
\* one its parent's spend decodes to.
ChainOK ==
  /\ lineage \in Seq(CoinT)
  /\ indexed \in 0..Len(lineage)
  /\ lineage # <<>> => lineage[1].state = Genesis
  /\ ~Combine => \A k \in 1..(Len(lineage) - 1) :
       Decode(lineage[k].state, lineage[k].spend) = lineage[k + 1].state

\* Coins are added, and the states of those that exist stay.
Grows ==
  /\ Len(lineage) <= Len(lineage')
  /\ \A k \in 1..Len(lineage) : lineage'[k].state = lineage[k].state
  /\ indexed <= indexed'

LEMMA GenesisState == Genesis \in State
  BY DEF Genesis, State

LEMMA SpendTyped ==
  ASSUME NEW s \in State, NEW a \in Act, NEW b \in Act \cup {NoAct},
         Legal(s, a), b # NoAct => Legal(After(s, a), b)
  PROVE  Spend(s, a, b) \in SpendT
  <1>1. ASSUME NEW z \in State, NEW c \in Act, Legal(z, c)
        PROVE  Message(z, c) \in MessageT /\ After(z, c) \in State
    <2>1. After(z, c) \in State
      BY AfterState
    <2>2. CASE c.op = "register"
      <3>1. c.voter \in Voter /\ c.locked \in Nat
        BY <2>2, ActFields
      <3>2. After(z, c).leaf \in [Voter -> Nat] /\ z.count + 1 \in Int
        BY <2>1 DEF State
      <3> QED
        BY <2>1, <2>2, <3>1, <3>2 DEF Message, MessageT
    <2>3. CASE c.op = "deregister"
      BY <2>1, <2>3, ActFields DEF Message, MessageT
    <2>4. CASE c.op = "create_ballot"
      BY <2>1, <2>4 DEF Message, MessageT
    <2> QED
      BY <2>2, <2>3, <2>4, ActFields
  <1>2. CASE b = NoAct
    BY <1>1, <1>2 DEF Spend, SpendT
  <1>3. CASE b # NoAct
    <2>1. b \in Act /\ After(s, a) \in State /\ Message(s, a) \in MessageT
      BY <1>1, <1>3
    <2>2. /\ Message(After(s, a), b) \in MessageT
          /\ After(After(s, a), b) \in State
      BY <1>1, <1>3, <2>1
    <2>3. <<a, b>> \in Seq(Act)
      BY <2>1
    <2> QED
      BY <1>3, <2>1, <2>2, <2>3 DEF Spend, SpendT
  <1> QED
    BY <1>2, <1>3

\* A spend of the tip extends the chain by the coin its spend decodes to.
LEMMA TipSpent ==
  ASSUME ChainOK, NEW a \in Act, NEW b \in Act \cup {NoAct}, SpendTip(a, b),
         UNCHANGED indexed
  PROVE  ChainOK' /\ Grows
  <1> DEFINE n == Len(lineage)
             s == lineage[n].state
             sp == Spend(s, a, b)
             spent == [lineage[n] EXCEPT !.spend = sp]
  <1>1. /\ n \in Nat /\ n >= 1 /\ n \in 1..n
        /\ \A k \in 1..n : lineage[k] \in CoinT
        /\ s \in State
    <2>1. n \in 1..(MaxCoins - 1) /\ lineage \in Seq(CoinT)
      BY DEF SpendTip, ChainOK
    <2>2. n \in Nat /\ n >= 1 /\ n \in 1..n
      BY <2>1, ReaderAssumption
    <2>3. \A k \in 1..n : lineage[k] \in CoinT
      BY <2>1
    <2>4. s \in State
      BY <2>2, <2>3 DEF CoinT
    <2> QED
      BY <2>2, <2>3, <2>4
  <1>2. /\ Legal(s, a)
        /\ b # NoAct => Combine /\ Legal(After(s, a), b)
        /\ lineage' = Append([lineage EXCEPT ![n].spend = sp], Coin(sp.next))
    BY DEF SpendTip
  <1>3. sp \in SpendT /\ sp.next \in State
    <2>1. sp \in SpendT
      BY <1>1, <1>2, SpendTyped
    <2> QED
      BY <2>1 DEF SpendT
  <1>4. ~Combine => Decode(s, sp) = sp.next
    BY <1>1, <1>2, DecodeIsAfter
  <1> HIDE DEF sp
  <1>5. spent \in CoinT /\ spent.state = s /\ spent.spend = sp
    BY <1>1, <1>3 DEF CoinT
  <1>6. Coin(sp.next) \in CoinT /\ Coin(sp.next).state = sp.next
    <2>1. NoSpend \in SpendT
      BY GenesisState DEF NoSpend, SpendT
    <2> QED
      BY <2>1, <1>3 DEF Coin, CoinT
  <1>7. lineage' = Append([lineage EXCEPT ![n] = spent], Coin(sp.next))
    BY <1>2, <1>1 DEF ChainOK
  <1> HIDE DEF spent
  <1>8. /\ lineage' \in Seq(CoinT) /\ Len(lineage') = n + 1
        /\ lineage'[n + 1] = Coin(sp.next) /\ lineage'[n] = spent
        /\ \A k \in 1..n : k # n => lineage'[k] = lineage[k]
    <2> DEFINE f == [lineage EXCEPT ![n] = spent]
               last == Coin(sp.next)
    <2>1. f \in Seq(CoinT)
      BY <1>1, <1>5 DEF ChainOK
    <2>2. Len(f) = n
      BY <1>1 DEF ChainOK
    <2>3. \A k \in 1..n : f[k] = IF k = n THEN spent ELSE lineage[k]
      BY <1>1 DEF ChainOK
    <2>4. lineage' = Append(f, last) /\ last \in CoinT
      BY <1>6, <1>7
    <2> HIDE DEF f, last, n
    <2>5. /\ Append(f, last) \in Seq(CoinT)
          /\ Len(Append(f, last)) = n + 1
          /\ Append(f, last)[n + 1] = last
          /\ \A k \in 1..n : Append(f, last)[k] = f[k]
      BY <2>1, <2>2, <2>4
    <2> QED
      BY <2>3, <2>4, <2>5, <1>1 DEF last
  <1>9. \A k \in 1..n : lineage'[k].state = lineage[k].state
    BY <1>5, <1>8, <1>1
  <1>10. Grows
    BY <1>8, <1>9, <1>1 DEF Grows, ChainOK
  <1>11. ASSUME ~Combine, NEW k \in 1..n
         PROVE  Decode(lineage'[k].state, lineage'[k].spend)
                  = lineage'[k + 1].state
    <2>1. CASE k = n
      BY <2>1, <1>4, <1>5, <1>6, <1>8, <1>11
    <2>2. CASE k # n
      <3>1. k \in 1..(n - 1) /\ k + 1 \in 1..n
        BY <2>2, <1>1
      <3>2. Decode(lineage[k].state, lineage[k].spend) = lineage[k + 1].state
        BY <3>1, <1>11 DEF ChainOK
      <3> QED
        BY <2>2, <3>1, <3>2, <1>8, <1>9
    <2> QED
      BY <2>1, <2>2
  <1>12. lineage' # <<>> /\ lineage'[1].state = Genesis
    BY <1>1, <1>8, <1>9 DEF ChainOK
  <1> QED
    BY <1>1, <1>8, <1>10, <1>11, <1>12 DEF ChainOK

\* A set of numbers has a least element.
LEMMA LeastElement ==
  ASSUME NEW I \in SUBSET Nat, I # {}
  PROVE  \E i \in I : \A j \in I : i <= j
  <1> DEFINE R == {p \in Nat \X Nat : p[1] < p[2]}
  <1>1. IsWellFoundedOn(R, Nat)
    <2>1. OpToRel(<, Nat) = R
      BY DEF OpToRel
    <2> QED
      BY <2>1, NatLessThanWellFounded
  <1>2. PICK i \in I : \A j \in I : ~(<<j, i>> \in R)
    BY <1>1, WFMin
  <1>3. \A j \in I : i <= j
    <2>1. i \in Nat /\ \A j \in I : j \in Nat
      OBVIOUS
    <2>2. \A j \in I : ~(j < i)
      BY <1>2, <2>1
    <2> QED
      BY <2>1, <2>2
  <1> QED
    BY <1>3

\* Whatever a spend holds, decoding it yields a state.
LEMMA DecodeTyped ==
  ASSUME NEW s \in State, NEW sp \in SpendT
  PROVE  Decode(s, sp) \in State
  <1>acts. sp.acts \in Seq(Act) /\ Keys(sp) \subseteq Nat
    BY DEF SpendT, Keys
  <1>k. ASSUME NEW i \in Keys(sp)
        PROVE  sp.acts[i].voter \in Voter /\ sp.acts[i].locked \in Nat
    <2>1. sp.acts[i] \in Act /\ sp.acts[i].voter # NoVoter
      BY <1>acts DEF Keys
    <2> QED
      BY <2>1, ActFields
  <1>first. ASSUME NEW I \in SUBSET Keys(sp), I # {}
            PROVE  First(I) \in I
    <2>1. \E i \in I : \A j \in I : i <= j
      BY <1>acts, <1>first, LeastElement
    <2> QED
      BY <2>1 DEF First
  <1>in. ASSUME NEW v \in Voter, NEW n \in Nat
         PROVE  Insert(s, v, n) \in State /\ Remove(s, v) \in State
    BY DEF Insert, Remove, State
  <1>1. CASE Deregisters(sp) # {}
    <2>1. Deregisters(sp) \in SUBSET Keys(sp)
      BY DEF Deregisters
    <2>2. First(Deregisters(sp)) \in Keys(sp)
      BY <1>1, <2>1, <1>first
    <2>3. Unregister(s, sp.acts[First(Deregisters(sp))].voter) \in State
      BY <2>2, <1>k, <1>in DEF Unregister
    <2> QED
      BY <1>1, <2>3 DEF Decode
  <1>2. CASE Deregisters(sp) = {} /\ Explains(s, sp) # {}
    <2> DEFINE I == {q[1] : q \in Explains(s, sp)}
    <2>0. Explains(s, sp) \subseteq Keys(sp) \X {sp.acts[i].locked : i \in Keys(sp)}
      BY DEF Explains
    <2>1. I \in SUBSET Nat /\ I # {}
      BY <1>2, <2>0, <1>acts
    <2>2. PICK i \in I : \A j \in I : i <= j
      BY <2>1, LeastElement
    <2>3. \E p \in Explains(s, sp) : \A q \in Explains(s, sp) : p[1] <= q[1]
      BY <2>2
    <2>4. Explanation(s, sp) \in Explains(s, sp)
      BY <2>3 DEF Explanation
    <2>5. /\ Explanation(s, sp)[1] \in Keys(sp)
          /\ Explanation(s, sp)[2] \in Nat
      BY <2>0, <2>4, <1>k
    <2>6. Insert(s, sp.acts[Explanation(s, sp)[1]].voter,
                 Explanation(s, sp)[2]) \in State
      BY <2>5, <1>k, <1>in
    <2> QED
      BY <1>2, <2>6 DEF Decode
  <1>3. CASE Deregisters(sp) = {} /\ Explains(s, sp) = {} /\ Keys(sp) # {}
    <2>1. First(Keys(sp)) \in Keys(sp)
      BY <1>3, <1>first
    <2>2. CollateralAmount \in Nat
      BY ReaderAssumption
    <2>3. Fallback(s, sp.acts[First(Keys(sp))].voter) \in State
      BY <2>1, <2>2, <1>k, <1>in DEF Fallback
    <2> QED
      BY <1>3, <2>3 DEF Decode
  <1>4. CASE Deregisters(sp) = {} /\ Explains(s, sp) = {} /\ Keys(sp) = {}
    BY <1>4 DEF Decode
  <1> QED
    BY <1>1, <1>2, <1>3, <1>4

------------------------------------------------------------------------------
(* Reads *)

\* The walk is at a coin of the lineage whose state it has decoded, or, once it
\* has applied that coin's spend, the state of the next one.
DecodedAt(c, k) == ~Combine => c.decoded = lineage[k].state

CallOK(c) ==
  /\ c \in Call
  /\ c.since <= Len(lineage) /\ c.seen <= indexed
  /\ c.pc \in {"loop", "found"} =>
       c.at \in 1..Len(lineage) /\ DecodedAt(c, c.at)
  /\ c.pc = "loop" =>
       IF c.unspent THEN c.at >= c.seen ELSE c.at < Len(lineage)
  /\ c.pc = "found" => c.at >= IF c.op = "find" THEN c.since ELSE c.seen
  /\ c.pc \in {"apply", "child"} => c.at \in 1..(Len(lineage) - 1)
  /\ c.pc = "apply" => DecodedAt(c, c.at)
  /\ c.pc = "child" => DecodedAt(c, c.at + 1)

ReaderInv ==
  /\ ChainOK
  /\ call \in [Reader -> Call]
  /\ \A r \in Reader : CallOK(call[r])

\* The chain moves under a read.
LEMMA CallKeeps ==
  ASSUME ChainOK, ChainOK', Grows, NEW c, CallOK(c)
  PROVE  CallOK(c)'
  <1>1. /\ Len(lineage) \in Nat /\ Len(lineage') \in Nat
        /\ indexed \in Nat /\ indexed' \in Nat
        /\ Len(lineage) <= Len(lineage') /\ indexed <= indexed'
        /\ \A k \in 1..Len(lineage) : lineage'[k].state = lineage[k].state
    BY DEF ChainOK, Grows
  <1>2. c \in Call /\ c.at \in Nat /\ c.since \in Nat /\ c.seen \in Nat
    BY DEF CallOK, Call
  <1>3. c.since <= Len(lineage') /\ c.seen <= indexed'
    BY <1>1, <1>2 DEF CallOK
  <1>4. c.pc \in {"loop", "found"} =>
          c.at \in 1..Len(lineage') /\ DecodedAt(c, c.at)'
    BY <1>1, <1>2 DEF CallOK, DecodedAt
  <1>5. c.pc = "loop" /\ ~c.unspent => c.at < Len(lineage')
    BY <1>1, <1>2 DEF CallOK
  <1>6. c.pc \in {"apply", "child"} => c.at \in 1..(Len(lineage') - 1)
    BY <1>1, <1>2 DEF CallOK
  <1>7. c.pc = "apply" => DecodedAt(c, c.at)'
    BY <1>1, <1>2 DEF CallOK, DecodedAt
  <1>8. c.pc = "child" => DecodedAt(c, c.at + 1)'
    <2>1. c.pc = "child" => c.at + 1 \in 1..Len(lineage)
      BY <1>1, <1>2 DEF CallOK
    <2> QED
      BY <1>1, <2>1 DEF CallOK, DecodedAt
  <1> QED
    BY <1>2, <1>3, <1>4, <1>5, <1>6, <1>7, <1>8 DEF CallOK

LEMMA IdleOK == ASSUME ChainOK PROVE CallOK(NoCall) /\ NoCall.attempts = 0
  BY GenesisState DEF CallOK, Call, NoCall, ChainOK, Pc, Busy

\* An error leaves a call from which nothing is claimed.
LEMMA FailOK ==
  ASSUME ReaderInv, NEW r \in Reader, Fail(r)
  PROVE  \E c : /\ CallOK(c) /\ call' = [call EXCEPT ![r] = c]
                /\ UNCHANGED <<lineage, indexed>>
  <1> DEFINE c == call[r]
             d == [c EXCEPT !.pc = "eve", !.attempts = Elapsed(c)]
             e == [c EXCEPT !.pc = "failed", !.attempts = Elapsed(c)]
  <1>1. c \in Call /\ CallOK(c) /\ c.attempts + 1 \in Nat
    BY DEF ReaderInv, Call
  <1>2. d \in Call /\ e \in Call
    BY <1>1 DEF Call, Elapsed, Pc, Busy
  <1>3. /\ d.pc = "eve" /\ d.since = c.since /\ d.seen = c.seen
        /\ e.pc = "failed" /\ e.since = c.since /\ e.seen = c.seen
    BY <1>1 DEF Call
  <1>4. \/ call' = [call EXCEPT ![r] = d] /\ UNCHANGED <<lineage, indexed>>
        \/ call' = [call EXCEPT ![r] = e] /\ UNCHANGED <<lineage, indexed>>
    BY DEF Fail, Step
  <1> HIDE DEF d, e
  <1>5. CallOK(d) /\ CallOK(e)
    BY <1>1, <1>2, <1>3 DEF CallOK
  <1> QED
    BY <1>4, <1>5

\* Every query leaves a call in order.
LEMMA ReadsOK ==
  ASSUME ReaderInv, NEW r \in Reader,
         ReadStep(r) \/ \E op \in {"sync", "find"} : Start(r, op)
  PROVE  \E c : /\ CallOK(c) /\ call' = [call EXCEPT ![r] = c]
                /\ UNCHANGED <<lineage, indexed>>
  <1> DEFINE c == call[r]
             Goal == \E d : /\ CallOK(d) /\ call' = [call EXCEPT ![r] = d]
                            /\ UNCHANGED <<lineage, indexed>>
  <1>c. /\ c \in Call /\ CallOK(c)
        /\ c.at \in Nat /\ c.since \in Nat /\ c.seen \in Nat
        /\ c.unspent \in BOOLEAN /\ c.op \in {"sync", "find"}
        /\ c.decoded \in State
    BY DEF ReaderInv, Call
  <1>pc. /\ "eve" \in Pc /\ "eve_check" \in Pc /\ "launcher" \in Pc
         /\ "loop" \in Pc /\ "apply" \in Pc /\ "child" \in Pc
         /\ "found" \in Pc
    BY DEF Pc, Busy
  <1>nat. Len(lineage) \in Nat /\ indexed \in Nat
    BY DEF ReaderInv, ChainOK
  <1>t. /\ Len(lineage) \in Nat /\ indexed \in 0..Len(lineage)
        /\ lineage # <<>> => lineage[1].state = Genesis
        /\ lineage # <<>> <=> Len(lineage) >= 1
    BY DEF ReaderInv, ChainOK
  <1>ok. c.since <= Len(lineage) /\ c.seen <= indexed
    BY <1>c DEF CallOK
  <1>found. ASSUME NEW k \in 1..Len(lineage), NEW s \in State,
                   ~Combine => s = lineage[k].state,
                   k >= IF c.op = "find" THEN c.since ELSE c.seen,
                   Step(r, Found(c, k, s))
            PROVE  Goal
    <2> DEFINE d == Found(c, k, s)
    <2>0. k \in Nat
      OBVIOUS
    <2>1. d \in Call
      BY <2>0, <1>c, <1>pc DEF Found, Call
    <2>2. /\ d.pc = "found" /\ d.at = k /\ d.decoded = s /\ d.op = c.op
          /\ d.since = c.since /\ d.seen = c.seen
      BY <1>c DEF Found, Call
    <2>3. call' = [call EXCEPT ![r] = d] /\ UNCHANGED <<lineage, indexed>>
      BY <1>found DEF Step
    <2> HIDE DEF d
    <2>4. CallOK(d)
      BY <2>1, <2>2, <1>ok, <1>found DEF CallOK, DecodedAt
    <2> QED
      BY <2>3, <2>4
  <1>moved. ASSUME NEW pc \in {"eve_check", "launcher"},
                   Step(r, [c EXCEPT !.pc = pc])
            PROVE  Goal
    <2> DEFINE d == [c EXCEPT !.pc = pc]
    <2>1. d \in Call
      BY <1>c, <1>pc DEF Call
    <2>2. d.pc = pc /\ d.since = c.since /\ d.seen = c.seen
      BY <1>c DEF Call
    <2>3. call' = [call EXCEPT ![r] = d] /\ UNCHANGED <<lineage, indexed>>
      BY <1>moved DEF Step
    <2> HIDE DEF d
    <2>4. CallOK(d)
      BY <2>1, <2>2, <1>ok DEF CallOK
    <2> QED
      BY <2>3, <2>4
  <1>1. ASSUME NEW op \in {"sync", "find"}, Start(r, op) PROVE Goal
    <2> DEFINE d == [NoCall EXCEPT !.op = op, !.pc = "eve",
                                   !.since = Len(lineage), !.seen = indexed]
    <2>0. NoCall \in Call
      BY IdleOK DEF ReaderInv, CallOK
    <2>1. d \in Call
      BY <2>0, <1>nat, <1>pc DEF Call
    <2>2. d.pc = "eve" /\ d.since = Len(lineage) /\ d.seen = indexed
      BY <2>0 DEF Call
    <2>3. call' = [call EXCEPT ![r] = d] /\ UNCHANGED <<lineage, indexed>>
      BY <1>1 DEF Start, Step
    <2> HIDE DEF d
    <2>4. CallOK(d)
      BY <2>1, <2>2, <1>t DEF CallOK
    <2> QED
      BY <2>3, <2>4
  <1>2. CASE QueryEve(r)
    <2>1. ASSUME c.op = "sync", EveHits # {}, Step(r, Found(c, indexed, Genesis))
          PROVE  Goal
      <3>1. indexed \in 1..Len(lineage) /\ lineage[indexed].state = Genesis
        BY <2>1, <1>t DEF EveHits
      <3> QED
        BY <2>1, <3>1, <1>found, <1>ok, GenesisState
    <2> QED
      BY <1>2, <2>1, <1>moved DEF QueryEve
  <1>3. CASE CheckEve(r)
    <2>1. CASE Len(lineage) = 1
      <3>1. Step(r, Found(c, 1, Genesis))
        BY <1>3, <2>1 DEF CheckEve
      <3>2. 1 >= c.since /\ 1 >= c.seen
        BY <2>1, <1>ok, <1>t, <1>c
      <3> QED
        BY <2>1, <3>1, <3>2, <1>t, <1>found, GenesisState
    <2>2. CASE Len(lineage) # 1
      BY <1>3, <2>2, <1>moved DEF CheckEve
    <2> QED
      BY <2>1, <2>2
  <1>4. CASE QueryLauncher(r)
    <2>1. CASE EveVisible
      <3>0. PICK u \in BOOLEAN : u = (indexed = 1)
        OBVIOUS
      <3>u. u <=> indexed = 1
        BY <3>0, Zenon
      <3> DEFINE d == [c EXCEPT !.pc = "loop", !.at = 1, !.unspent = u,
                                !.decoded = Genesis]
      <3>1. d \in Call
        BY <1>c, <1>pc, GenesisState DEF Call
      <3>2. /\ d.pc = "loop" /\ d.at = 1 /\ d.unspent = u
            /\ d.decoded = Genesis /\ d.since = c.since /\ d.seen = c.seen
        BY <1>c DEF Call
      <3>3. call' = [call EXCEPT ![r] = d] /\ UNCHANGED <<lineage, indexed>>
        BY <1>4, <2>1, <3>0 DEF QueryLauncher, Step
      <3>4. indexed >= 1 /\ Len(lineage) >= 1 /\ lineage[1].state = Genesis
        BY <2>1, <1>t DEF EveVisible
      <3> HIDE DEF d
      <3>6. IF u THEN 1 >= c.seen ELSE 1 < Len(lineage)
        <4>1. CASE indexed = 1
          BY <4>1, <3>u, <1>ok, <1>c
        <4>2. CASE indexed # 1
          BY <4>2, <3>u, <3>4, <1>t, <1>nat
        <4> QED
          BY <4>1, <4>2
      <3>5. CallOK(d)
        BY <3>1, <3>2, <3>4, <3>6, <1>ok, <1>nat DEF CallOK, DecodedAt
      <3> QED
        BY <3>3, <3>5
    <2>2. CASE ~EveVisible
      BY <1>4, <2>2, FailOK DEF QueryLauncher
    <2> QED
      BY <2>1, <2>2
  <1>5. CASE LoopHead(r)
    <2>0. /\ c.pc = "loop" /\ c.at \in 1..Len(lineage) /\ DecodedAt(c, c.at)
          /\ IF c.unspent THEN c.at >= c.seen ELSE c.at < Len(lineage)
      BY <1>5, <1>c DEF LoopHead, CallOK
    <2>1. CASE TrulyUnspent(c)
      <3>1. Step(r, Found(c, c.at, c.decoded))
        BY <1>5, <2>1 DEF LoopHead
      <3>2. c.at >= IF c.op = "find" THEN c.since ELSE c.seen
        BY <2>0, <2>1, <1>ok, <1>c DEF TrulyUnspent
      <3> QED
        BY <3>1, <3>2, <2>0, <1>c, <1>found DEF DecodedAt
    <2>2. CASE ~TrulyUnspent(c)
      <3> DEFINE d == [c EXCEPT !.pc = "apply"]
      <3>1. d \in Call
        BY <1>c, <1>pc DEF Call
      <3>2. /\ d.pc = "apply" /\ d.at = c.at /\ d.decoded = c.decoded
            /\ d.since = c.since /\ d.seen = c.seen
        BY <1>c DEF Call
      <3>3. call' = [call EXCEPT ![r] = d] /\ UNCHANGED <<lineage, indexed>>
        BY <1>5, <2>2 DEF LoopHead, Step
      <3>4. c.at < Len(lineage)
        BY <2>0, <2>2, <1>t, <1>c DEF TrulyUnspent
      <3> HIDE DEF d
      <3>5. CallOK(d)
        BY <3>1, <3>2, <3>4, <2>0, <1>ok, <1>t, <1>c DEF CallOK, DecodedAt
      <3> QED
        BY <3>3, <3>5
    <2> QED
      BY <2>1, <2>2
  <1>6. CASE ApplySpend(r)
    <2>0. /\ c.pc = "apply" /\ c.at \in 1..(Len(lineage) - 1)
          /\ DecodedAt(c, c.at)
      BY <1>6, <1>c DEF ApplySpend, CallOK
    <2> DEFINE s == Decode(c.decoded, lineage[c.at].spend)
               d == [c EXCEPT !.pc = "child", !.decoded = s]
    <2>1. s \in State
      <3>1. c.at \in 1..Len(lineage) /\ lineage \in Seq(CoinT)
        BY <2>0, <1>nat DEF ReaderInv, ChainOK
      <3>2. lineage[c.at] \in CoinT
        BY <3>1
      <3>3. lineage[c.at].spend \in SpendT
        BY <3>2 DEF CoinT
      <3> QED
        BY <3>3, <1>c, DecodeTyped
    <2>2. ~Combine => s = lineage[c.at + 1].state
      BY <2>0 DEF ReaderInv, ChainOK, DecodedAt
    <2>3. call' = [call EXCEPT ![r] = d] /\ UNCHANGED <<lineage, indexed>>
      BY <1>6 DEF ApplySpend, Step
    <2> HIDE DEF s
    <2>4. d \in Call
      BY <1>c, <1>pc, <2>1 DEF Call
    <2>5. /\ d.pc = "child" /\ d.at = c.at /\ d.decoded = s
          /\ d.since = c.since /\ d.seen = c.seen
      BY <1>c DEF Call
    <2> HIDE DEF d
    <2>6. CallOK(d)
      BY <2>0, <2>2, <2>4, <2>5, <1>ok DEF CallOK, DecodedAt
    <2> QED
      BY <2>3, <2>6
  <1>7. CASE QueryChild(r)
    <2>0. /\ c.pc = "child" /\ c.at \in 1..(Len(lineage) - 1)
          /\ DecodedAt(c, c.at + 1)
      BY <1>7, <1>c DEF QueryChild, CallOK
    <2>1. CASE c.at < indexed
      <3>0. PICK u \in BOOLEAN : u = (indexed = c.at + 1)
        OBVIOUS
      <3>u. u <=> indexed = c.at + 1
        BY <3>0, Zenon
      <3> DEFINE d == [c EXCEPT !.pc = "loop", !.at = @ + 1, !.unspent = u]
      <3>n. c.at + 1 \in Nat
        BY <1>c
      <3>1. d \in Call
        BY <3>n, <1>c, <1>pc DEF Call
      <3>2. /\ d.pc = "loop" /\ d.at = c.at + 1 /\ d.unspent = u
            /\ d.decoded = c.decoded /\ d.since = c.since /\ d.seen = c.seen
        BY <1>c DEF Call
      <3>3. call' = [call EXCEPT ![r] = d] /\ UNCHANGED <<lineage, indexed>>
        BY <1>7, <2>1, <3>0 DEF QueryChild, Step
      <3> HIDE DEF d
      <3>4. /\ c.at + 1 \in 1..Len(lineage)
            /\ IF u THEN c.at + 1 >= c.seen ELSE c.at + 1 < Len(lineage)
        <4>1. c.at + 1 \in 1..Len(lineage)
          BY <2>0, <1>nat, <1>c
        <4>2. CASE indexed = c.at + 1
          BY <4>1, <4>2, <3>u, <1>ok, <1>c
        <4>3. CASE indexed # c.at + 1
          BY <4>1, <4>3, <3>u, <2>1, <1>t, <1>nat, <1>c
        <4> QED
          BY <4>2, <4>3
      <3>5. CallOK(d)
        BY <3>1, <3>2, <3>4, <2>0, <1>ok DEF CallOK, DecodedAt
      <3> QED
        BY <3>3, <3>5
    <2>2. CASE ~(c.at < indexed)
      BY <1>7, <2>2, FailOK DEF QueryChild
    <2> QED
      BY <2>1, <2>2
  <1> QED
    BY <1>1, <1>2, <1>3, <1>4, <1>5, <1>6, <1>7 DEF ReadStep

LEMMA ReaderInit == Init => ReaderInv
  <1> SUFFICES ASSUME Init PROVE ReaderInv
    OBVIOUS
  <1>1. lineage = <<>> /\ indexed = 0 /\ call = [r \in Reader |-> NoCall]
    BY DEF Init
  <1>2. ChainOK
    BY <1>1 DEF ChainOK
  <1>3. CallOK(NoCall)
    BY <1>2, IdleOK
  <1> QED
    BY <1>1, <1>2, <1>3 DEF ReaderInv, CallOK

\* The chain grows under the calls in progress, or one of them makes a step.
LEMMA ReaderStep == ReaderInv /\ [Next]_vars => ReaderInv'
  <1> SUFFICES ASSUME ReaderInv, [Next]_vars PROVE ReaderInv'
    OBVIOUS
  <1>inv. /\ ChainOK /\ call \in [Reader -> Call]
          /\ \A r \in Reader : CallOK(call[r])
    BY DEF ReaderInv
  <1>grow. ASSUME ChainOK', Grows, NEW f,
                  f = call \/ \E r \in Reader : f = [call EXCEPT ![r] = NoCall],
                  call' = f
           PROVE  ReaderInv'
    <2>1. \A c : CallOK(c) => CallOK(c)'
      BY <1>inv, <1>grow, CallKeeps
    <2>2. CallOK(NoCall)
      BY <1>inv, IdleOK
    <2>3. NoCall \in Call
      BY <2>2 DEF CallOK
    <2>4. f \in [Reader -> Call] /\ \A r \in Reader : CallOK(f[r])
      BY <1>inv, <1>grow, <2>2, <2>3
    <2>5. \A r \in Reader : CallOK(f[r])'
      BY <2>1, <2>4
    <2> QED
      BY <1>grow, <2>4, <2>5 DEF ReaderInv, CallOK, DecodedAt
  <1>1. CASE Deploy
    <2>1. lineage' = <<Coin(Genesis)>> /\ lineage = <<>> /\ indexed' = indexed
      BY <1>1 DEF Deploy
    <2>2. Coin(Genesis) \in CoinT /\ Coin(Genesis).state = Genesis
      <3>1. NoSpend \in SpendT
        BY GenesisState DEF NoSpend, SpendT
      <3> QED
        BY <3>1, GenesisState DEF Coin, CoinT
    <2>3. Len(lineage) = 0 /\ indexed = 0
      BY <2>1, <1>inv DEF ChainOK
    <2>4. ChainOK' /\ Grows
      BY <2>1, <2>2, <2>3 DEF ChainOK, Grows
    <2> QED
      BY <2>4, <1>1, <1>grow DEF Deploy
  <1>2. CASE OtherSpend
    <2>1. ChainOK' /\ Grows
      BY <1>2, <1>inv, TipSpent DEF OtherSpend
    <2> QED
      BY <2>1, <1>2, <1>grow DEF OtherSpend
  <1>3. CASE CatchUp
    <2>1. ChainOK' /\ Grows
      BY <1>3, <1>inv DEF CatchUp, ChainOK, Grows
    <2> QED
      BY <2>1, <1>3, <1>grow DEF CatchUp
  <1>4. ASSUME NEW r \in Reader,
               ReadStep(r) \/ \E op \in {"sync", "find"} : Start(r, op)
        PROVE  ReaderInv'
    <2>1. PICK c : /\ CallOK(c) /\ call' = [call EXCEPT ![r] = c]
                   /\ UNCHANGED <<lineage, indexed>>
      BY <1>4, ReadsOK
    <2>2. ChainOK' /\ Grows
      BY <2>1, <1>inv DEF ChainOK, Grows
    <2>3. \A d : CallOK(d) => CallOK(d)'
      BY <1>inv, <2>2, CallKeeps
    <2>4. c \in Call
      BY <2>1 DEF CallOK
    <2>5. \A u \in Reader : call'[u] = IF u = r THEN c ELSE call[u]
      BY <2>1, <1>inv
    <2>6. ASSUME NEW u \in Reader PROVE CallOK(call[u])'
      <3>1. PICK d : d = IF u = r THEN c ELSE call[u]
        OBVIOUS
      <3>2. CallOK(d)' /\ call'[u] = d
        BY <3>1, <2>1, <2>3, <2>5, <1>inv
      <3> QED
        BY <3>2 DEF CallOK, DecodedAt
    <2> QED
      BY <2>1, <2>2, <2>4, <2>6, <1>inv DEF ReaderInv
  <1>5. ASSUME NEW r \in Reader, NEW a \in Act, Submit(r, a) PROVE ReaderInv'
    <2>1. ChainOK' /\ Grows
      BY <1>5, <1>inv, TipSpent DEF Submit
    <2> QED
      BY <2>1, <1>5, <1>grow DEF Submit
  <1>6. CASE UNCHANGED vars
    <2>1. ChainOK' /\ Grows /\ call' = call
      BY <1>6, <1>inv DEF vars, ChainOK, Grows
    <2> QED
      BY <2>1, <1>grow
  <1> QED
    BY <1>1, <1>2, <1>3, <1>4, <1>5, <1>6 DEF Next

\* If spends run one action each, as all the SDK builds do, a read returns the
\* state of a coin of the lineage, for any number of voters and amounts and
\* however the chain and the index move between its queries.
THEOREM LineageStatesTheorem ==
  ASSUME ~Combine
  PROVE  Spec => []ReadsAreLineageStates
  <1>1. ReaderInv => ReadsAreLineageStates
    BY DEF ReaderInv, CallOK, DecodedAt, ReadsAreLineageStates
  <1> QED
    BY <1>1, ReaderInit, ReaderStep, PTL DEF Spec

\* The lineage, the index and the calls keep their types.
THEOREM ReaderTypeCorrect == Spec => []TypeOK
  <1>1. ReaderInv => TypeOK
    <2>1. ChainOK => \A k \in DOMAIN lineage : lineage[k] \in CoinT
      BY DEF ChainOK
    <2>2. \A c \in CoinT : c.state \in State /\ c.spend.acts \in Seq(Act)
      BY DEF CoinT, SpendT
    <2> QED
      BY <2>1, <2>2 DEF ReaderInv, ChainOK, TypeOK
  <1> QED
    BY ReaderInit, ReaderStep, <1>1, PTL DEF Spec

\* A read is as recent as its own beginning: find by the primary index, sync by
\* the secondary one.
THEOREM RecentReadsTheorem == Spec => []ReadsAreRecent
  <1>1. ReaderInv => ReadsAreRecent
    BY DEF ReaderInv, CallOK, ReadsAreRecent
  <1> QED
    BY <1>1, ReaderInit, ReaderStep, PTL DEF Spec

\* A read reports an error only when it waits for the index, or before the
\* election exists: no state of the chain itself makes reading fail.
THEOREM ErrorsTheorem == Spec => ErrorsOnlyUnderLag
  <1> DEFINE Lag == indexed < Len(lineage) \/ lineage = <<>>
             Errs(r) == call'[r].attempts > call[r].attempts
  <1>1. ReaderInv /\ [Next]_vars => [\A r \in Reader : Errs(r) => Lag]_vars
    <2> SUFFICES ASSUME ReaderInv, Next, NEW r \in Reader, Errs(r)
                 PROVE  Lag
      BY DEF vars
    <2>t. /\ Len(lineage) \in Nat /\ indexed \in 0..Len(lineage)
          /\ call \in [Reader -> Call] /\ NoCall.attempts = 0
          /\ call[r].attempts \in Nat
          /\ lineage # <<>> => Len(lineage) # 0
      BY IdleOK DEF ReaderInv, ChainOK, Call
    <2>1. ASSUME NEW q \in Reader, NEW c, call' = [call EXCEPT ![q] = c],
                 c.attempts = call[q].attempts \/ c.attempts = 0
          PROVE  FALSE
      BY <2>1, <2>t
    <2>same. ASSUME NEW q \in Reader, NEW f \in {"eve_check", "launcher", "apply"}
             PROVE  [call[q] EXCEPT !.pc = f].attempts = call[q].attempts
      BY <2>t DEF Call
    <2>found. ASSUME NEW q \in Reader, NEW k, NEW s
              PROVE  Found(call[q], k, s).attempts = call[q].attempts
      BY <2>t DEF Found, Call
    <2>3. CASE UNCHANGED call
      BY <2>3, <2>t
    <2>4. ASSUME NEW q \in Reader, NEW op, Start(q, op) PROVE Lag
      <3>1. [NoCall EXCEPT !.op = op, !.pc = "eve", !.since = Len(lineage),
                           !.seen = indexed].attempts = 0
        BY <2>t DEF NoCall
      <3> QED
        BY <2>4, <2>1, <3>1 DEF Start, Step
    <2>5. ASSUME NEW q \in Reader, QueryEve(q) PROVE Lag
      <3> DEFINE f == Found(call[q], indexed, Genesis)
                 d == [call[q] EXCEPT !.pc = "eve_check"]
                 e == [call[q] EXCEPT !.pc = "launcher"]
      <3>1. \/ call' = [call EXCEPT ![q] = f]
            \/ call' = [call EXCEPT ![q] = d]
            \/ call' = [call EXCEPT ![q] = e]
        BY <2>5 DEF QueryEve, Step
      <3>2. f.attempts = call[q].attempts
        BY <2>found
      <3>3. /\ d.attempts = call[q].attempts
            /\ e.attempts = call[q].attempts
        BY <2>same
      <3> HIDE DEF f, d, e
      <3> QED
        BY <3>1, <3>2, <3>3, <2>1
    <2>6. ASSUME NEW q \in Reader, CheckEve(q) PROVE Lag
      <3> DEFINE f == Found(call[q], 1, Genesis)
                 e == [call[q] EXCEPT !.pc = "launcher"]
      <3>1. \/ call' = [call EXCEPT ![q] = f]
            \/ call' = [call EXCEPT ![q] = e]
        BY <2>6 DEF CheckEve, Step
      <3>2. f.attempts = call[q].attempts
        BY <2>found
      <3>3. /\ e.attempts = call[q].attempts
        BY <2>same
      <3> HIDE DEF f, e
      <3> QED
        BY <3>1, <3>2, <3>3, <2>1
    <2>7. ASSUME NEW q \in Reader, QueryLauncher(q) PROVE Lag
      <3>1. CASE EveVisible
        <4>1. [call[q] EXCEPT !.pc = "loop", !.at = 1, !.unspent = (indexed = 1),
                 !.decoded = Genesis].attempts = call[q].attempts
          BY <2>t DEF Call
        <4> QED
          BY <2>7, <2>1, <3>1, <4>1 DEF QueryLauncher, Step
      <3>2. CASE ~EveVisible
        BY <3>2, <2>t DEF EveVisible
      <3> QED
        BY <3>1, <3>2
    <2>8. ASSUME NEW q \in Reader, LoopHead(q) PROVE Lag
      <3> DEFINE f == Found(call[q], call[q].at, call[q].decoded)
                 e == [call[q] EXCEPT !.pc = "apply"]
      <3>1. \/ call' = [call EXCEPT ![q] = f]
            \/ call' = [call EXCEPT ![q] = e]
        BY <2>8 DEF LoopHead, Step
      <3>2. f.attempts = call[q].attempts
        BY <2>found
      <3>3. /\ e.attempts = call[q].attempts
        BY <2>same
      <3> HIDE DEF f, e
      <3> QED
        BY <3>1, <3>2, <3>3, <2>1
    <2>9. ASSUME NEW q \in Reader, ApplySpend(q) PROVE Lag
      <3>1. [call[q] EXCEPT !.pc = "child",
               !.decoded = Decode(@, lineage[call[q].at].spend)].attempts
              = call[q].attempts
        BY <2>t DEF Call
      <3> QED
        BY <2>9, <2>1, <3>1 DEF ApplySpend, Step
    <2>10. ASSUME NEW q \in Reader, QueryChild(q) PROVE Lag
      <3>1. CASE call[q].at < indexed
        <4>1. [call[q] EXCEPT !.pc = "loop", !.at = @ + 1,
                 !.unspent = (indexed = call[q].at + 1)].attempts
                = call[q].attempts
          BY <2>t DEF Call
        <4> QED
          BY <2>10, <2>1, <3>1, <4>1 DEF QueryChild, Step
      <3>2. CASE ~(call[q].at < indexed)
        <4>1. call[q].at \in 1..(Len(lineage) - 1)
          BY <2>10 DEF QueryChild, ReaderInv, CallOK
        <4> QED
          BY <3>2, <4>1, <2>t
      <3> QED
        BY <3>1, <3>2
    <2>11. ASSUME NEW q \in Reader, NEW a, Submit(q, a) PROVE Lag
      BY <2>11, <2>1, <2>t DEF Submit
    <2> QED
      BY <2>3, <2>4, <2>5, <2>6, <2>7, <2>8, <2>9, <2>10, <2>11
      DEF Next, ReadStep, Deploy, OtherSpend, CatchUp
  <1> QED
    BY <1>1, ReaderInit, ReaderStep, PTL DEF Spec, ErrorsOnlyUnderLag
==============================================================================
