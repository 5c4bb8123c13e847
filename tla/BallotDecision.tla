---------------------------- MODULE BallotDecision ----------------------------
(***************************************************************************)
(* What the election promises of its ballots, without coins, trees or      *)
(* heights: a ballot opens with an electorate that never changes, members  *)
(* and others endorse outcomes at any time, and it is decided at most once *)
(* and for good, for an outcome endorsed by members who hold the required  *)
(* share of the electorate's weight.                                       *)
(***************************************************************************)
EXTENDS Naturals, Functions

CONSTANTS Voter, Ballot, Outcome, Threshold, NoOutcome

VARIABLES
  electorate, \* electorate[b][v]: the weight v carries in b, 0 for outsiders
  quorum,     \* quorum[b]: the [num, den] share that decides b
  open,       \* ballots that may be decided
  endorsed,   \* <<v, b, o>>: v endorsed outcome o of b
  decision    \* decision[b]: the decided outcome, or NoOutcome

decisionVars == <<electorate, quorum, open, endorsed, decision>>

TotalWeight(w) == SumFunctionOnSet(w, Voter)

Carries(b, S) ==
  SumFunctionOnSet(electorate[b], S) * quorum[b].den
    >= quorum[b].num * TotalWeight(electorate[b])

DecisionInit ==
  /\ electorate = [b \in Ballot |-> [v \in Voter |-> 0]]
  /\ quorum = [b \in Ballot |-> [num |-> 0, den |-> 1]]
  /\ open = {}
  /\ endorsed = {}
  /\ decision = [b \in Ballot |-> NoOutcome]

Open(b) ==
  /\ b \notin open
  /\ decision[b] = NoOutcome
  /\ open' = open \cup {b}
  /\ electorate'[b] \in [Voter -> Nat]
  /\ electorate' = [electorate EXCEPT ![b] = electorate'[b]]
  /\ quorum'[b] \in Threshold
  /\ quorum' = [quorum EXCEPT ![b] = quorum'[b]]
  /\ UNCHANGED <<endorsed, decision>>

Endorse(v, b, o) ==
  /\ endorsed' = endorsed \cup {<<v, b, o>>}
  /\ UNCHANGED <<electorate, quorum, open, decision>>

Decide(b, o) ==
  /\ b \in open
  /\ \E S \in SUBSET Voter :
       /\ \A v \in S : electorate[b][v] > 0 /\ <<v, b, o>> \in endorsed
       /\ Carries(b, S)
  /\ decision' = [decision EXCEPT ![b] = o]
  /\ open' = open \ {b}
  /\ UNCHANGED <<electorate, quorum, endorsed>>

DecisionNext ==
  \E b \in Ballot :
    \/ Open(b)
    \/ \E v \in Voter, o \in Outcome : Endorse(v, b, o)
    \/ \E o \in Outcome : Decide(b, o)

DecisionSpec == DecisionInit /\ [][DecisionNext]_decisionVars
==============================================================================
