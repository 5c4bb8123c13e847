--------------------------- MODULE ElectionOfficers ---------------------------
(***************************************************************************)
(* The coins of ElectionChain when two of the parties use the SDK: the     *)
(* issuer that launches ballots and the aggregator that finalizes them.    *)
(* Voters and everybody else do what the puzzles allow: register with or   *)
(* without collateral, sign off chain, mint and update beside coins that   *)
(* only claim to be a ballot.                                              *)
(*                                                                         *)
(* Neither finalize.rue nor the circuit looks at who signed, or at what    *)
(* the launcher curried: that an outcome has a quorum of the registered    *)
(* weight rests on the two checks below, which the clients make.           *)
(***************************************************************************)
EXTENDS ElectionChain

------------------------------------------------------------------------------
\* launch_ballot reads root and weight of one state of the election.
SdkPrepareLaunch(b, close, options, threshold) ==
  PrepareLaunch(b, close, options, threshold, tree, weight)

\* Signed weight in proportion to the snapshot weight.
\* Fault: the required weight is rounded down.
MeetsThreshold_fault(signedWeight, total, threshold) ==
  signedWeight >= (threshold.num * total) \div threshold.den
MeetsThreshold(signedWeight, total, threshold) ==
  signedWeight * threshold.den >= threshold.num * total

\* The witness is refused unless every signer is registered in the
\* aggregator's tree and their weight there meets the threshold; the prover
\* refuses an empty signer set.
Provable(t, total, threshold, S) ==
  /\ S # {}
  /\ \A v \in S : Registered(t, v)
  /\ MeetsThreshold(SignedWeight(t, S), total, threshold)

\* A finalize bundle the aggregator has built, from its tree t.
SdkFinalize(b, o, S, t, total) ==
  /\ Provable(t, total, ballot[b].threshold, S)
  /\ Finalize(b, o, S, t, total)

OfficersNext ==
  \E b \in Ballot :
    \/ \E options \in OptionSets : CreateBallot(b, options)
    \/ \E close \in Height, options \in OptionSets, threshold \in Threshold :
         SdkPrepareLaunch(b, close, options, threshold)
    \/ LaunchBallot(b)
    \/ \E o \in Outcome, S \in SUBSET Voter :
         \/ SdkFinalize(b, o, S, tree, weight)
         \/ SdkFinalize(b, o, S, tree, ballot[b].total)
         \/ SdkFinalize(b, o, S, ballot[b].tree, ballot[b].total)

OfficeNext == ElectionNext \/ VoteNext \/ OfficersNext \/ AdvanceHeight

OfficeSpec == Init /\ [][OfficeNext]_vars

------------------------------------------------------------------------------
(* Properties *)

\* A finalized outcome stands on voters of the ballot's snapshot who signed
\* it and together hold the curried share of the snapshot's weight, whatever
\* joined or left the election since and whoever else signed.
OutcomeHasQuorum ==
  \A b \in Ballot : ballot[b].finalized =>
    LET t == ballot[b].tree
        S == ballot[b].signers IN
    /\ \A v \in S : Registered(t, v) /\ <<v, b, ballot[b].outcome>> \in signed
    /\ MeetsThreshold(SignedWeight(t, S), ballot[b].total, ballot[b].threshold)

\* Some signers the aggregator accepts have signed o.
Finalizable(b, o) ==
  /\ ballot[b].phase = "launched"
  /\ \E S \in SUBSET Voter :
       /\ Provable(ballot[b].tree, ballot[b].total, ballot[b].threshold, S)
       /\ AggregateVerifies(b, o, S)

\* Under a majority threshold the aggregator can be brought to finalize two
\* outcomes of a ballot only if some voter signed both: quorums of one
\* snapshot intersect.
RivalOutcomesShareASigner ==
  \A b \in Ballot : \A o1, o2 \in Outcome :
    /\ o1 # o2
    /\ 2 * ballot[b].threshold.num > ballot[b].threshold.den
    /\ Finalizable(b, o1)
    /\ Finalizable(b, o2)
    => \E v \in Voter : <<v, b, o1>> \in signed /\ <<v, b, o2>> \in signed

\* The election decides each ballot as the abstract specification allows.
Electorate(b) ==
  IF ballot[b].phase = "launched"
    THEN [v \in Voter |-> LockedAmount(ballot[b].tree, v)]
    ELSE [v \in Voter |-> 0]
Quorum(b) ==
  IF ballot[b].phase = "launched" THEN ballot[b].threshold
                                  ELSE NoBallot.threshold

Decision == INSTANCE BallotDecision WITH
  electorate <- [b \in Ballot |-> Electorate(b)],
  quorum     <- [b \in Ballot |-> Quorum(b)],
  open       <- {b \in Ballot : OracleOpen(b)},
  endorsed   <- signed,
  decision   <- [b \in Ballot |-> ballot[b].outcome]

\* Each launched ballot is an electorate and a share fixed for good, and is
\* decided at most once, by signers of that electorate who carry the share.
ImplementsDecision == Decision!DecisionSpec
==============================================================================
