---------------------------- MODULE ElectionProofs ----------------------------
(***************************************************************************)
(* Theorems about the election, for every electorate, ballot set, weight   *)
(* and height bound.  The first parts are about what the puzzles enforce   *)
(* (ElectionChain): types and ballots; then sums over a finite set, and    *)
(* what they say of the weights in the registration tree and of the coins  *)
(* a registration's collateral was divided into.  The next are about an    *)
(* election whose issuer and aggregator use the SDK (ElectionOfficers):    *)
(* quorums, rival outcomes, and the decision it implements.  The last are  *)
(* about the composed system (ElectionSdk): its steps are the officers',   *)
(* its drafts stay true to the coins they are made from, the bundles it    *)
(* builds are accepted, it strands no collateral and counts no vote that   *)
(* was not paid for.                                                       *)
(***************************************************************************)
EXTENDS ElectionSdk, TLAPS, FiniteSetTheorems, WellFoundedInduction

------------------------------------------------------------------------------
(* Type correctness *)

\* The slots that hold a voter.
Occupied(t) == {s \in Slot : t[s] # EmptyLeaf}

\* registration_count is the number of occupied slots.
CountIsExact == count = Cardinality(Occupied(tree))

\* The inductive form of TypeOK: that count stays natural rests on it being
\* the number of leaves, one of which deregister wipes.
TypeInv == TypeOK /\ CountIsExact

\* The state of a coin after its spend is a state its struct declares.
LEMMA CoinTypes ==
  /\ NoBallot \in BallotCoin
  /\ NoRegCoin \in RegCoin
  /\ EmptyLeaf \in Leaf
  /\ EmptyTree \in [Slot -> Leaf]
  <1>1. EmptyLeaf \in Leaf
    BY DEF EmptyLeaf, Leaf
  <1>2. EmptyTree \in [Slot -> Leaf]
    BY <1>1 DEF EmptyTree
  <1>3. NoRegCoin \in RegCoin
    BY DEF NoRegCoin, RegCoin
  <1>4. NoBallot \in BallotCoin
    BY <1>2, ConstantsAssumption DEF NoBallot, BallotCoin, Height, Fraction
  <1> QED
    BY <1>1, <1>2, <1>3, <1>4

\* A count of leaves is a natural number, and changes by one with one leaf.
LEMMA OccupiedCounts ==
  ASSUME NEW t \in [Slot -> Leaf], NEW s \in Slot, NEW l \in Leaf
  PROVE  LET u == [t EXCEPT ![s] = l] IN
         /\ Cardinality(Occupied(t)) \in Nat
         /\ t[s] = EmptyLeaf /\ l # EmptyLeaf =>
              Cardinality(Occupied(u)) = Cardinality(Occupied(t)) + 1
         /\ t[s] # EmptyLeaf /\ l = EmptyLeaf =>
              Cardinality(Occupied(u)) = Cardinality(Occupied(t)) - 1
  <1> DEFINE u == [t EXCEPT ![s] = l]
  <1>1. IsFiniteSet(Occupied(t))
    BY FS_Subset, FiniteAssumption DEF Occupied
  <1>2. Cardinality(Occupied(t)) \in Nat
    BY <1>1, FS_CardinalityType
  <1>3. ASSUME t[s] = EmptyLeaf, l # EmptyLeaf
        PROVE  Cardinality(Occupied(u)) = Cardinality(Occupied(t)) + 1
    <2>1. Occupied(u) = Occupied(t) \cup {s} /\ s \notin Occupied(t)
      BY <1>3 DEF Occupied
    <2> QED
      BY <2>1, <1>1, FS_AddElement
  <1>4. ASSUME t[s] # EmptyLeaf, l = EmptyLeaf
        PROVE  Cardinality(Occupied(u)) = Cardinality(Occupied(t)) - 1
    <2>1. Occupied(u) = Occupied(t) \ {s} /\ s \in Occupied(t)
      BY <1>4 DEF Occupied
    <2> QED
      BY <2>1, <1>1, FS_RemoveElement
  <1> QED
    BY <1>2, <1>3, <1>4

LEMMA TypeInit == Init => TypeInv
  <1> SUFFICES ASSUME Init PROVE TypeInv
    OBVIOUS
  <1>1. Occupied(tree) = {}
    BY DEF Init, EmptyTree, Occupied
  <1>2. CountIsExact
    BY <1>1, FS_EmptySet DEF CountIsExact, Init
  <1>3. height \in Height
    BY ConstantsAssumption DEF Init, Height
  <1>4. votingCoin \in [VotingCoinId -> VotingCoin]
    BY <1>3 DEF Init, VotingCoinId, VotingCoin
  <1>5. TypeOK
    BY <1>3, <1>4, CoinTypes DEF TypeOK, Init
  <1> QED
    BY <1>2, <1>5 DEF TypeInv

\* A new leaf in a free slot.
LEMMA AddLeafTypes ==
  ASSUME TypeInv, NEW v \in Voter, NEW amount \in Amount,
         CanRegister(v, amount), AddLeaf(v, amount)
  PROVE  /\ tree' \in [Slot -> Leaf]
         /\ weight' \in Int
         /\ count' \in Nat
         /\ CountIsExact'
  <1>types. tree \in [Slot -> Leaf] /\ count \in Nat /\ weight \in Int
    BY DEF TypeInv, TypeOK
  <1>count. count = Cardinality(Occupied(tree))
    BY DEF TypeInv, CountIsExact
  <1>1. SlotOf[v] \in Slot /\ amount \in Nat
    BY ConstantsAssumption
  <1> DEFINE l == [pk |-> v, locked |-> amount]
  <1>2. l \in Leaf /\ l # EmptyLeaf
    BY <1>1, ConstantsAssumption DEF Leaf, EmptyLeaf
  <1>3. tree' = [tree EXCEPT ![SlotOf[v]] = l] /\ tree[SlotOf[v]] = EmptyLeaf
    BY DEF AddLeaf, CanRegister
  <1>4. CountIsExact'
    <2>1. count' = count + 1
      BY DEF AddLeaf
    <2> HIDE DEF l
    <2> QED
      BY <2>1, <1>1, <1>2, <1>3, <1>types, <1>count, OccupiedCounts DEF CountIsExact
  <1>5. tree' \in [Slot -> Leaf]
    BY <1>2, <1>3, <1>types
  <1>6. weight' \in Int /\ count' \in Nat
    BY <1>1, <1>types DEF AddLeaf
  <1> QED
    BY <1>4, <1>5, <1>6

\* A Registration Coin that appears, and coins that are released.
LEMMA CoinStepTypes ==
  ASSUME regCoin \in [RegistrationId -> RegCoin], NEW v
  PROVE  /\ \A n \in 1..MaxRegistrations, amount \in Nat :
              CreateCoin(v, n, amount) => regCoin' \in [RegistrationId -> RegCoin]
         /\ \A R : Released(v, R) \in [RegistrationId -> RegCoin]
  <1>1. ASSUME NEW n \in 1..MaxRegistrations, NEW amount \in Nat,
               CreateCoin(v, n, amount)
        PROVE  regCoin' \in [RegistrationId -> RegCoin]
    BY <1>1 DEF CreateCoin, RegCoin
  <1>2. ASSUME NEW R PROVE Released(v, R) \in [RegistrationId -> RegCoin]
    BY DEF Released, RegCoin
  <1> QED
    BY <1>1, <1>2

LEMMA TypeStep == TypeInv /\ [Next]_vars => TypeInv'
  <1> SUFFICES ASSUME TypeInv, [Next]_vars PROVE TypeInv'
    OBVIOUS
  <1>types. /\ height \in Height
            /\ tree \in [Slot -> Leaf]
            /\ count \in Nat
            /\ weight \in Int
            /\ regCoin \in [RegistrationId -> RegCoin]
            /\ ballot \in [Ballot -> BallotCoin]
            /\ votingCoin \in [VotingCoinId -> VotingCoin]
            /\ signed \subseteq Voter \X Ballot \X Outcome
    BY DEF TypeInv, TypeOK
  <1>count. count = Cardinality(Occupied(tree))
    BY DEF TypeInv, CountIsExact
  <1>empty. EmptyLeaf \in Leaf
    BY CoinTypes
  <1>1. ASSUME NEW v \in Voter, NEW n \in 1..MaxRegistrations,
               NEW amount \in Amount, Register(v, n, amount)
        PROVE  TypeInv'
    <2>1. AnnouncedAmount(amount) \in Nat
      BY ConstantsAssumption DEF AnnouncedAmount
    <2>2. regCoin' \in [RegistrationId -> RegCoin]
      BY <1>1, <2>1, <1>types, CoinStepTypes DEF Register
    <2>3. CanRegister(v, amount) /\ AddLeaf(v, amount)
      BY <1>1 DEF Register
    <2> QED
      BY <1>1, <2>2, <2>3, <1>types, AddLeafTypes DEF Register, TypeInv, TypeOK, Height
  <1>11. ASSUME NEW v \in Voter, NEW amount \in Amount, RegisterAlone(v, amount)
         PROVE  TypeInv'
    <2>1. CanRegister(v, amount) /\ AddLeaf(v, amount)
      BY <1>11 DEF RegisterAlone
    <2> QED
      BY <1>11, <2>1, <1>types, AddLeafTypes DEF RegisterAlone, TypeInv, TypeOK, Height
  <1>12. ASSUME NEW v \in Voter, NEW n \in 1..MaxRegistrations,
                NEW amount \in Amount, FundCoin(v, n, amount)
         PROVE  TypeInv'
    <2>1. amount \in Nat
      BY ConstantsAssumption
    <2>2. regCoin' \in [RegistrationId -> RegCoin]
      BY <1>12, <2>1, <1>types, CoinStepTypes DEF FundCoin
    <2> QED
      BY <1>12, <2>2, <1>types, <1>count
      DEF FundCoin, electionVars, TypeInv, TypeOK, CountIsExact, Height
  <1>13. ASSUME NEW v \in Voter, NEW n \in 1..MaxRegistrations, ReleaseAlone(v, n)
         PROVE  TypeInv'
    <2>1. regCoin' \in [RegistrationId -> RegCoin]
      BY <1>13, <1>types, CoinStepTypes DEF ReleaseAlone
    <2> QED
      BY <1>13, <2>1, <1>types, <1>count
      DEF ReleaseAlone, electionVars, TypeInv, TypeOK, CountIsExact, Height
  <1>14. ASSUME NEW v \in Voter, NEW b \in Ballot, NEW o \in Outcome,
                SignOffChain(v, b, o)
         PROVE  TypeInv'
    <2>1. signed' \subseteq Voter \X Ballot \X Outcome
      BY <1>14, <1>types DEF SignOffChain
    <2> QED
      BY <1>14, <2>1, <1>types, <1>count
      DEF SignOffChain, electionVars, TypeInv, TypeOK, CountIsExact, Height
  <1>2. ASSUME NEW v \in Voter, NEW R \in SUBSET (1..MaxRegistrations),
               Deregister(v, R)
        PROVE  TypeInv'
    <2>1. SlotOf[v] \in Slot
      BY ConstantsAssumption
    <2>2. tree' = [tree EXCEPT ![SlotOf[v]] = EmptyLeaf]
          /\ tree[SlotOf[v]] # EmptyLeaf
      BY <1>2, ConstantsAssumption
      DEF Deregister, CanDeregister, MembershipProof, Registered, EmptyLeaf
    <2>3. count' = count - 1
      BY <1>2 DEF Deregister
    <2>4. count' = Cardinality(Occupied(tree'))
      BY <2>1, <2>2, <2>3, <1>types, <1>count, <1>empty, OccupiedCounts
    <2>5. tree' \in [Slot -> Leaf]
      BY <2>2, <1>types, <1>empty
    <2>6. count' \in Nat
      BY <2>4, <2>5, <2>1, <1>empty, OccupiedCounts
    <2>7. regCoin' \in [RegistrationId -> RegCoin]
      BY <1>2, <1>types, CoinStepTypes DEF Deregister
    <2>8. weight' \in Int
      BY <1>2, <2>1, <1>types DEF Deregister, RecoveredWeight, Leaf
    <2> QED
      BY <1>2, <2>4, <2>5, <2>6, <2>7, <2>8, <1>types
      DEF Deregister, TypeInv, TypeOK, CountIsExact, Height
  <1>3. ASSUME NEW b \in Ballot, NEW options \in OptionSets,
               CreateBallot(b, options)
        PROVE  TypeInv'
    <2>1. ballot' \in [Ballot -> BallotCoin]
      <3> DEFINE coin == [ballot[b] EXCEPT !.phase = "minted", !.options = options]
      <3>1. coin \in BallotCoin
        BY <1>types DEF BallotCoin
      <3>2. ballot' = [ballot EXCEPT ![b] = coin]
        BY <1>3, <1>types DEF CreateBallot, BallotCoin
      <3> QED
        BY <3>1, <3>2, <1>types
    <2> QED
      BY <1>3, <2>1, <1>types, <1>count
      DEF CreateBallot, electionVars, TypeInv, TypeOK, CountIsExact, Height
  <1>4. ASSUME NEW b \in Ballot, NEW close \in Height,
               NEW options \in OptionSets, NEW threshold \in Threshold,
               NEW t \in [Slot -> Leaf], NEW total \in Int,
               PrepareLaunch(b, close, options, threshold, t, total)
        PROVE  TypeInv'
    <2>1. ballot' \in [Ballot -> BallotCoin]
      <3> DEFINE coin == [ballot[b] EXCEPT !.phase = "drafted", !.close = close,
                            !.options = options, !.threshold = threshold,
                            !.tree = t, !.total = total]
      <3>0. threshold \in Fraction
        BY ConstantsAssumption DEF Fraction
      <3>1. coin \in BallotCoin
        BY <3>0, <1>types DEF BallotCoin
      <3>2. ballot' = [ballot EXCEPT ![b] = coin]
        BY <1>4 DEF PrepareLaunch
      <3> QED
        BY <3>1, <3>2, <1>types
    <2> QED
      BY <1>4, <2>1, <1>types, <1>count
      DEF PrepareLaunch, electionVars, TypeInv, TypeOK, CountIsExact, Height
  <1>5. ASSUME NEW b \in Ballot, LaunchBallot(b)
        PROVE  TypeInv'
    <2>1. ballot' \in [Ballot -> BallotCoin]
      <3> DEFINE coin == [ballot[b] EXCEPT !.phase = "launched"]
      <3>1. coin \in BallotCoin
        BY <1>types DEF BallotCoin
      <3>2. ballot' = [ballot EXCEPT ![b] = coin]
        BY <1>5, <1>types DEF LaunchBallot, BallotCoin
      <3> QED
        BY <3>1, <3>2, <1>types
    <2> QED
      BY <1>5, <2>1, <1>types, <1>count
      DEF LaunchBallot, electionVars, TypeInv, TypeOK, CountIsExact, Height
  <1>6. ASSUME NEW v \in Voter, NEW n \in 1..MaxRegistrations,
               NEW b \in Ballot, NEW o \in Outcome, NEW stake \in Stake,
               NEW by, NEW sigs \in SUBSET {<<v, b, o>>},
               MintVotingCoin(v, n, b, o, stake, by, sigs)
        PROVE  TypeInv'
    <2>1. regCoin' \in [RegistrationId -> RegCoin]
      <3> DEFINE old  == regCoin[<<v, n>>]
                 coin == [old EXCEPT !.voted = old.voted \cup {b},
                                     !.amount = Residual(old.amount, stake)]
      <3>1. old \in RegCoin
        BY <1>types DEF RegistrationId
      <3>2. Residual(old.amount, stake) \in Nat
        BY <1>6, <3>1, ConstantsAssumption
        DEF MintVotingCoin, CanMint, Residual, RegCoin
      <3>3. coin \in RegCoin
        BY <3>1, <3>2 DEF RegCoin
      <3>4. regCoin' = [regCoin EXCEPT ![<<v, n>>] = coin]
        BY <1>6, <3>1, <1>types DEF MintVotingCoin, RegCoin
      <3> QED
        BY <3>3, <3>4, <1>types
    <2>2. votingCoin' \in [VotingCoinId -> VotingCoin]
      <3>1. stake \in Nat
        BY ConstantsAssumption
      <3> QED
        BY <1>6, <3>1, <1>types DEF MintVotingCoin, VotingCoin, VotingCoinId
    <2>3. signed' \subseteq Voter \X Ballot \X Outcome
      BY <1>6, <1>types DEF MintVotingCoin
    <2> QED
      BY <1>6, <2>1, <2>2, <2>3, <1>types, <1>count
      DEF MintVotingCoin, electionVars, TypeInv, TypeOK, CountIsExact, Height
  <1>7. ASSUME NEW v \in Voter, NEW n \in 1..MaxRegistrations,
               NEW b \in Ballot, NEW named \in Ballot, NEW o \in Outcome,
               NEW by, NEW sigs \in SUBSET {<<v, named, o>>},
               UpdateVote(v, n, b, named, o, by, sigs)
        PROVE  TypeInv'
    <2>1. votingCoin' \in [VotingCoinId -> VotingCoin]
      BY <1>7, <1>types DEF UpdateVote, VotingCoin, VotingCoinId
    <2>2. signed' \subseteq Voter \X Ballot \X Outcome
      BY <1>7, <1>types DEF UpdateVote
    <2> QED
      BY <1>7, <2>1, <2>2, <1>types, <1>count
      DEF UpdateVote, electionVars, TypeInv, TypeOK, CountIsExact, Height
  <1>8. ASSUME NEW b \in Ballot, NEW o \in Outcome, NEW S \in SUBSET Voter,
               NEW t, NEW total, Finalize(b, o, S, t, total)
        PROVE  TypeInv'
    <2>1. ballot' \in [Ballot -> BallotCoin]
      <3> DEFINE coin == [ballot[b] EXCEPT !.finalized = TRUE, !.outcome = o,
                                           !.signers = S]
      <3>1. coin \in BallotCoin
        BY <1>types DEF BallotCoin
      <3>2. ballot' = [ballot EXCEPT ![b] = coin]
        BY <1>8 DEF Finalize
      <3> QED
        BY <3>1, <3>2, <1>types
    <2> QED
      BY <1>8, <2>1, <1>types, <1>count
      DEF Finalize, electionVars, TypeInv, TypeOK, CountIsExact, Height
  <1>9. CASE AdvanceHeight
    BY <1>9, <1>types, <1>count, ConstantsAssumption
    DEF AdvanceHeight, electionVars, TypeInv, TypeOK, CountIsExact, Height
  <1>10. CASE UNCHANGED vars
    BY <1>10, <1>types, <1>count
    DEF vars, electionVars, TypeInv, TypeOK, CountIsExact, Height
  <1>15. ASSUME NEW s \in Snapshot \cup {[tree |-> tree, total |-> weight]}
         PROVE  s.tree \in [Slot -> Leaf] /\ s.total \in Int
    BY <1>15, <1>types, ConstantsAssumption DEF Leaf
  <1>16. CASE ElectionNext
    BY <1>16, <1>1, <1>2, <1>11, <1>12, <1>13 DEF ElectionNext
  <1>17. CASE IssuerNext
    BY <1>17, <1>3, <1>4, <1>5, <1>15 DEF IssuerNext
  <1>18. CASE VoteNext
    BY <1>18, <1>6, <1>7, <1>14 DEF VoteNext
  <1>19. CASE FinalizeNext
    BY <1>19, <1>8 DEF FinalizeNext
  <1> QED
    BY <1>9, <1>10, <1>16, <1>17, <1>18, <1>19 DEF Next

\* Every reachable state is well typed, whatever the order of registrations
\* and deregistrations: registration_count never drops below zero.
THEOREM TypeCorrect == Spec => []TypeOK
  <1>1. TypeInv => TypeOK
    BY DEF TypeInv
  <1> QED
    BY TypeInit, TypeStep, <1>1, PTL DEF Spec

------------------------------------------------------------------------------
(* What the parts of Next leave alone *)

\* Voters, registrations and blocks do not touch a Ballot Coin.
LEMMA BallotsUntouched ==
  ElectionNext \/ VoteNext \/ AdvanceHeight \/ UNCHANGED vars => ballot' = ballot
  <1>1. CASE ElectionNext
    BY <1>1 DEF ElectionNext, Register, RegisterAlone, FundCoin, Deregister,
                ReleaseAlone
  <1>2. CASE VoteNext
    <2>1. PICK v \in Voter, b \in Ballot, o \in Outcome :
            \/ \E n \in 1..MaxRegistrations, by \in Announcer,
                 sigs \in SUBSET {<<v, b, o>>} :
                 \/ \E k \in Stake : MintVotingCoin(v, n, b, o, k, by, sigs)
                 \/ \E c \in Ballot : UpdateVote(v, n, c, b, o, by, sigs)
            \/ SignOffChain(v, b, o)
      BY <1>2 DEF VoteNext
    <2>2. CASE SignOffChain(v, b, o)
      BY <2>2 DEF SignOffChain
    <2>3. ASSUME NEW n, NEW k, NEW by, NEW sigs, MintVotingCoin(v, n, b, o, k, by, sigs)
          PROVE  ballot' = ballot
      BY <2>3 DEF MintVotingCoin
    <2>4. ASSUME NEW n, NEW c, NEW by, NEW sigs, UpdateVote(v, n, c, b, o, by, sigs)
          PROVE  ballot' = ballot
      BY <2>4 DEF UpdateVote
    <2> QED
      BY <2>1, <2>2, <2>3, <2>4
  <1>3. CASE AdvanceHeight \/ UNCHANGED vars
    BY <1>3 DEF AdvanceHeight, vars
  <1> QED
    BY <1>1, <1>2, <1>3

\* Ballots and blocks touch neither the election nor a voter's coins.
LEMMA CoinsUntouched ==
  IssuerNext \/ FinalizeNext \/ AdvanceHeight \/ UNCHANGED vars
    => UNCHANGED <<electionVars, regCoin, votingCoin, signed>>
  <1>1. CASE IssuerNext
    <2>1. PICK b \in Ballot :
            \/ \E options \in OptionSets : CreateBallot(b, options)
            \/ \E close \in Height, options \in OptionSets, threshold \in Threshold,
                 s \in Snapshot \cup {[tree |-> tree, total |-> weight]} :
                 PrepareLaunch(b, close, options, threshold, s.tree, s.total)
            \/ LaunchBallot(b)
      BY <1>1 DEF IssuerNext
    <2>2. ASSUME NEW options, CreateBallot(b, options)
          PROVE  UNCHANGED <<electionVars, regCoin, votingCoin, signed>>
      BY <2>2 DEF CreateBallot
    <2>3. ASSUME NEW c, NEW options, NEW h, NEW t, NEW w,
                 PrepareLaunch(b, c, options, h, t, w)
          PROVE  UNCHANGED <<electionVars, regCoin, votingCoin, signed>>
      BY <2>3 DEF PrepareLaunch
    <2>4. CASE LaunchBallot(b)
      BY <2>4 DEF LaunchBallot
    <2> QED
      BY <2>1, <2>2, <2>3, <2>4
  <1>2. CASE FinalizeNext
    <2>1. ASSUME NEW b, NEW o, NEW S, NEW t, NEW w, Finalize(b, o, S, t, w)
          PROVE  UNCHANGED <<electionVars, regCoin, votingCoin, signed>>
      BY <2>1 DEF Finalize
    <2> QED
      BY <1>2, <2>1 DEF FinalizeNext
  <1>3. CASE AdvanceHeight \/ UNCHANGED vars
    BY <1>3 DEF AdvanceHeight, vars, electionVars
  <1> QED
    BY <1>1, <1>2, <1>3

------------------------------------------------------------------------------
(* Ballots *)

\* What one step may do to a ballot: nothing, a step of its launch, or its
\* finalization from the curried snapshot.
BallotMove(b) ==
  \/ ballot'[b] = ballot[b]
  \/ /\ ballot[b].phase # "launched"
     /\ ballot'[b].finalized = ballot[b].finalized
  \/ \E o \in Outcome, S \in SUBSET Voter :
       Finalize(b, o, S, ballot[b].tree, ballot[b].total)

LEMMA BallotMoves ==
  ASSUME TypeInv, [Next]_vars, NEW b \in Ballot
  PROVE  BallotMove(b)
  <1>types. ballot \in [Ballot -> BallotCoin]
    BY DEF TypeInv, TypeOK
  <1>1. ASSUME NEW c \in Ballot, NEW options \in OptionSets,
               CreateBallot(c, options)
        PROVE  BallotMove(b)
    BY <1>1, <1>types DEF CreateBallot, CanCreateBallot, BallotCoin, BallotMove
  <1>2. ASSUME NEW c \in Ballot, NEW close \in Height,
               NEW options \in OptionSets, NEW threshold \in Threshold,
               NEW t, NEW total,
               PrepareLaunch(c, close, options, threshold, t, total)
        PROVE  BallotMove(b)
    <2>1. ballot[c].phase # "launched"
      BY <1>2 DEF PrepareLaunch
    <2> DEFINE coin == [ballot[c] EXCEPT !.phase = "drafted", !.close = close,
                          !.options = options, !.threshold = threshold,
                          !.tree = t, !.total = total]
    <2>2. ballot' = [ballot EXCEPT ![c] = coin]
      BY <1>2 DEF PrepareLaunch
    <2>3. coin.finalized = ballot[c].finalized
      BY <1>types DEF BallotCoin
    <2> QED
      BY <2>1, <2>2, <2>3, <1>types DEF BallotMove
  <1>3. ASSUME NEW c \in Ballot, LaunchBallot(c)
        PROVE  BallotMove(b)
    BY <1>3, <1>types DEF LaunchBallot, BallotCoin, BallotMove
  <1>4. ASSUME NEW c \in Ballot, NEW o \in Outcome, NEW S \in SUBSET Voter,
               NEW t, NEW total, Finalize(c, o, S, t, total)
        PROVE  BallotMove(b)
    <2>1. t = ballot[c].tree /\ total = ballot[c].total
      BY <1>4 DEF Finalize, CanFinalize, SnapshotBound
    <2>2. CASE b = c
      BY <1>4, <2>1, <2>2 DEF BallotMove
    <2>3. CASE b # c
      BY <1>4, <2>3, <1>types DEF Finalize, BallotMove
    <2> QED
      BY <2>2, <2>3
  <1>5. CASE IssuerNext
    <2>1. PICK c \in Ballot :
            \/ \E options \in OptionSets : CreateBallot(c, options)
            \/ \E close \in Height, options \in OptionSets, threshold \in Threshold,
                 s \in Snapshot \cup {[tree |-> tree, total |-> weight]} :
                 PrepareLaunch(c, close, options, threshold, s.tree, s.total)
            \/ LaunchBallot(c)
      BY <1>5 DEF IssuerNext
    <2> QED
      BY <2>1, <1>1, <1>2, <1>3
  <1>6. CASE FinalizeNext
    <2>1. PICK c \in Ballot, o \in Outcome, S \in SUBSET Voter :
            \/ Finalize(c, o, S, tree, weight)
            \/ Finalize(c, o, S, tree, ballot[c].total)
            \/ Finalize(c, o, S, ballot[c].tree, ballot[c].total)
      BY <1>6 DEF FinalizeNext
    <2> QED
      BY <2>1, <1>4
  <1>7. CASE ElectionNext \/ VoteNext \/ AdvanceHeight \/ UNCHANGED vars
    <2>1. ballot' = ballot
      BY <1>7, BallotsUntouched
    <2> QED
      BY <2>1 DEF BallotMove
  <1> QED
    BY <1>5, <1>6, <1>7 DEF Next

\* A signature the chain has carried cannot be taken back.
\* A signature that was given away cannot be taken back.
LEMMA SignaturesStay == [Next]_vars => signed \subseteq signed'
  <1> SUFFICES ASSUME [Next]_vars PROVE signed \subseteq signed'
    OBVIOUS
  <1>1. CASE ElectionNext
    BY <1>1 DEF ElectionNext, Register, RegisterAlone, FundCoin, Deregister,
                ReleaseAlone
  <1>2. CASE VoteNext
    <2>1. ASSUME NEW v, NEW n, NEW b, NEW o, NEW k, NEW by, NEW sigs,
                 MintVotingCoin(v, n, b, o, k, by, sigs)
          PROVE  signed \subseteq signed'
      BY <2>1 DEF MintVotingCoin
    <2>2. ASSUME NEW v, NEW n, NEW b, NEW d, NEW o, NEW by, NEW sigs,
                 UpdateVote(v, n, b, d, o, by, sigs)
          PROVE  signed \subseteq signed'
      BY <2>2 DEF UpdateVote
    <2>3. ASSUME NEW v, NEW b, NEW o, SignOffChain(v, b, o)
          PROVE  signed \subseteq signed'
      BY <2>3 DEF SignOffChain
    <2> QED
      BY <1>2, <2>1, <2>2, <2>3 DEF VoteNext
  <1>3. CASE IssuerNext \/ FinalizeNext \/ AdvanceHeight \/ UNCHANGED vars
    BY <1>3, CoinsUntouched
  <1> QED
    BY <1>1, <1>2, <1>3 DEF Next

\* A launched ballot keeps its parameters, and a finalized one its outcome,
\* in every step of every behaviour.
THEOREM LaunchedBallotTheorem == Spec => LaunchedBallotIsFixed
  <1>1. TypeInv /\ [Next]_vars =>
          [\A b \in Ballot : ballot[b].phase = "launched" =>
             \/ ballot'[b] = ballot[b]
             \/ /\ ~ballot[b].finalized
                /\ ballot'[b] = [ballot[b] EXCEPT !.finalized = TRUE,
                                                  !.outcome = ballot'[b].outcome,
                                                  !.signers = ballot'[b].signers]]_vars
    <2> SUFFICES ASSUME TypeInv, [Next]_vars,
                        NEW b \in Ballot, ballot[b].phase = "launched"
                 PROVE
          \/ ballot'[b] = ballot[b]
          \/ /\ ~ballot[b].finalized
             /\ ballot'[b] = [ballot[b] EXCEPT !.finalized = TRUE,
                                               !.outcome = ballot'[b].outcome,
                                               !.signers = ballot'[b].signers]
      OBVIOUS
    <2>1. ASSUME NEW o \in Outcome, NEW S \in SUBSET Voter,
                 Finalize(b, o, S, ballot[b].tree, ballot[b].total)
          PROVE  /\ ~ballot[b].finalized
                 /\ ballot'[b] = [ballot[b] EXCEPT !.finalized = TRUE,
                                                   !.outcome = ballot'[b].outcome,
                                                   !.signers = ballot'[b].signers]
      <3>1. ballot[b] \in BallotCoin /\ ballot \in [Ballot -> BallotCoin]
        BY DEF TypeInv, TypeOK
      <3>2. ballot'[b] = [ballot[b] EXCEPT !.finalized = TRUE, !.outcome = o,
                                           !.signers = S]
        BY <2>1, <3>1 DEF Finalize
      <3>3. ballot'[b].outcome = o /\ ballot'[b].signers = S
        BY <3>1, <3>2 DEF BallotCoin
      <3>4. ~ballot[b].finalized
        BY <2>1 DEF Finalize, CanFinalize, FinalizeWindow, OracleOpen
      <3> QED
        BY <3>2, <3>3, <3>4
    <2> QED
      BY <2>1, BallotMoves DEF BallotMove
  <1> QED
    BY TypeInit, TypeStep, <1>1, PTL DEF Spec, LaunchedBallotIsFixed

\* What a ballot was launched with stays with its coin, finalized or not.
LEMMA LaunchedKeeps ==
  ASSUME TypeInv, [Next]_vars, NEW b \in Ballot, ballot[b].phase = "launched"
  PROVE  /\ ballot'[b].phase = "launched"
         /\ ballot'[b].options = ballot[b].options
         /\ ballot'[b].threshold = ballot[b].threshold
         /\ ballot'[b].tree = ballot[b].tree
         /\ ballot'[b].total = ballot[b].total
  <1>1. ballot[b] \in BallotCoin /\ ballot \in [Ballot -> BallotCoin]
    BY DEF TypeInv, TypeOK
  <1>2. ASSUME NEW o \in Outcome, NEW S \in SUBSET Voter,
               Finalize(b, o, S, ballot[b].tree, ballot[b].total)
        PROVE  ballot'[b] = [ballot[b] EXCEPT !.finalized = TRUE,
                                              !.outcome = o, !.signers = S]
    BY <1>1, <1>2 DEF Finalize
  <1>3. ASSUME NEW o, NEW S,
               ballot'[b] = [ballot[b] EXCEPT !.finalized = TRUE,
                                              !.outcome = o, !.signers = S]
        PROVE  /\ ballot'[b].phase = "launched"
               /\ ballot'[b].options = ballot[b].options
               /\ ballot'[b].threshold = ballot[b].threshold
               /\ ballot'[b].tree = ballot[b].tree
               /\ ballot'[b].total = ballot[b].total
    BY <1>1, <1>3 DEF BallotCoin
  <1> QED
    BY <1>2, <1>3, BallotMoves DEF BallotMove

------------------------------------------------------------------------------
(* Coins *)

\* What one step may do to a Registration Coin: nothing, its creation, a mint
\* of one Voting Coin, or its release.
RegCoinMove(c) ==
  \/ regCoin'[c] = regCoin[c]
  \/ /\ regCoin[c].status = "none"
     /\ regCoin'[c].status = "live"
  \/ /\ regCoin[c].status = "live"
     /\ regCoin'[c].status # "none"
     /\ regCoin'[c].locked = regCoin[c].locked
     /\ regCoin[c].voted \subseteq regCoin'[c].voted

\* A coin that appears was not there.
LEMMA CreateMoves ==
  ASSUME regCoin \in [RegistrationId -> RegCoin], NEW c \in RegistrationId,
         NEW v \in Voter, NEW n \in 1..MaxRegistrations, NEW amount,
         NewCoin(v, n), CreateCoin(v, n, amount)
  PROVE  RegCoinMove(c)
  <1>1. <<v, n>> \in RegistrationId
    BY DEF RegistrationId
  <1>2. CASE c = <<v, n>>
    BY <1>1, <1>2 DEF CreateCoin, NewCoin, RegCoinMove
  <1>3. CASE c # <<v, n>>
    BY <1>1, <1>3 DEF CreateCoin, RegCoinMove
  <1> QED
    BY <1>2, <1>3

\* A release takes live coins and keeps the rest.
LEMMA ReleaseMoves ==
  ASSUME regCoin \in [RegistrationId -> RegCoin], NEW c \in RegistrationId,
         NEW v \in Voter, NEW R, regCoin' = Released(v, R),
         \A n \in R : regCoin[<<v, n>>].status = "live"
  PROVE  RegCoinMove(c)
  <1>1. CASE c[1] = v /\ c[2] \in R
    <2>1. c = <<v, c[2]>>
      BY <1>1 DEF RegistrationId
    <2>2. regCoin[c].status = "live" /\ regCoin[c] \in RegCoin
      BY <1>1, <2>1
    <2>3. regCoin'[c] = [regCoin[c] EXCEPT !.status = "released"]
      BY <1>1 DEF Released
    <2> QED
      BY <2>2, <2>3 DEF RegCoin, RegCoinMove
  <1>2. CASE ~(c[1] = v /\ c[2] \in R)
    BY <1>2 DEF Released, RegCoinMove
  <1> QED
    BY <1>1, <1>2

\* An action on other coins leaves a Registration Coin alone.
LEMMA RegCoinMoves ==
  ASSUME TypeInv, [Next]_vars, NEW c \in RegistrationId
  PROVE  RegCoinMove(c)
  <1>types. regCoin \in [RegistrationId -> RegCoin]
    BY DEF TypeInv, TypeOK
  <1>1. CASE ElectionNext
    <2>1. PICK v \in Voter :
            \/ \E n \in 1..MaxRegistrations, amount \in Amount :
                 Register(v, n, amount) \/ FundCoin(v, n, amount)
            \/ \E amount \in Amount : RegisterAlone(v, amount)
            \/ \E R \in SUBSET (1..MaxRegistrations) : Deregister(v, R)
            \/ \E n \in 1..MaxRegistrations : ReleaseAlone(v, n)
      BY <1>1 DEF ElectionNext
    <2>2. ASSUME NEW n \in 1..MaxRegistrations, NEW amount \in Amount,
                 Register(v, n, amount) \/ FundCoin(v, n, amount)
          PROVE  RegCoinMove(c)
      <3>1. NewCoin(v, n)
        BY <2>2 DEF Register, FundCoin
      <3>2. \E held : CreateCoin(v, n, held)
        BY <2>2 DEF Register, FundCoin
      <3> QED
        BY <3>1, <3>2, <1>types, CreateMoves
    <2>3. ASSUME NEW amount, RegisterAlone(v, amount) PROVE RegCoinMove(c)
      BY <2>3 DEF RegisterAlone, RegCoinMove
    <2>4. ASSUME NEW R \in SUBSET (1..MaxRegistrations), Deregister(v, R)
          PROVE  RegCoinMove(c)
      BY <2>4, <1>types, ReleaseMoves DEF Deregister, CanDeregister
    <2>5. ASSUME NEW n \in 1..MaxRegistrations, ReleaseAlone(v, n)
          PROVE  RegCoinMove(c)
      BY <2>5, <1>types, ReleaseMoves DEF ReleaseAlone
    <2> QED
      BY <2>1, <2>2, <2>3, <2>4, <2>5
  <1>2. CASE VoteNext
    <2>1. PICK v \in Voter, b \in Ballot, o \in Outcome :
            \/ \E n \in 1..MaxRegistrations, by \in Announcer,
                 sigs \in SUBSET {<<v, b, o>>} :
                 \/ \E k \in Stake : MintVotingCoin(v, n, b, o, k, by, sigs)
                 \/ \E d \in Ballot : UpdateVote(v, n, d, b, o, by, sigs)
            \/ SignOffChain(v, b, o)
      BY <1>2 DEF VoteNext
    <2>2. ASSUME NEW n \in 1..MaxRegistrations, NEW k, NEW by, NEW sigs,
                 MintVotingCoin(v, n, b, o, k, by, sigs)
          PROVE  RegCoinMove(c)
      <3>1. regCoin[<<v, n>>].status = "live"
        BY <2>2 DEF MintVotingCoin, CanMint, Mintable
      <3>2. CASE c = <<v, n>>
        BY <2>2, <3>1, <3>2, <1>types DEF MintVotingCoin, RegCoin, RegCoinMove
      <3>3. CASE c # <<v, n>>
        BY <2>2, <3>3, <1>types DEF MintVotingCoin, RegCoinMove
      <3> QED
        BY <3>2, <3>3
    <2>3. ASSUME NEW n, NEW d, NEW by, NEW sigs, UpdateVote(v, n, d, b, o, by, sigs)
          PROVE  RegCoinMove(c)
      BY <2>3 DEF UpdateVote, RegCoinMove
    <2>4. CASE SignOffChain(v, b, o)
      BY <2>4 DEF SignOffChain, RegCoinMove
    <2> QED
      BY <2>1, <2>2, <2>3, <2>4
  <1>3. CASE IssuerNext \/ FinalizeNext \/ AdvanceHeight \/ UNCHANGED vars
    BY <1>3, CoinsUntouched DEF RegCoinMove
  <1> QED
    BY <1>1, <1>2, <1>3 DEF Next

\* Released collateral is gone for good, whatever bundle follows.
THEOREM ReleasedCoinTheorem == Spec => ReleasedCoinIsSpent
  <1>1. TypeInv /\ [Next]_vars =>
          [\A c \in RegistrationId :
             regCoin[c].status = "released" => regCoin'[c] = regCoin[c]]_vars
    BY RegCoinMoves DEF RegCoinMove
  <1> QED
    BY TypeInit, TypeStep, <1>1, PTL DEF Spec, ReleasedCoinIsSpent

\* What one step may do to the Voting Coins: nothing, a mint, or an update.
VoteMove ==
  \/ UNCHANGED votingCoin
  \/ \E v \in Voter, n \in 1..MaxRegistrations, b \in Ballot, o \in Outcome,
       by \in Announcer, sigs \in SUBSET (Voter \X Ballot \X Outcome) :
       \/ \E k \in Stake : MintVotingCoin(v, n, b, o, k, by, sigs)
       \/ \E named \in Ballot : UpdateVote(v, n, b, named, o, by, sigs)

LEMMA VoteMoves == [Next]_vars => VoteMove
  <1> SUFFICES ASSUME [Next]_vars PROVE VoteMove
    OBVIOUS
  <1>1. CASE ElectionNext
    BY <1>1 DEF ElectionNext, Register, RegisterAlone, FundCoin, Deregister,
                ReleaseAlone, VoteMove
  <1>2. CASE VoteNext
    <2>1. PICK v \in Voter, b \in Ballot, o \in Outcome :
            \/ \E n \in 1..MaxRegistrations, by \in Announcer,
                 sigs \in SUBSET {<<v, b, o>>} :
                 \/ \E k \in Stake : MintVotingCoin(v, n, b, o, k, by, sigs)
                 \/ \E d \in Ballot : UpdateVote(v, n, d, b, o, by, sigs)
            \/ SignOffChain(v, b, o)
      BY <1>2 DEF VoteNext
    <2>2. CASE SignOffChain(v, b, o)
      BY <2>2 DEF SignOffChain, VoteMove
    <2>3. \A sigs \in SUBSET {<<v, b, o>>} :
            sigs \in SUBSET (Voter \X Ballot \X Outcome)
      OBVIOUS
    <2>4. ASSUME NEW n \in 1..MaxRegistrations, NEW by \in Announcer,
                 NEW sigs \in SUBSET {<<v, b, o>>}, NEW k \in Stake,
                 MintVotingCoin(v, n, b, o, k, by, sigs)
          PROVE  VoteMove
      BY <2>3, <2>4 DEF VoteMove
    <2>5. ASSUME NEW n \in 1..MaxRegistrations, NEW by \in Announcer,
                 NEW sigs \in SUBSET {<<v, b, o>>}, NEW d \in Ballot,
                 UpdateVote(v, n, d, b, o, by, sigs)
          PROVE  VoteMove
      BY <2>3, <2>5 DEF VoteMove
    <2> QED
      BY <2>1, <2>2, <2>4, <2>5
  <1>3. CASE IssuerNext \/ FinalizeNext \/ AdvanceHeight \/ UNCHANGED vars
    BY <1>3, CoinsUntouched DEF VoteMove
  <1> QED
    BY <1>1, <1>2, <1>3 DEF Next

------------------------------------------------------------------------------
(* Sums.  SumFunctionOnSet over a finite set totals the weights of a tree  *)
(* and the amounts of a voter's coins.  The induction theorems of the      *)
(* library cannot be instantiated; the well-founded order of the numbers   *)
(* can, and gives induction over sets.                                     *)

\* Induction over the numbers, for a set of them.
LEMMA NumberInduction ==
  ASSUME NEW G \in SUBSET Nat, 0 \in G, \A n \in G : n + 1 \in G
  PROVE  G = Nat
<1> SUFFICES ASSUME Nat \ G # {} PROVE FALSE
  OBVIOUS
<1> DEFINE R == {p \in Nat \X Nat : p[1] < p[2]}
<1>1. OpToRel(<, Nat) = R
  BY DEF OpToRel
<1>2. IsWellFoundedOn(R, Nat)
  BY <1>1, NatLessThanWellFounded
<1>3. PICK n \in Nat \ G : \A m \in Nat \ G : ~(<<m, n>> \in R)
  BY <1>2, WFMin
<1>4. n # 0 /\ n - 1 \in Nat /\ n - 1 < n
  BY 0 \in G
<1>5. n - 1 \in G
  <2>1. SUFFICES ASSUME n - 1 \notin G PROVE FALSE
    OBVIOUS
  <2>2. <<n - 1, n>> \in R
    BY <1>4
  <2> QED
    BY <1>3, <1>4, <2>1, <2>2
<1> QED
  <2>1. (n - 1) + 1 \in G
    BY <1>5
  <2>2. (n - 1) + 1 = n
    OBVIOUS
  <2> QED
    BY <2>1, <2>2

\* The element a sum takes next.
Next1(T) == CHOOSE x \in T : TRUE

\* The recursion of a sum over the subsets of S.
IsSum(f, S, g) ==
  g = [T \in SUBSET S |-> IF T = {} THEN 0 ELSE f[Next1(T)] + g[T \ {Next1(T)}]]

\* Induction over the subsets of a finite set, by the removal of an element.
LEMMA RemovalInduction ==
  ASSUME NEW S, IsFiniteSet(S), NEW G \in SUBSET SUBSET S,
         {} \in G,
         \A T \in SUBSET S : T # {} /\ (\A y \in T : T \ {y} \in G) => T \in G
  PROVE  G = SUBSET S
<1> DEFINE N == {n \in Nat : \A T \in SUBSET S : Cardinality(T) <= n => T \in G}
<1>1. \A T \in SUBSET S : IsFiniteSet(T) /\ Cardinality(T) \in Nat
  BY FS_Subset, FS_CardinalityType
<1>2. 0 \in N
  <2> SUFFICES ASSUME NEW T \in SUBSET S, Cardinality(T) <= 0 PROVE T \in G
    OBVIOUS
  <2>1. Cardinality(T) = 0
    BY <1>1
  <2> QED BY <2>1, <1>1, FS_EmptySet
<1>3. ASSUME NEW n \in N PROVE n + 1 \in N
  <2>1. n \in Nat /\ n + 1 \in Nat /\ \A T \in SUBSET S : Cardinality(T) <= n => T \in G
    OBVIOUS
  <2>2. ASSUME NEW T \in SUBSET S, Cardinality(T) <= n + 1, T # {} PROVE T \in G
    <3>1. ASSUME NEW y \in T PROVE T \ {y} \in G
      <4>1. Cardinality(T \ {y}) = Cardinality(T) - 1
        BY <1>1, FS_RemoveElement
      <4>2. Cardinality(T \ {y}) <= n /\ T \ {y} \in SUBSET S
        BY <1>1, <2>1, <2>2, <4>1
      <4> QED BY <2>1, <4>2
    <3> QED BY <2>2, <3>1
  <2>3. \A T \in SUBSET S : Cardinality(T) <= n + 1 => T \in G
    BY <2>2, {} \in G
  <2> QED BY <2>1, <2>3
<1>4. N = Nat
  <2> HIDE DEF N
  <2>1. N \in SUBSET Nat
    BY DEF N
  <2> QED BY <1>2, <1>3, <2>1, NumberInduction
<1> QED BY <1>1, <1>4

\* A recursion over the subsets of a finite set defines a function.
LEMMA SumExists ==
  ASSUME NEW S, IsFiniteSet(S), NEW f
  PROVE  \E g : IsSum(f, S, g)
<1> DEFINE Small(n) == {T \in SUBSET S : Cardinality(T) <= n}
           Step(g, T) == IF T = {} THEN 0 ELSE f[Next1(T)] + g[T \ {Next1(T)}]
           N == {n \in Nat : \E g : g = [T \in Small(n) |-> Step(g, T)]}
<1>1. \A T \in SUBSET S : IsFiniteSet(T) /\ Cardinality(T) \in Nat
  BY FS_Subset, FS_CardinalityType
<1>2. \A T \in SUBSET S : T # {} => /\ T \ {Next1(T)} \in SUBSET S
                                    /\ Cardinality(T \ {Next1(T)}) = Cardinality(T) - 1
  BY <1>1, FS_RemoveElement DEF Next1
<1>3. 0 \in N
  <2> DEFINE g == [T \in Small(0) |-> 0]
  <2>1. \A T \in Small(0) : T = {}
    BY <1>1, FS_EmptySet
  <2>2. g = [T \in Small(0) |-> Step(g, T)]
    BY <2>1
  <2> QED BY <2>2
<1>4. ASSUME NEW n \in N PROVE n + 1 \in N
  <2>1. PICK g : g = [T \in Small(n) |-> Step(g, T)]
    BY <1>4
  <2> DEFINE h == [T \in Small(n + 1) |-> Step(g, T)]
  <2>2. ASSUME NEW T \in Small(n + 1) PROVE Step(g, T) = Step(h, T)
    <3>1. CASE T = {}
      BY <3>1
    <3>2. CASE T # {}
      <4> DEFINE U == T \ {Next1(T)}
      <4>1. U \in Small(n) /\ U \in Small(n + 1)
        BY <1>1, <1>2, <3>2
      <4>2. g[U] = Step(g, U)
        <5> HIDE DEF U, Step, Small
        <5> QED BY <2>1, <4>1
      <4>3. h[U] = Step(g, U)
        <5> HIDE DEF U, Step, Small
        <5> QED BY <4>1
      <4>4. h[U] = g[U]
        BY <4>2, <4>3
      <4> QED BY <4>4, <3>2
    <3> QED BY <3>1, <3>2
  <2>3. h = [T \in Small(n + 1) |-> Step(h, T)]
    BY <2>2
  <2>4. n + 1 \in Nat
    OBVIOUS
  <2> HIDE DEF h, Small, Step
  <2> QED BY <2>3, <2>4
<1>5. N = Nat
  <2> HIDE DEF N
  <2>1. N \in SUBSET Nat
    BY DEF N
  <2> QED BY <1>3, <1>4, <2>1, NumberInduction
<1>6. Small(Cardinality(S)) = SUBSET S
  BY <1>1, FS_Subset
<1>7. Cardinality(S) \in N
  BY <1>1, <1>5
<1> HIDE DEF Small
<1>8. PICK g : g = [T \in Small(Cardinality(S)) |-> Step(g, T)]
  BY <1>7
<1>9. IsSum(f, S, g)
  BY <1>6, <1>8 DEF IsSum
<1> QED BY <1>9

\* A sum is what its recursion yields.
LEMMA SumUnfolds ==
  ASSUME NEW f, NEW S
  PROVE  SumFunctionOnSet(f, S) = (CHOOSE g : IsSum(f, S, g))[S]
BY DEF SumFunctionOnSet, FoldFunctionOnSet, MapThenFoldSet, IsSum, Next1

\* One recursion serves the sums over all subsets of a finite set.
LEMMA SumOfSubset ==
  ASSUME NEW S, IsFiniteSet(S), NEW f, NEW F, IsSum(f, S, F), NEW T \in SUBSET S
  PROVE  SumFunctionOnSet(f, T) = F[T]
<1>1. IsFiniteSet(T)
  BY FS_Subset
<1>2. PICK g : IsSum(f, T, g) /\ SumFunctionOnSet(f, T) = g[T]
  BY <1>1, SumExists, SumUnfolds
<1> DEFINE G == {U \in SUBSET T : g[U] = F[U]}
<1>3. {} \in G
  BY <1>2 DEF IsSum
<1>4. ASSUME NEW U \in SUBSET T, U # {}, \A y \in U : U \ {y} \in G PROVE U \in G
  <2>1. Next1(U) \in U
    BY <1>4 DEF Next1
  <2>2. g[U] = f[Next1(U)] + g[U \ {Next1(U)}] /\ F[U] = f[Next1(U)] + F[U \ {Next1(U)}]
    BY <1>2, <1>4 DEF IsSum
  <2> QED BY <1>4, <2>1, <2>2
<1>5. G = SUBSET T
  <2> HIDE DEF G
  <2>1. G \in SUBSET SUBSET T
    BY DEF G
  <2> QED BY <1>1, <1>3, <1>4, <2>1, RemovalInduction
<1> QED BY <1>2, <1>5

\* A sum does not depend on the order its elements are taken in.
LEMMA SumAdds ==
  ASSUME NEW S, IsFiniteSet(S), NEW f \in [S -> Int], NEW T \in SUBSET S
  PROVE  /\ SumFunctionOnSet(f, {}) = 0
         /\ SumFunctionOnSet(f, T) \in Int
         /\ \A x \in S \ T :
              SumFunctionOnSet(f, T \cup {x}) = SumFunctionOnSet(f, T) + f[x]
<1>1. PICK F : IsSum(f, S, F)
  BY SumExists
<1>2. \A U \in SUBSET S : SumFunctionOnSet(f, U) = F[U]
  BY <1>1, SumOfSubset
<1>3. F[{}] = 0
  BY <1>1 DEF IsSum
<1>4. \A U \in SUBSET S : U # {} => Next1(U) \in U /\ F[U] = f[Next1(U)] + F[U \ {Next1(U)}]
  BY <1>1 DEF IsSum, Next1
<1> DEFINE G == {U \in SUBSET S : /\ F[U] \in Int
                                  /\ \A x \in S \ U : F[U \cup {x}] = F[U] + f[x]}
<1>5. {} \in G
  <2>1. ASSUME NEW x \in S PROVE F[{} \cup {x}] = F[{}] + f[x]
    <3>1. Next1({x}) = x /\ {x} \ {x} = {} /\ {} \cup {x} = {x}
      BY DEF Next1
    <3>2. F[{x}] = f[x] + F[{}]
      BY <3>1, <1>4
    <3> QED BY <3>1, <3>2, <1>3
  <2>2. \A x \in S \ {} : F[{} \cup {x}] = F[{}] + f[x]
    BY <2>1
  <2>3. F[{}] \in Int /\ {} \in SUBSET S
    BY <1>3
  <2> QED BY <2>2, <2>3
<1>6. ASSUME NEW U \in SUBSET S, U # {}, \A y \in U : U \ {y} \in G PROVE U \in G
  <2>1. F[U] \in Int
    <3>1. Next1(U) \in U /\ F[U] = f[Next1(U)] + F[U \ {Next1(U)}]
      BY <1>4, <1>6
    <3>2. F[U \ {Next1(U)}] \in Int
      BY <3>1, <1>6
    <3>3. f[Next1(U)] \in Int
      BY <3>1
    <3> QED BY <3>1, <3>2, <3>3
  <2>2. ASSUME NEW x \in S \ U PROVE F[U \cup {x}] = F[U] + f[x]
    <3> DEFINE V == U \cup {x}
               y == Next1(V)
    <3>1. y \in V /\ F[V] = f[y] + F[V \ {y}]
      BY <1>4
    <3>2. CASE y = x
      <4>1. V \ {y} = U
        BY <3>2
      <4>2. F[V] = f[x] + F[U]
        BY <4>1, <3>1, <3>2
      <4>3. f[x] \in Int
        OBVIOUS
      <4> HIDE DEF V
      <4>4. F[V] = F[U] + f[x]
        BY <4>2, <4>3, <2>1
      <4> QED BY <4>4 DEF V
    <3>3. CASE y # x
      <4> DEFINE W == U \ {y}
      <4>1. y \in U /\ V \ {y} = W \cup {x} /\ U = W \cup {y} /\ x \in S \ W /\ y \in S \ W
        BY <3>1, <3>3
      <4>2. W \in G
        BY <4>1, <1>6
      <4>3. F[W \cup {x}] = F[W] + f[x] /\ F[W \cup {y}] = F[W] + f[y] /\ F[W] \in Int
        <5> HIDE DEF W, y
        <5> QED BY <4>1, <4>2
      <4>4. f[x] \in Int /\ f[y] \in Int
        BY <4>1
      <4>5. F[V] = f[y] + (F[W] + f[x]) /\ F[U] = F[W] + f[y]
        <5> HIDE DEF W, y, V
        <5> QED BY <3>1, <4>1, <4>3
      <4>6. F[V] = F[U] + f[x]
        <5> HIDE DEF W, y, V
        <5> QED BY <4>3, <4>4, <4>5
      <4> QED BY <4>6
    <3> QED BY <3>2, <3>3
  <2> QED BY <2>1, <2>2
<1>7. G = SUBSET S
  <2> HIDE DEF G
  <2>1. G \in SUBSET SUBSET S
    BY DEF G
  <2> QED BY <1>5, <1>6, <2>1, RemovalInduction
<1>8. F[T] \in Int /\ \A x \in S \ T : F[T \cup {x}] = F[T] + f[x]
  BY <1>7
<1>9. \A x \in S \ T : SumFunctionOnSet(f, T \cup {x}) = F[T \cup {x}]
  <2> TAKE x \in S \ T
  <2>1. T \cup {x} \in SUBSET S
    OBVIOUS
  <2> QED BY <2>1, <1>2
<1>10. SumFunctionOnSet(f, {}) = 0 /\ SumFunctionOnSet(f, T) = F[T]
  BY <1>2, <1>3
<1> QED BY <1>8, <1>9, <1>10

\* An element of the set taken out of a sum.
LEMMA SumWithout ==
  ASSUME NEW S, IsFiniteSet(S), NEW f \in [S -> Int], NEW T \in SUBSET S, NEW x \in T
  PROVE  /\ SumFunctionOnSet(f, T) = SumFunctionOnSet(f, T \ {x}) + f[x]
         /\ SumFunctionOnSet(f, T \ {x}) \in Int
<1>1. T \ {x} \in SUBSET S /\ x \in S \ (T \ {x}) /\ (T \ {x}) \cup {x} = T
  OBVIOUS
<1> DEFINE U == T \ {x}
<1> HIDE DEF U
<1>2. U \in SUBSET S /\ x \in S \ U /\ U \cup {x} = T
  BY <1>1 DEF U
<1>3. /\ SumFunctionOnSet(f, U) \in Int
      /\ \A y \in S \ U : SumFunctionOnSet(f, U \cup {y}) = SumFunctionOnSet(f, U) + f[y]
  BY <1>2, SumAdds
<1> QED BY <1>2, <1>3 DEF U

\* The sum over one element.
LEMMA SumOfOne ==
  ASSUME NEW S, IsFiniteSet(S), NEW f \in [S -> Int], NEW x \in S
  PROVE  SumFunctionOnSet(f, {x}) = f[x]
<1>1. {x} \in SUBSET S /\ x \in {x} /\ {x} \ {x} = {} /\ f[x] \in Int
  OBVIOUS
<1> DEFINE T == {x}
<1> HIDE DEF T
<1>2. T \in SUBSET S /\ x \in T /\ T \ {x} = {}
  BY <1>1 DEF T
<1>3. SumFunctionOnSet(f, T) = SumFunctionOnSet(f, {}) + f[x]
  BY <1>2, SumWithout
<1>4. SumFunctionOnSet(f, {}) = 0
  BY SumAdds
<1> QED BY <1>1, <1>3, <1>4 DEF T

\* Changing a function at x changes its sum by as much.
LEMMA SumChanges ==
  ASSUME NEW S, IsFiniteSet(S), NEW x \in S, NEW f \in [S -> Int], NEW h \in [S -> Int],
         \A y \in S \ {x} : h[y] = f[y]
  PROVE  /\ SumFunctionOnSet(f, S) \in Int
         /\ SumFunctionOnSet(h, S) = SumFunctionOnSet(f, S) + h[x] - f[x]
<1> DEFINE A(T) == SumFunctionOnSet(f, T)
           B(T) == SumFunctionOnSet(h, T)
           G == {T \in SUBSET S : x \notin T => A(T) = B(T)}
<1>1. {} \in G
  BY SumAdds
<1>2. ASSUME NEW T \in SUBSET S, T # {}, \A y \in T : T \ {y} \in G PROVE T \in G
  <2> SUFFICES ASSUME x \notin T PROVE A(T) = B(T)
    OBVIOUS
  <2>1. PICK y \in T : TRUE
    BY <1>2
  <2>2. A(T) = A(T \ {y}) + f[y] /\ B(T) = B(T \ {y}) + h[y]
    BY <2>1, SumWithout
  <2>3. A(T \ {y}) = B(T \ {y})
    BY <1>2, <2>1
  <2> QED BY <2>1, <2>2, <2>3
<1>3. G = SUBSET S
  <2> HIDE DEF G
  <2>1. G \in SUBSET SUBSET S
    BY DEF G
  <2> QED BY <1>1, <1>2, <2>1, RemovalInduction
<1>4. A(S \ {x}) = B(S \ {x})
  BY <1>3
<1>5. A(S) = A(S \ {x}) + f[x] /\ B(S) = B(S \ {x}) + h[x] /\ A(S \ {x}) \in Int
  BY SumWithout
<1>6. f[x] \in Int /\ h[x] \in Int
  OBVIOUS
<1> HIDE DEF A, B
<1>7. A(S) \in Int /\ B(S) = A(S) + h[x] - f[x]
  BY <1>4, <1>5, <1>6
<1> QED BY <1>7 DEF A, B

\* A sum of zeros is zero.
LEMMA SumOfZeros ==
  ASSUME NEW S, IsFiniteSet(S), NEW f \in [S -> Int], \A y \in S : f[y] = 0
  PROVE  SumFunctionOnSet(f, S) = 0
<1> DEFINE A(T) == SumFunctionOnSet(f, T)
           G == {T \in SUBSET S : A(T) = 0}
<1>1. {} \in G
  BY SumAdds
<1>2. ASSUME NEW T \in SUBSET S, T # {}, \A y \in T : T \ {y} \in G PROVE T \in G
  <2>1. PICK y \in T : TRUE
    BY <1>2
  <2>2. A(T) = A(T \ {y}) + f[y]
    BY <2>1, SumWithout
  <2> QED BY <1>2, <2>1, <2>2
<1>3. G = SUBSET S
  <2> HIDE DEF G
  <2>1. G \in SUBSET SUBSET S
    BY DEF G
  <2> QED BY <1>1, <1>2, <2>1, RemovalInduction
<1> QED BY <1>3

\* What a part of the set contributes to a sum of numbers is at most the sum.
LEMMA SumOfPart ==
  ASSUME NEW S, IsFiniteSet(S), NEW f \in [S -> Nat], NEW P \in SUBSET S
  PROVE  /\ SumFunctionOnSet(f, P) <= SumFunctionOnSet(f, S)
         /\ SumFunctionOnSet(f, P) \in Nat
         /\ SumFunctionOnSet(f, S) \in Nat
<1> DEFINE A(T) == SumFunctionOnSet(f, T)
           G == {T \in SUBSET S : /\ A(T) \in Nat /\ A(T \cap P) \in Nat
                                  /\ A(T \cap P) <= A(T)}
<1>0. f \in [S -> Int]
  OBVIOUS
<1>1. {} \in G
  <2>1. A({}) = 0 /\ {} \cap P = {}
    BY <1>0, SumAdds
  <2> QED BY <2>1
<1>2. ASSUME NEW T \in SUBSET S, T # {}, \A y \in T : T \ {y} \in G PROVE T \in G
  <2>1. PICK y \in T : TRUE
    BY <1>2
  <2> DEFINE U == T \ {y}
  <2>2. A(T) = A(U) + f[y]
    BY <1>0, <2>1, SumWithout
  <2>3. f[y] \in Nat
    BY <2>1
  <2>4. /\ A(U) \in Nat /\ A(U \cap P) \in Nat
        /\ A(U \cap P) <= A(U)
    BY <1>2, <2>1
  <2>5. CASE y \in P
    <3>1. y \in T \cap P /\ (T \cap P) \ {y} = U \cap P /\ T \cap P \in SUBSET S
      BY <2>1, <2>5
    <3>2. A(T \cap P) = A((T \cap P) \ {y}) + f[y]
      BY <1>0, <3>1, SumWithout
    <3>3. A(T \cap P) = A(U \cap P) + f[y]
      BY <3>1, <3>2
    <3> HIDE DEF A, U
    <3> QED BY <3>3, <2>2, <2>3, <2>4
  <2>6. CASE y \notin P
    <3>1. T \cap P = U \cap P
      BY <2>6
    <3> HIDE DEF A, U
    <3> QED BY <3>1, <2>2, <2>3, <2>4
  <2> QED BY <2>5, <2>6
<1>3. G = SUBSET S
  <2> HIDE DEF G
  <2>1. G \in SUBSET SUBSET S
    BY DEF G
  <2> QED BY <1>1, <1>2, <2>1, RemovalInduction
<1>4. S \in G /\ S \cap P = P
  BY <1>3
<1> QED BY <1>4

------------------------------------------------------------------------------
(* The weight of a tree *)

LeafWeights(t) == [s \in Slot |-> t[s].locked]

\* The weight of a tree moves by what one leaf gains or loses.
LEMMA TreeWeightMoves ==
  ASSUME NEW t \in [Slot -> Leaf], NEW s \in Slot, NEW l \in Leaf
  PROVE  LET u == [t EXCEPT ![s] = l] IN
         /\ TreeWeight(t) \in Int
         /\ TreeWeight(u) = TreeWeight(t) + l.locked - t[s].locked
  <1> DEFINE u == [t EXCEPT ![s] = l]
             f == LeafWeights(t)
             h == LeafWeights(u)
  <1>1. f \in [Slot -> Int] /\ h \in [Slot -> Int]
    BY DEF Leaf, LeafWeights
  <1>2. \A y \in Slot \ {s} : h[y] = f[y]
    BY DEF LeafWeights
  <1>3. h[s] = l.locked /\ f[s] = t[s].locked
    BY DEF LeafWeights
  <1>4. TreeWeight(t) = SumFunctionOnSet(f, Slot)
    BY DEF TreeWeight, LeafWeights
  <1>5. TreeWeight(u) = SumFunctionOnSet(h, Slot)
    BY DEF TreeWeight, LeafWeights
  <1>6. /\ SumFunctionOnSet(f, Slot) \in Int
        /\ SumFunctionOnSet(h, Slot) = SumFunctionOnSet(f, Slot) + h[s] - f[s]
    <2> HIDE DEF f, h
    <2> QED
      BY <1>1, <1>2, FiniteAssumption, SumChanges
  <1> QED
    BY <1>3, <1>4, <1>5, <1>6

\* The tree of a new election weighs nothing, as its curried state says.
LEMMA EmptyTreeWeighsNothing == TreeWeight(EmptyTree) = 0
  <1> DEFINE f == LeafWeights(EmptyTree)
  <1>1. f \in [Slot -> Int] /\ \A s \in Slot : f[s] = 0
    BY DEF LeafWeights, EmptyTree, EmptyLeaf
  <1>2. TreeWeight(EmptyTree) = SumFunctionOnSet(f, Slot)
    BY DEF TreeWeight, LeafWeights
  <1> HIDE DEF f
  <1> QED
    BY <1>1, <1>2, FiniteAssumption, SumOfZeros

\* A weight that is the total of the tree beside it, each of whose leaves is
\* empty or locks the minimum.
Totals(t, w) ==
  /\ w = TreeWeight(t)
  /\ \A s \in Slot : t[s] = EmptyLeaf \/ t[s].locked >= CollateralAmount

\* A vote changes neither the election nor a ballot.
LEMMA VotesElsewhere == VoteNext => UNCHANGED <<tree, weight, ballot>>
  <1>1. ASSUME NEW v, NEW n, NEW b, NEW o, NEW k, NEW by, NEW sigs,
               MintVotingCoin(v, n, b, o, k, by, sigs)
        PROVE  UNCHANGED <<tree, weight, ballot>>
    BY <1>1 DEF MintVotingCoin, electionVars
  <1>2. ASSUME NEW v, NEW n, NEW b, NEW c, NEW o, NEW by, NEW sigs,
               UpdateVote(v, n, b, c, o, by, sigs)
        PROVE  UNCHANGED <<tree, weight, ballot>>
    BY <1>2 DEF UpdateVote, electionVars
  <1>3. ASSUME NEW v, NEW b, NEW o, SignOffChain(v, b, o)
        PROVE  UNCHANGED <<tree, weight, ballot>>
    BY <1>3 DEF SignOffChain, electionVars
  <1> QED
    BY <1>1, <1>2, <1>3 DEF VoteNext

\* Register adds what its new leaf locks, deregister takes the leaf's weight.
LEMMA ElectionTotals ==
  ASSUME TypeInv, Totals(tree, weight), [Next]_vars
  PROVE  Totals(tree', weight')
  <1>types. /\ tree \in [Slot -> Leaf]
            /\ weight \in Int
            /\ SlotOf \in [Voter -> Slot]
            /\ CollateralAmount \in Nat
            /\ Amount \subseteq Nat
            /\ EmptyLeaf \in Leaf
    BY ConstantsAssumption, CoinTypes DEF TypeInv, TypeOK
  <1>1. ASSUME NEW v \in Voter, NEW amount \in Amount,
               CanRegister(v, amount), AddLeaf(v, amount)
        PROVE  Totals(tree', weight')
    <2> DEFINE l == [pk |-> v, locked |-> amount]
    <2>1. l \in Leaf /\ l.locked = amount /\ amount >= CollateralAmount
      BY <1>1, <1>types DEF Leaf, CanRegister, SufficientCollateral
    <2>2. tree' = [tree EXCEPT ![SlotOf[v]] = l] /\ tree[SlotOf[v]] = EmptyLeaf
          /\ weight' = weight + amount
      BY <1>1 DEF CanRegister, AddLeaf
    <2>3. TreeWeight(tree') = TreeWeight(tree) + amount - 0 /\ TreeWeight(tree) \in Int
      <3> HIDE DEF l
      <3>1. tree[SlotOf[v]].locked = 0
        BY <2>2 DEF EmptyLeaf
      <3> QED
        BY <2>1, <2>2, <3>1, <1>types, TreeWeightMoves
    <2>4. weight' = TreeWeight(tree')
      BY <2>1, <2>2, <2>3, <1>types DEF Totals
    <2>5. \A s \in Slot : tree'[s] = EmptyLeaf \/ tree'[s].locked >= CollateralAmount
      BY <2>1, <2>2, <1>types DEF Totals
    <2> QED
      BY <2>4, <2>5 DEF Totals
  <1>2. ASSUME NEW v \in Voter, NEW R \in SUBSET (1..MaxRegistrations),
               Deregister(v, R)
        PROVE  Totals(tree', weight')
    <2>1. tree' = [tree EXCEPT ![SlotOf[v]] = EmptyLeaf]
          /\ weight' = weight - tree[SlotOf[v]].locked
      BY <1>2 DEF Deregister, RecoveredWeight
    <2>2. EmptyLeaf.locked = 0 /\ tree[SlotOf[v]].locked \in Int
      BY <1>types DEF EmptyLeaf, Leaf
    <2>3. TreeWeight(tree') = TreeWeight(tree) + EmptyLeaf.locked - tree[SlotOf[v]].locked
          /\ TreeWeight(tree) \in Int
      BY <2>1, <1>types, TreeWeightMoves
    <2>4. weight' = TreeWeight(tree')
      BY <2>1, <2>2, <2>3 DEF Totals
    <2>5. \A s \in Slot : tree'[s] = EmptyLeaf \/ tree'[s].locked >= CollateralAmount
      BY <2>1, <1>types DEF Totals
    <2> QED
      BY <2>4, <2>5 DEF Totals
  <1>3. CASE UNCHANGED <<tree, weight>>
    BY <1>3
  <1>4. CASE ElectionNext
    BY <1>4, <1>1, <1>2, <1>3
    DEF ElectionNext, Register, RegisterAlone, FundCoin, ReleaseAlone, electionVars
  <1>5. CASE VoteNext
    BY <1>5, <1>3, VotesElsewhere
  <1>6. CASE IssuerNext \/ FinalizeNext \/ AdvanceHeight \/ UNCHANGED vars
    BY <1>6, <1>3, CoinsUntouched DEF electionVars
  <1> QED
    BY <1>4, <1>5, <1>6 DEF Next

\* registration_count and registration_vote_weight are exact in every state
\* of every election, though no puzzle ever recomputes them.
THEOREM RegistrationTotalsTheorem == Spec => []RegistrationTotals
  <1>1. Init => Totals(tree, weight)
    BY EmptyTreeWeighsNothing DEF Init, Totals, EmptyTree
  <1>2. TypeInv /\ Totals(tree, weight) /\ [Next]_vars => Totals(tree, weight)'
    <2>1. Totals(tree, weight)' <=> Totals(tree', weight')
      BY DEF Totals, TreeWeight, EmptyLeaf
    <2> QED
      BY <2>1, ElectionTotals
  <1>3. TypeInv /\ Totals(tree, weight) => RegistrationTotals
    BY DEF TypeInv, CountIsExact, Occupied, Totals, RegistrationTotals
  <1> QED
    BY TypeInit, TypeStep, <1>1, <1>2, <1>3, PTL DEF Spec

------------------------------------------------------------------------------
(* Collateral *)

\* The amounts of the coins minted from v's n-th registration, by ballot.
Stakes(v, n) == [b \in Ballot |-> votingCoin[<<v, n, b>>].amount]

\* A Voting Coin that was never minted holds nothing.
UnmintedIsEmpty ==
  \A k \in VotingCoinId : ~Minted(k) => votingCoin[k].amount = 0

\* The Registration Coin behind a Voting Coin exists and has recorded it: a
\* coin created later for the same voter starts with a record of its own.
MintsAreRecorded ==
  \A v \in Voter, n \in 1..MaxRegistrations, b \in Ballot :
    Minted(<<v, n, b>>) =>
      /\ regCoin[<<v, n>>].status # "none"
      /\ b \in regCoin[<<v, n>>].voted

ConservedInv == CollateralIsConserved /\ UnmintedIsEmpty /\ MintsAreRecorded

\* The coins of a registration hold whole amounts.
LEMMA StakesType ==
  ASSUME TypeInv, TypeInv', NEW v \in Voter, NEW n \in 1..MaxRegistrations
  PROVE  Stakes(v, n) \in [Ballot -> Int] /\ Stakes(v, n)' \in [Ballot -> Int]
  <1>1. ASSUME NEW b \in Ballot
        PROVE  votingCoin[<<v, n, b>>].amount \in Int
               /\ votingCoin'[<<v, n, b>>].amount \in Int
    <2>1. <<v, n, b>> \in VotingCoinId
      BY DEF VotingCoinId
    <2> QED
      BY <2>1 DEF TypeInv, TypeOK, VotingCoin
  <1> QED
    BY <1>1 DEF Stakes

LEMMA ConservedInit == Init => ConservedInv
  <1> SUFFICES ASSUME Init PROVE ConservedInv
    OBVIOUS
  <1>1. UnmintedIsEmpty
    BY DEF Init, UnmintedIsEmpty
  <1>2. ASSUME NEW v \in Voter, NEW n \in 1..MaxRegistrations
        PROVE  regCoin[<<v, n>>].locked =
                 regCoin[<<v, n>>].amount
                   + SumFunctionOnSet([b \in Ballot |-> votingCoin[<<v, n, b>>].amount],
                                      Ballot)
    <2>1. Stakes(v, n) \in [Ballot -> Int] /\ \A b \in Ballot : Stakes(v, n)[b] = 0
      BY DEF Init, Stakes, VotingCoinId
    <2>2. SumFunctionOnSet(Stakes(v, n), Ballot) = 0
      BY <2>1, FiniteAssumption, SumOfZeros
    <2>3. regCoin[<<v, n>>].locked = 0 /\ regCoin[<<v, n>>].amount = 0
      BY DEF Init, NoRegCoin, RegistrationId
    <2> QED
      BY <2>2, <2>3 DEF Stakes
  <1>3. MintsAreRecorded
    BY DEF Init, MintsAreRecorded, Minted, VotingCoinId
  <1> QED
    BY <1>1, <1>2, <1>3 DEF ConservedInv, CollateralIsConserved

\* What a Voting Coin's id holds changes with its own mint or update, and what
\* is minted stays minted.
LEMMA VotingCoinMoves ==
  ASSUME TypeInv, [Next]_vars, NEW k \in VotingCoinId
  PROVE  /\ Minted(k) => Minted(k)'
         /\ ~Minted(k)' => votingCoin'[k] = votingCoin[k]
  <1>types. votingCoin \in [VotingCoinId -> VotingCoin] /\ NoOutcome \notin Outcome
    BY ConstantsAssumption DEF TypeInv, TypeOK
  <1>1. CASE UNCHANGED votingCoin
    BY <1>1 DEF Minted
  <1>2. ASSUME NEW j \in VotingCoinId, NEW coin, coin.vote \in Outcome,
               votingCoin' = [votingCoin EXCEPT ![j] = coin]
        PROVE  /\ Minted(k) => Minted(k)'
               /\ ~Minted(k)' => votingCoin'[k] = votingCoin[k]
    BY <1>2, <1>types DEF Minted
  <1>3. ASSUME NEW v \in Voter, NEW n \in 1..MaxRegistrations, NEW b \in Ballot,
               NEW o \in Outcome, NEW amount, NEW by, NEW sigs,
               MintVotingCoin(v, n, b, o, amount, by, sigs)
        PROVE  \E j \in VotingCoinId : \E coin :
                 /\ coin.vote \in Outcome
                 /\ votingCoin' = [votingCoin EXCEPT ![j] = coin]
    <2> DEFINE coin == [vote |-> o, cast |-> b, at |-> height, amount |-> amount]
    <2>1. <<v, n, b>> \in VotingCoinId /\ coin.vote \in Outcome
      BY DEF VotingCoinId
    <2>2. votingCoin' = [votingCoin EXCEPT ![<<v, n, b>>] = coin]
      BY <1>3 DEF MintVotingCoin
    <2> HIDE DEF coin
    <2> QED
      BY <2>1, <2>2
  <1>4. ASSUME NEW v \in Voter, NEW n \in 1..MaxRegistrations, NEW b \in Ballot,
               NEW o \in Outcome, NEW named, NEW by, NEW sigs,
               UpdateVote(v, n, b, named, o, by, sigs)
        PROVE  \E j \in VotingCoinId : \E coin :
                 /\ coin.vote \in Outcome
                 /\ votingCoin' = [votingCoin EXCEPT ![j] = coin]
    <2> DEFINE coin == [votingCoin[<<v, n, b>>]
                          EXCEPT !.vote = o, !.cast = named, !.at = height]
    <2>1. <<v, n, b>> \in VotingCoinId
      BY DEF VotingCoinId
    <2>2. coin.vote \in Outcome
      BY <2>1, <1>types DEF VotingCoin
    <2>3. votingCoin' = [votingCoin EXCEPT ![<<v, n, b>>] = coin]
      BY <1>4 DEF UpdateVote
    <2> HIDE DEF coin
    <2> QED
      BY <2>1, <2>2, <2>3
  <1> QED
    BY <1>1, <1>2, <1>3, <1>4, VoteMoves DEF VoteMove

\* A new Voting Coin comes with its mark in the Registration Coin it is minted
\* from, and no coin loses a mark.
LEMMA RecordedStep ==
  ASSUME TypeInv, MintsAreRecorded, [Next]_vars
  PROVE  MintsAreRecorded'
  <1> SUFFICES ASSUME NEW v \in Voter, NEW n \in 1..MaxRegistrations,
                      NEW b \in Ballot, Minted(<<v, n, b>>)'
               PROVE  /\ regCoin'[<<v, n>>].status # "none"
                      /\ b \in regCoin'[<<v, n>>].voted
    BY DEF MintsAreRecorded
  <1>types. /\ regCoin \in [RegistrationId -> RegCoin]
            /\ votingCoin \in [VotingCoinId -> VotingCoin]
            /\ <<v, n>> \in RegistrationId
            /\ <<v, n, b>> \in VotingCoinId
    BY DEF TypeInv, TypeOK, RegistrationId, VotingCoinId
  <1>1. CASE Minted(<<v, n, b>>)
    <2>1. regCoin[<<v, n>>].status # "none" /\ b \in regCoin[<<v, n>>].voted
      BY <1>1 DEF MintsAreRecorded
    <2> QED
      BY <2>1, <1>types, RegCoinMoves DEF RegCoinMove
  <1>2. CASE ~Minted(<<v, n, b>>)
    <2>0. votingCoin'[<<v, n, b>>] # votingCoin[<<v, n, b>>]
      BY <1>2 DEF Minted
    <2>1. PICK w \in Voter, m \in 1..MaxRegistrations, c \in Ballot, o \in Outcome,
               by \in Announcer, sigs \in SUBSET (Voter \X Ballot \X Outcome) :
            \/ \E k \in Stake : MintVotingCoin(w, m, c, o, k, by, sigs)
            \/ \E named \in Ballot : UpdateVote(w, m, c, named, o, by, sigs)
      BY <2>0, VoteMoves DEF VoteMove
    <2>2. ASSUME NEW k \in Stake, MintVotingCoin(w, m, c, o, k, by, sigs)
          PROVE  /\ regCoin'[<<v, n>>].status # "none"
                 /\ b \in regCoin'[<<v, n>>].voted
      <3>1. <<w, m, c>> = <<v, n, b>>
        BY <2>0, <2>2, <1>types DEF MintVotingCoin
      <3>2. w = v /\ m = n /\ c = b
        BY <3>1
      <3>3. regCoin[<<v, n>>].status = "live"
        BY <2>2, <3>2 DEF MintVotingCoin, CanMint, Mintable
      <3> QED
        BY <2>2, <3>2, <3>3, <1>types DEF MintVotingCoin, RegCoin
    <2>3. ASSUME NEW named \in Ballot, UpdateVote(w, m, c, named, o, by, sigs)
          PROVE  FALSE
      <3>1. <<w, m, c>> = <<v, n, b>>
        BY <2>0, <2>3, <1>types DEF UpdateVote
      <3> QED
        BY <2>3, <3>1, <1>2 DEF UpdateVote, CanUpdate
    <2> QED
      BY <2>1, <2>2, <2>3
  <1> QED
    BY <1>1, <1>2

\* What an empty Voting Coin holds changes with its mint alone.
LEMMA UnmintedStep ==
  ASSUME TypeInv, UnmintedIsEmpty, [Next]_vars
  PROVE  UnmintedIsEmpty'
  BY VotingCoinMoves DEF UnmintedIsEmpty

\* A registration's coins hold together what they held, unless it is new.
LEMMA ConservedStep ==
  ASSUME TypeInv, TypeInv', ConservedInv, [Next]_vars
  PROVE  CollateralIsConserved'
  <1> SUFFICES ASSUME NEW v \in Voter, NEW n \in 1..MaxRegistrations
               PROVE  regCoin'[<<v, n>>].locked =
                        regCoin'[<<v, n>>].amount
                          + SumFunctionOnSet([b \in Ballot |-> votingCoin'[<<v, n, b>>].amount],
                                             Ballot)
    BY DEF CollateralIsConserved
  <1> DEFINE c == <<v, n>>
             Held == SumFunctionOnSet(Stakes(v, n), Ballot)
             Held2 == SumFunctionOnSet(Stakes(v, n)', Ballot)
  <1>goal. SUFFICES regCoin'[c].locked = regCoin'[c].amount + Held2
    BY DEF Stakes
  <1>types. /\ regCoin \in [RegistrationId -> RegCoin]
            /\ votingCoin \in [VotingCoinId -> VotingCoin]
            /\ c \in RegistrationId
            /\ IsFiniteSet(Ballot)
    BY FiniteAssumption DEF TypeInv, TypeOK, RegistrationId
  <1>stakes. Stakes(v, n) \in [Ballot -> Int] /\ Stakes(v, n)' \in [Ballot -> Int]
    BY StakesType
  <1>old. regCoin[c].locked = regCoin[c].amount + Held
    BY DEF ConservedInv, CollateralIsConserved, Stakes
  <1>unminted. ASSUME NEW b \in Ballot, regCoin[c].status = "none" \/ b \notin regCoin[c].voted
               PROVE  Stakes(v, n)[b] = 0
    <2>1. <<v, n, b>> \in VotingCoinId /\ ~Minted(<<v, n, b>>)
      BY <1>unminted DEF VotingCoinId, ConservedInv, MintsAreRecorded
    <2> QED
      BY <2>1 DEF ConservedInv, UnmintedIsEmpty, Stakes
  <1>same. ASSUME regCoin'[c].locked = regCoin[c].locked,
                  regCoin'[c].amount = regCoin[c].amount,
                  Stakes(v, n)' = Stakes(v, n)
           PROVE  regCoin'[c].locked = regCoin'[c].amount + Held2
    BY <1>same, <1>old
  <1>1. ASSUME NEW w \in Voter, NEW m \in 1..MaxRegistrations,
               NEW held \in Nat, NewCoin(w, m), CreateCoin(w, m, held),
               votingCoin' = votingCoin
        PROVE  regCoin'[c].locked = regCoin'[c].amount + Held2
    <2>0. Stakes(v, n)' = Stakes(v, n)
      BY <1>1 DEF Stakes
    <2>1. CASE c = <<w, m>>
      <3>1. regCoin[c].status = "none"
        BY <1>1, <2>1 DEF NewCoin
      <3>2. \A b \in Ballot : Stakes(v, n)'[b] = 0
        BY <1>unminted, <2>0, <3>1
      <3>3. Held2 = 0
        BY <3>2, <1>stakes, <1>types, SumOfZeros
      <3>4. regCoin'[c].locked = held /\ regCoin'[c].amount = held
        BY <1>1, <2>1, <1>types DEF CreateCoin
      <3> QED
        BY <3>3, <3>4
    <2>2. CASE c # <<w, m>>
      <3>1. regCoin'[c] = regCoin[c]
        BY <1>1, <2>2, <1>types DEF CreateCoin
      <3> QED
        BY <2>0, <3>1, <1>same
    <2> QED
      BY <2>1, <2>2
  <1>2. ASSUME NEW w \in Voter, NEW R, regCoin' = Released(w, R),
               votingCoin' = votingCoin
        PROVE  regCoin'[c].locked = regCoin'[c].amount + Held2
    <2>1. Stakes(v, n)' = Stakes(v, n)
      BY <1>2 DEF Stakes
    <2>2. regCoin'[c] = IF c[1] = w /\ c[2] \in R
                          THEN [regCoin[c] EXCEPT !.status = "released"]
                          ELSE regCoin[c]
      BY <1>2, <1>types DEF Released
    <2>3. regCoin'[c].locked = regCoin[c].locked /\ regCoin'[c].amount = regCoin[c].amount
      BY <2>2, <1>types DEF RegCoin
    <2> QED
      BY <2>1, <2>3, <1>same
  <1>3. ASSUME NEW w \in Voter, NEW m \in 1..MaxRegistrations, NEW b \in Ballot,
               NEW o \in Outcome, NEW k \in Stake, NEW by, NEW sigs,
               MintVotingCoin(w, m, b, o, k, by, sigs)
        PROVE  regCoin'[c].locked = regCoin'[c].amount + Held2
    <2>0. k \in Nat
      BY ConstantsAssumption
    <2> DEFINE coin == [vote |-> o, cast |-> b, at |-> height, amount |-> k]
    <2>1. votingCoin' = [votingCoin EXCEPT ![<<w, m, b>>] = coin] /\ coin.amount = k
      BY <1>3 DEF MintVotingCoin
    <2> HIDE DEF coin
    <2>2. CASE c = <<w, m>>
      <3>1. w = v /\ m = n
        BY <2>2
      <3>2. b \notin regCoin[c].voted
        BY <1>3, <2>2 DEF MintVotingCoin, CanMint
      <3>3. \A d \in Ballot \ {b} : Stakes(v, n)'[d] = Stakes(v, n)[d]
        <4>1. ASSUME NEW d \in Ballot \ {b}
              PROVE  votingCoin'[<<v, n, d>>] = votingCoin[<<v, n, d>>]
          <5>1. <<v, n, d>> \in VotingCoinId /\ <<v, n, d>> # <<w, m, b>>
            BY DEF VotingCoinId
          <5> QED
            BY <2>1, <5>1, <1>types
        <4> QED
          BY <4>1 DEF Stakes
      <3>4. Stakes(v, n)'[b] = k
        <4>1. <<v, n, b>> \in VotingCoinId
          BY DEF VotingCoinId
        <4>2. votingCoin'[<<v, n, b>>].amount = k
          BY <2>1, <3>1, <4>1, <1>types
        <4> QED
          BY <4>2 DEF Stakes
      <3>5. Stakes(v, n)[b] = 0
        BY <3>2, <1>unminted
      <3> DEFINE f == Stakes(v, n)
                 h == Stakes(v, n)'
      <3>6. /\ SumFunctionOnSet(f, Ballot) \in Int
            /\ SumFunctionOnSet(h, Ballot) = SumFunctionOnSet(f, Ballot) + h[b] - f[b]
        <4>1. f \in [Ballot -> Int] /\ h \in [Ballot -> Int]
              /\ \A d \in Ballot \ {b} : h[d] = f[d]
          BY <1>stakes, <3>3
        <4> HIDE DEF f, h
        <4> QED
          BY <4>1, <1>types, SumChanges
      <3>7. Held2 = Held + k /\ Held \in Int
        BY <3>4, <3>5, <3>6, <2>0
      <3>8. /\ regCoin'[c].locked = regCoin[c].locked
            /\ regCoin'[c].amount = regCoin[c].amount - k
        <4> DEFINE old == regCoin[<<w, m>>]
                   new == [old EXCEPT !.voted = old.voted \cup {b},
                                      !.amount = Residual(old.amount, k)]
        <4>1. old \in RegCoin
          BY <1>types DEF RegistrationId
        <4>2. regCoin' = [regCoin EXCEPT ![<<w, m>>] = new]
          BY <1>3, <4>1, <1>types DEF MintVotingCoin, RegCoin
        <4>3. new.locked = old.locked /\ new.amount = old.amount - k
          BY <4>1 DEF RegCoin, Residual
        <4> HIDE DEF new
        <4> QED
          BY <4>2, <4>3, <2>2, <1>types
      <3>9. regCoin[c].locked \in Int /\ regCoin[c].amount \in Int
        BY <1>types DEF RegCoin
      <3> HIDE DEF Held, Held2, c
      <3> QED
        BY <3>7, <3>8, <3>9, <1>old, <2>0
    <2>3. CASE c # <<w, m>>
      <3>1. regCoin'[c] = regCoin[c]
        BY <1>3, <2>3, <1>types DEF MintVotingCoin
      <3>2. ASSUME NEW d \in Ballot
            PROVE  votingCoin'[<<v, n, d>>] = votingCoin[<<v, n, d>>]
        <4>1. <<v, n, d>> \in VotingCoinId /\ <<v, n, d>> # <<w, m, b>>
          BY <2>3 DEF VotingCoinId
        <4> QED
          BY <2>1, <4>1, <1>types
      <3>3. Stakes(v, n)' = Stakes(v, n)
        BY <3>2 DEF Stakes
      <3> QED
        BY <3>1, <3>3, <1>same
    <2> QED
      BY <2>2, <2>3
  <1>4. ASSUME NEW w \in Voter, NEW m \in 1..MaxRegistrations, NEW b \in Ballot,
               NEW d \in Ballot, NEW o \in Outcome, NEW by, NEW sigs,
               UpdateVote(w, m, b, d, o, by, sigs)
        PROVE  regCoin'[c].locked = regCoin'[c].amount + Held2
    <2>1. regCoin' = regCoin
      BY <1>4 DEF UpdateVote
    <2> DEFINE coin == [votingCoin[<<w, m, b>>]
                          EXCEPT !.vote = o, !.cast = d, !.at = height]
    <2>2. votingCoin' = [votingCoin EXCEPT ![<<w, m, b>>] = coin]
      BY <1>4 DEF UpdateVote
    <2>3. <<w, m, b>> \in VotingCoinId
      BY DEF VotingCoinId
    <2>4. coin.amount = votingCoin[<<w, m, b>>].amount
      BY <2>3, <1>types DEF VotingCoin
    <2> HIDE DEF coin
    <2>5. ASSUME NEW e \in Ballot
          PROVE  votingCoin'[<<v, n, e>>].amount = votingCoin[<<v, n, e>>].amount
      <3>1. <<v, n, e>> \in VotingCoinId
        BY DEF VotingCoinId
      <3> QED
        BY <2>2, <2>4, <3>1, <1>types
    <2>6. Stakes(v, n)' = Stakes(v, n)
      BY <2>5 DEF Stakes
    <2> QED
      BY <2>1, <2>6, <1>same
  <1>5. ASSUME UNCHANGED <<regCoin, votingCoin>>
        PROVE  regCoin'[c].locked = regCoin'[c].amount + Held2
    <2>1. Stakes(v, n)' = Stakes(v, n)
      BY <1>5 DEF Stakes
    <2> QED
      BY <1>5, <2>1, <1>same
  <1> HIDE DEF c, Held2
  <1>6. CASE ElectionNext
    <2>1. PICK w \in Voter :
            \/ \E m \in 1..MaxRegistrations, amount \in Amount :
                 Register(w, m, amount) \/ FundCoin(w, m, amount)
            \/ \E amount \in Amount : RegisterAlone(w, amount)
            \/ \E R \in SUBSET (1..MaxRegistrations) : Deregister(w, R)
            \/ \E m \in 1..MaxRegistrations : ReleaseAlone(w, m)
      BY <1>6 DEF ElectionNext
    <2>2. ASSUME NEW m \in 1..MaxRegistrations, NEW amount \in Amount,
                 Register(w, m, amount) \/ FundCoin(w, m, amount)
          PROVE  regCoin'[c].locked = regCoin'[c].amount + Held2
      <3>1. NewCoin(w, m) /\ votingCoin' = votingCoin
        BY <2>2 DEF Register, FundCoin
      <3>2. CreateCoin(w, m, amount) /\ amount \in Nat
        BY <2>2, ConstantsAssumption DEF Register, FundCoin, AnnouncedAmount
      <3> QED
        BY <3>1, <3>2, <1>1
    <2>3. ASSUME NEW amount \in Amount, RegisterAlone(w, amount)
          PROVE  regCoin'[c].locked = regCoin'[c].amount + Held2
      BY <2>3, <1>5 DEF RegisterAlone
    <2>4. ASSUME NEW R, Deregister(w, R)
          PROVE  regCoin'[c].locked = regCoin'[c].amount + Held2
      BY <2>4, <1>2 DEF Deregister
    <2>5. ASSUME NEW m, ReleaseAlone(w, m)
          PROVE  regCoin'[c].locked = regCoin'[c].amount + Held2
      BY <2>5, <1>2 DEF ReleaseAlone
    <2> QED
      BY <2>1, <2>2, <2>3, <2>4, <2>5
  <1>7. CASE VoteNext
    <2>1. PICK w \in Voter, b \in Ballot, o \in Outcome :
            \/ \E m \in 1..MaxRegistrations, by \in Announcer,
                 sigs \in SUBSET {<<w, b, o>>} :
                 \/ \E k \in Stake : MintVotingCoin(w, m, b, o, k, by, sigs)
                 \/ \E d \in Ballot : UpdateVote(w, m, d, b, o, by, sigs)
            \/ SignOffChain(w, b, o)
      BY <1>7 DEF VoteNext
    <2>2. CASE SignOffChain(w, b, o)
      BY <2>2, <1>5 DEF SignOffChain
    <2> QED
      BY <2>1, <2>2, <1>3, <1>4
  <1>8. CASE IssuerNext \/ FinalizeNext \/ AdvanceHeight \/ UNCHANGED vars
    BY <1>8, <1>5, CoinsUntouched
  <1> QED
    BY <1>6, <1>7, <1>8 DEF Next

\* No collateral appears or vanishes: what a registration locked is in its
\* coin, or was released from it, and in the Voting Coins minted from it.
THEOREM ConservedTheorem == Spec => []CollateralIsConserved
  <1>1. TypeInv /\ TypeInv' /\ ConservedInv /\ [Next]_vars => ConservedInv'
    BY ConservedStep, UnmintedStep, RecordedStep DEF ConservedInv
  <1>2. ConservedInv => CollateralIsConserved
    BY DEF ConservedInv
  <1> QED
    BY TypeInit, TypeStep, ConservedInit, <1>1, <1>2, PTL DEF Spec

------------------------------------------------------------------------------
(* Ballots of an election whose issuer and aggregator use the SDK *)

\* The officers' bundles are bundles of the chain, so what holds of every
\* step of the chain holds of theirs.
LEMMA OfficeIsChain == [OfficeNext]_vars => [Next]_vars
  <1> SUFFICES ASSUME OfficersNext PROVE IssuerNext \/ FinalizeNext
    BY DEF OfficeNext, Next
  <1>1. PICK b \in Ballot :
          \/ \E options \in OptionSets : CreateBallot(b, options)
          \/ \E close \in Height, options \in OptionSets, threshold \in Threshold :
               SdkPrepareLaunch(b, close, options, threshold)
          \/ LaunchBallot(b)
          \/ \E o \in Outcome, S \in SUBSET Voter :
               \/ SdkFinalize(b, o, S, tree, weight)
               \/ SdkFinalize(b, o, S, tree, ballot[b].total)
               \/ SdkFinalize(b, o, S, ballot[b].tree, ballot[b].total)
    BY DEF OfficersNext
  <1>2. ASSUME NEW close \in Height, NEW options \in OptionSets,
               NEW threshold \in Threshold, SdkPrepareLaunch(b, close, options, threshold)
        PROVE  IssuerNext
    <2> DEFINE s == [tree |-> tree, total |-> weight]
    <2>1. s \in Snapshot \cup {[tree |-> tree, total |-> weight]}
          /\ s.tree = tree /\ s.total = weight
      OBVIOUS
    <2>2. PrepareLaunch(b, close, options, threshold, s.tree, s.total)
      BY <1>2, <2>1 DEF SdkPrepareLaunch
    <2> HIDE DEF s
    <2> QED
      BY <2>1, <2>2 DEF IssuerNext
  <1>3. ASSUME NEW o \in Outcome, NEW S \in SUBSET Voter, NEW t, NEW total,
               SdkFinalize(b, o, S, t, total)
        PROVE  Finalize(b, o, S, t, total)
    BY <1>3 DEF SdkFinalize
  <1>4. CASE \E options \in OptionSets : CreateBallot(b, options)
    BY <1>4 DEF IssuerNext
  <1>5. CASE LaunchBallot(b)
    BY <1>5 DEF IssuerNext
  <1> QED
    BY <1>1, <1>2, <1>3, <1>4, <1>5 DEF FinalizeNext

\* What a step of theirs may do to one ballot: prepare its launch with a read
\* of the election, open it, or decide it.
Prepared(b) ==
  /\ ballot[b].phase # "launched" /\ ballot'[b].phase # "launched"
  /\ ballot'[b].finalized = ballot[b].finalized
  /\ ballot'[b].outcome = ballot[b].outcome
  /\ ballot'[b].phase = "drafted" => /\ ballot'[b].threshold \in Threshold
                                     /\ ballot'[b].tree = tree
                                     /\ ballot'[b].total = weight

Opened(b) ==
  /\ ballot[b].phase = "drafted"
  /\ ballot'[b] = [ballot[b] EXCEPT !.phase = "launched"]

Decided(b, o, S) ==
  /\ OracleOpen(b)
  /\ Provable(ballot[b].tree, ballot[b].total, ballot[b].threshold, S)
  /\ AggregateVerifies(b, o, S)
  /\ ballot'[b] = [ballot[b] EXCEPT !.finalized = TRUE, !.outcome = o, !.signers = S]

OfficeMove ==
  \/ UNCHANGED ballot
  \/ \E b \in Ballot :
       /\ \A d \in Ballot \ {b} : ballot'[d] = ballot[d]
       /\ \/ Prepared(b)
          \/ Opened(b)
          \/ \E o \in Outcome, S \in SUBSET Voter : Decided(b, o, S)

LEMMA OfficeMoves ==
  ASSUME TypeInv, [OfficeNext]_vars
  PROVE  OfficeMove
  <1>types. ballot \in [Ballot -> BallotCoin]
    BY DEF TypeInv, TypeOK
  <1>1. ASSUME NEW b \in Ballot, NEW options \in OptionSets, CreateBallot(b, options)
        PROVE  OfficeMove
    <2> DEFINE coin == [ballot[b] EXCEPT !.phase = "minted", !.options = options]
    <2>1. ballot' = [ballot EXCEPT ![b] = coin] /\ ballot[b].phase = "none"
      BY <1>1, <1>types DEF CreateBallot, CanCreateBallot, BallotCoin
    <2>2. coin.phase = "minted" /\ coin.finalized = ballot[b].finalized
          /\ coin.outcome = ballot[b].outcome
      BY <1>types DEF BallotCoin
    <2> HIDE DEF coin
    <2> QED
      BY <2>1, <2>2, <1>types DEF OfficeMove, Prepared
  <1>2. ASSUME NEW b \in Ballot, NEW close \in Height,
               NEW options \in OptionSets, NEW threshold \in Threshold,
               SdkPrepareLaunch(b, close, options, threshold)
        PROVE  OfficeMove
    <2> DEFINE coin == [ballot[b] EXCEPT !.phase = "drafted", !.close = close,
                          !.options = options, !.threshold = threshold,
                          !.tree = tree, !.total = weight]
    <2>1. ballot' = [ballot EXCEPT ![b] = coin]
          /\ ballot[b].phase \in {"minted", "drafted"}
      BY <1>2 DEF SdkPrepareLaunch, PrepareLaunch
    <2>2. coin.phase = "drafted" /\ coin.finalized = ballot[b].finalized
          /\ coin.outcome = ballot[b].outcome /\ coin.threshold = threshold
          /\ coin.tree = tree /\ coin.total = weight
      BY <1>types DEF BallotCoin
    <2> HIDE DEF coin
    <2> QED
      BY <2>1, <2>2, <1>types DEF OfficeMove, Prepared
  <1>3. ASSUME NEW b \in Ballot, LaunchBallot(b)
        PROVE  OfficeMove
    <2> DEFINE coin == [ballot[b] EXCEPT !.phase = "launched"]
    <2>1. ballot' = [ballot EXCEPT ![b] = coin] /\ ballot[b].phase = "drafted"
      BY <1>3, <1>types DEF LaunchBallot, BallotCoin
    <2>2. ballot'[b] = coin /\ \A d \in Ballot \ {b} : ballot'[d] = ballot[d]
      BY <2>1, <1>types
    <2>3. Opened(b)
      BY <2>1, <2>2 DEF Opened
    <2> QED
      BY <2>2, <2>3 DEF OfficeMove
  <1>4. ASSUME NEW b \in Ballot, NEW o \in Outcome, NEW S \in SUBSET Voter,
               NEW t, NEW total, SdkFinalize(b, o, S, t, total)
        PROVE  OfficeMove
    <2> DEFINE coin == [ballot[b] EXCEPT !.finalized = TRUE, !.outcome = o,
                                         !.signers = S]
    <2>1. ballot' = [ballot EXCEPT ![b] = coin]
      BY <1>4 DEF SdkFinalize, Finalize
    <2>2. ballot'[b] = coin /\ \A d \in Ballot \ {b} : ballot'[d] = ballot[d]
      BY <2>1, <1>types
    <2>3. /\ OracleOpen(b)
          /\ Provable(ballot[b].tree, ballot[b].total, ballot[b].threshold, S)
          /\ AggregateVerifies(b, o, S)
      BY <1>4 DEF SdkFinalize, Finalize, CanFinalize, FinalizeWindow, SnapshotBound
    <2>4. Decided(b, o, S)
      BY <2>2, <2>3 DEF Decided
    <2> QED
      BY <2>2, <2>4 DEF OfficeMove
  <1>5. ASSUME UNCHANGED ballot
        PROVE  OfficeMove
    BY <1>5 DEF OfficeMove
  <1> HIDE DEF OfficeMove
  <1>6. CASE OfficersNext
    BY <1>6, <1>1, <1>2, <1>3, <1>4 DEF OfficersNext
  <1>7. CASE ElectionNext \/ VoteNext \/ AdvanceHeight \/ UNCHANGED vars
    BY <1>5, <1>7, BallotsUntouched
  <1> QED
    BY <1>6, <1>7 DEF OfficeNext

\* The weight the election keeps, and the one the issuer copies from it.
WeightInv ==
  /\ Totals(tree, weight)
  /\ \A b \in Ballot : ballot[b].phase \in {"drafted", "launched"} =>
       Totals(ballot[b].tree, ballot[b].total)

LEMMA WeightInit == Init => WeightInv
  BY EmptyTreeWeighsNothing
  DEF Init, WeightInv, Totals, EmptyTree, NoBallot

\* A ballot's snapshots come from one read of the election, and stay.
LEMMA WeightStep == TypeInv /\ WeightInv /\ [OfficeNext]_vars => WeightInv'
  <1> SUFFICES ASSUME TypeInv, WeightInv, [OfficeNext]_vars PROVE WeightInv'
    OBVIOUS
  <1>types. ballot \in [Ballot -> BallotCoin]
    BY DEF TypeInv, TypeOK
  <1>1. Totals(tree', weight')
    BY OfficeIsChain, ElectionTotals DEF WeightInv
  <1>2. ASSUME NEW b \in Ballot, ballot'[b].phase \in {"drafted", "launched"}
        PROVE  Totals(ballot'[b].tree, ballot'[b].total)
    <2>1. CASE ballot'[b] = ballot[b]
      BY <1>2, <2>1 DEF WeightInv
    <2>2. CASE Prepared(b)
      BY <1>2, <2>2 DEF WeightInv, Prepared
    <2>3. CASE Opened(b) \/ \E o \in Outcome, S \in SUBSET Voter : Decided(b, o, S)
      <3>1. /\ ballot[b].phase \in {"drafted", "launched"}
            /\ ballot'[b].tree = ballot[b].tree
            /\ ballot'[b].total = ballot[b].total
        BY <2>3, <1>types DEF Opened, Decided, OracleOpen, BallotCoin
      <3> QED
        BY <3>1 DEF WeightInv
    <2> QED
      BY <2>1, <2>2, <2>3, OfficeMoves DEF OfficeMove
  <1>3. Totals(tree, weight)' <=> Totals(tree', weight')
    BY DEF Totals, TreeWeight, EmptyLeaf
  <1>4. ASSUME NEW b \in Ballot
        PROVE  Totals(ballot[b].tree, ballot[b].total)'
                 <=> Totals(ballot'[b].tree, ballot'[b].total)
    BY DEF Totals, TreeWeight, EmptyLeaf
  <1> QED
    BY <1>1, <1>2, <1>3, <1>4 DEF WeightInv

\* A ballot has no outcome until it is finalized, and the share it is drafted
\* with is one ballots are launched with.
BallotInv ==
  \A b \in Ballot :
    /\ ballot[b].finalized => ballot[b].phase = "launched"
    /\ ~ballot[b].finalized => ballot[b].outcome = NoOutcome
    /\ ballot[b].phase \in {"drafted", "launched"} => ballot[b].threshold \in Threshold

LEMMA BallotInvStep ==
  ASSUME TypeInv, BallotInv, [OfficeNext]_vars
  PROVE  BallotInv'
  <1>types. ballot \in [Ballot -> BallotCoin]
    BY DEF TypeInv, TypeOK
  <1> SUFFICES ASSUME NEW b \in Ballot
               PROVE  /\ ballot'[b].finalized => ballot'[b].phase = "launched"
                      /\ ~ballot'[b].finalized => ballot'[b].outcome = NoOutcome
                      /\ ballot'[b].phase \in {"drafted", "launched"} =>
                           ballot'[b].threshold \in Threshold
    BY DEF BallotInv
  <1>1. CASE ballot'[b] = ballot[b]
    BY <1>1 DEF BallotInv
  <1>2. CASE Prepared(b)
    BY <1>2 DEF BallotInv, Prepared
  <1>3. CASE Opened(b)
    BY <1>3, <1>types DEF BallotInv, BallotCoin, Opened
  <1>4. ASSUME NEW o \in Outcome, NEW S \in SUBSET Voter, Decided(b, o, S)
        PROVE  /\ ballot'[b].finalized /\ ballot'[b].phase = "launched"
               /\ ballot'[b].threshold \in Threshold
    BY <1>4, <1>types DEF BallotInv, BallotCoin, OracleOpen, Decided
  <1> QED
    BY <1>1, <1>2, <1>3, <1>4, OfficeMoves DEF OfficeMove

\* Types, weights and ballots together: they hold in every state, and a step
\* that keeps them is one of the officers' or of anybody else.
OfficeInv == TypeInv /\ WeightInv /\ BallotInv

LEMMA OfficeInvInit == Init => OfficeInv
  <1>1. Init => BallotInv
    BY DEF Init, BallotInv, NoBallot
  <1> QED
    BY <1>1, TypeInit, WeightInit DEF OfficeInv

LEMMA OfficeInvStep == OfficeInv /\ [OfficeNext]_vars => OfficeInv'
  BY OfficeIsChain, TypeStep, WeightStep, BallotInvStep DEF OfficeInv

\* Signatures stay and so does the coin of a ballot that is decided.
LEMMA QuorumStep ==
  ASSUME OfficeInv, OutcomeHasQuorum, [OfficeNext]_vars
  PROVE  OutcomeHasQuorum'
  <1> SUFFICES ASSUME NEW b \in Ballot, ballot'[b].finalized
               PROVE
    /\ \A v \in ballot'[b].signers :
         /\ Registered(ballot'[b].tree, v)
         /\ <<v, b, ballot'[b].outcome>> \in signed'
    /\ MeetsThreshold(SignedWeight(ballot'[b].tree, ballot'[b].signers),
                      ballot'[b].total, ballot'[b].threshold)
    BY DEF OutcomeHasQuorum
  <1>signed. signed \subseteq signed'
    BY OfficeIsChain, SignaturesStay
  <1>types. ballot[b] \in BallotCoin
    BY DEF OfficeInv, TypeInv, TypeOK
  <1>1. CASE ballot'[b] = ballot[b]
    BY <1>1, <1>signed DEF OutcomeHasQuorum
  <1>2. CASE Prepared(b)
    BY <1>2 DEF OfficeInv, BallotInv, Prepared
  <1>3. CASE Opened(b)
    BY <1>3, <1>types DEF OfficeInv, BallotInv, BallotCoin, Opened
  <1>4. ASSUME NEW o \in Outcome, NEW S \in SUBSET Voter, Decided(b, o, S)
        PROVE
    /\ \A v \in ballot'[b].signers :
         /\ Registered(ballot'[b].tree, v)
         /\ <<v, b, ballot'[b].outcome>> \in signed'
    /\ MeetsThreshold(SignedWeight(ballot'[b].tree, ballot'[b].signers),
                      ballot'[b].total, ballot'[b].threshold)
    <2>1. /\ ballot'[b].tree = ballot[b].tree
          /\ ballot'[b].total = ballot[b].total
          /\ ballot'[b].threshold = ballot[b].threshold
          /\ ballot'[b].outcome = o
          /\ ballot'[b].signers = S
      BY <1>4, <1>types DEF Decided, BallotCoin
    <2>2. /\ \A v \in S : Registered(ballot[b].tree, v) /\ <<v, b, o>> \in signed
          /\ MeetsThreshold(SignedWeight(ballot[b].tree, S),
                            ballot[b].total, ballot[b].threshold)
      BY <1>4 DEF Decided, Provable, AggregateVerifies
    <2> QED
      BY <2>1, <2>2, <1>signed
  <1>5. TypeInv
    BY DEF OfficeInv
  <1> QED
    BY <1>1, <1>2, <1>3, <1>4, <1>5, OfficeMoves DEF OfficeMove

\* When the issuer launches with what it read and the aggregator proves what
\* it checked, whatever joins, leaves, signs or votes beside them, an outcome
\* stands on enough weight of the snapshot its ballot was launched with.
THEOREM QuorumTheorem == OfficeSpec => []OutcomeHasQuorum
  <1>1. Init => OutcomeHasQuorum
    BY DEF Init, OutcomeHasQuorum, NoBallot
  <1> QED
    BY OfficeInvInit, OfficeInvStep, <1>1, QuorumStep, PTL DEF OfficeSpec

\* Signers of two disjoint sets carry no more than the tree holds: each
\* registered voter has a leaf of its own.
LEMMA DisjointSigners ==
  ASSUME NEW t \in [Slot -> Leaf], NEW S1 \in SUBSET Voter, NEW S2 \in SUBSET Voter,
         S1 \cap S2 = {}, \A v \in S1 \cup S2 : Registered(t, v)
  PROVE  /\ SignedWeight(t, S1) \in Int
         /\ SignedWeight(t, S2) \in Int
         /\ TreeWeight(t) \in Nat
         /\ SignedWeight(t, S1) + SignedWeight(t, S2) <= TreeWeight(t)
  <1> DEFINE f == LeafWeights(t)
             g == [v \in Voter |-> LockedAmount(t, v)]
             A(T) == SumFunctionOnSet(g, T)
             B(P) == SumFunctionOnSet(f, P)
             Slots(T) == {SlotOf[v] : v \in T}
             All == S1 \cup S2
             G == {T \in SUBSET All : A(T \cap S1) + A(T \cap S2) = B(Slots(T))}
  <1>1. SlotOf \in [Voter -> Slot] /\ IsFiniteSet(Slot) /\ IsFiniteSet(Voter)
    BY ConstantsAssumption, FiniteAssumption
  <1>2. f \in [Slot -> Nat] /\ f \in [Slot -> Int]
    BY DEF Leaf, LeafWeights
  <1>3. g \in [Voter -> Int]
    BY <1>1 DEF LockedAmount, Leaf
  <1>4. \A v \in All : g[v] = f[SlotOf[v]] /\ g[v] \in Int
    BY <1>1, <1>3 DEF LockedAmount, LeafWeights
  <1>5. \A v, w \in All : SlotOf[v] = SlotOf[w] => v = w
    BY DEF Registered
  <1>6. IsFiniteSet(All)
    BY <1>1, FS_Subset
  <1>7. \A T \in SUBSET Voter : A(T) \in Int
    <2> HIDE DEF g
    <2> QED
      BY <1>1, <1>3, SumAdds
  <1>8. {} \in G
    <2>1. A({}) = 0 /\ B({}) = 0
      <3> HIDE DEF f, g
      <3> QED
        BY <1>1, <1>2, <1>3, SumAdds
    <2>2. {} \cap S1 = {} /\ {} \cap S2 = {} /\ Slots({}) = {}
      OBVIOUS
    <2> HIDE DEF A, B, Slots
    <2> QED
      BY <2>1, <2>2
  <1>9. ASSUME NEW T \in SUBSET All, T # {}, \A y \in T : T \ {y} \in G
        PROVE  T \in G
    <2>1. PICK y \in T : TRUE
      BY <1>9
    <2> DEFINE U == T \ {y}
    <2>2. A(U \cap S1) + A(U \cap S2) = B(Slots(U))
      BY <1>9, <2>1
    <2>3. B(Slots(T)) = B(Slots(U)) + f[SlotOf[y]] /\ B(Slots(U)) \in Int
      <3>1. /\ Slots(U) \in SUBSET Slot
            /\ SlotOf[y] \in Slot \ Slots(U)
            /\ Slots(T) = Slots(U) \cup {SlotOf[y]}
        BY <1>1, <1>5, <2>1
      <3> HIDE DEF f, Slots, U
      <3>2. /\ B(Slots(U)) \in Int
            /\ \A x \in Slot \ Slots(U) : B(Slots(U) \cup {x}) = B(Slots(U)) + f[x]
        BY <3>1, <1>1, <1>2, SumAdds
      <3> QED
        BY <3>1, <3>2
    <2>4. ASSUME NEW P \in SUBSET Voter, y \in P
          PROVE  A(T \cap P) = A(U \cap P) + g[y] /\ A(U \cap P) \in Int
      <3>1. y \in T \cap P /\ T \cap P \in SUBSET Voter /\ (T \cap P) \ {y} = U \cap P
        BY <2>1, <2>4
      <3> HIDE DEF g, U
      <3>2. /\ A(T \cap P) = A((T \cap P) \ {y}) + g[y]
            /\ A((T \cap P) \ {y}) \in Int
        BY <3>1, <1>1, <1>3, SumWithout
      <3> QED
        BY <3>1, <3>2
    <2>5. ASSUME NEW P \in SUBSET Voter, y \notin P
          PROVE  A(T \cap P) = A(U \cap P)
      <3>1. T \cap P = U \cap P
        BY <2>5
      <3> HIDE DEF A
      <3> QED
        BY <3>1
    <2>6. A(T \cap S1) + A(T \cap S2) = A(U \cap S1) + A(U \cap S2) + g[y]
      <3>1. A(U \cap S1) \in Int /\ A(U \cap S2) \in Int /\ g[y] \in Int
        <4>1. U \cap S1 \in SUBSET Voter /\ U \cap S2 \in SUBSET Voter
          OBVIOUS
        <4> HIDE DEF A, U, g
        <4> QED
          BY <4>1, <1>4, <1>7, <2>1
      <3>2. CASE y \in S1 /\ y \notin S2
        <4>1. A(T \cap S1) = A(U \cap S1) + g[y]
          BY <2>4, <3>2
        <4>2. A(T \cap S2) = A(U \cap S2)
          BY <2>5, <3>2
        <4> HIDE DEF A, U, g
        <4> QED
          BY <3>1, <4>1, <4>2
      <3>3. CASE y \in S2 /\ y \notin S1
        <4>1. A(T \cap S2) = A(U \cap S2) + g[y]
          BY <2>4, <3>3
        <4>2. A(T \cap S1) = A(U \cap S1)
          BY <2>5, <3>3
        <4> HIDE DEF A, U, g
        <4> QED
          BY <3>1, <4>1, <4>2
      <3> QED
        BY <2>1, <3>2, <3>3
    <2>7. g[y] = f[SlotOf[y]]
      BY <1>4, <2>1
    <2>8. A(T \cap S1) + A(T \cap S2) = B(Slots(T))
      <3> HIDE DEF A, B, U, f, g, Slots
      <3> QED
        BY <2>2, <2>3, <2>6, <2>7
    <2> QED
      BY <2>8
  <1>10. G = SUBSET All
    <2> HIDE DEF G, All
    <2>1. G \in SUBSET SUBSET All
      BY DEF G
    <2> QED
      BY <1>6, <1>8, <1>9, <2>1, RemovalInduction
  <1>11. A(S1) + A(S2) = B(Slots(All))
    <2>1. All \in G /\ All \cap S1 = S1 /\ All \cap S2 = S2
      BY <1>10
    <2> HIDE DEF A, B, Slots
    <2> QED
      BY <2>1
  <1>12. B(Slots(All)) <= B(Slot) /\ B(Slot) \in Nat
    <2>1. Slots(All) \in SUBSET Slot
      BY <1>1
    <2> HIDE DEF f, Slots
    <2> QED
      BY <2>1, <1>1, <1>2, SumOfPart
  <1>13. TreeWeight(t) = B(Slot) /\ SignedWeight(t, S1) = A(S1)
         /\ SignedWeight(t, S2) = A(S2)
    BY DEF TreeWeight, SignedWeight, LeafWeights
  <1> HIDE DEF A, B, Slots, All
  <1> QED
    BY <1>7, <1>11, <1>12, <1>13

\* A tree in which a voter is registered weighs something.
LEMMA RegisteredWeighs ==
  ASSUME NEW t \in [Slot -> Leaf], NEW w, Totals(t, w), NEW v \in Voter, Registered(t, v)
  PROVE  w \in Nat \ {0}
  <1> DEFINE f == LeafWeights(t)
             s == SlotOf[v]
  <1>1. f \in [Slot -> Nat] /\ f \in [Slot -> Int] /\ s \in Slot
    BY ConstantsAssumption DEF Leaf, LeafWeights
  <1>2. f[s] \in Nat \ {0}
    <2>1. t[s] # EmptyLeaf
      BY ConstantsAssumption DEF Registered, EmptyLeaf
    <2>2. f[s] >= CollateralAmount
      BY <1>1, <2>1 DEF Totals, LeafWeights
    <2> QED
      BY <1>1, <2>2, ConstantsAssumption
  <1>3. w = SumFunctionOnSet(f, Slot)
    BY DEF Totals, TreeWeight, LeafWeights
  <1> HIDE DEF f, s
  <1>4. SumFunctionOnSet(f, {s}) = f[s]
    BY <1>1, FiniteAssumption, SumOfOne
  <1>5. /\ SumFunctionOnSet(f, {s}) <= SumFunctionOnSet(f, Slot)
        /\ SumFunctionOnSet(f, Slot) \in Nat
    <2>1. {s} \in SUBSET Slot
      BY <1>1
    <2> QED
      BY <1>1, <2>1, FiniteAssumption, SumOfPart
  <1> QED
    BY <1>2, <1>3, <1>4, <1>5

\* Two parts that each carry more than half of a weight exceed it.
LEMMA MajoritiesExceed ==
  ASSUME NEW w1 \in Int, NEW w2 \in Int, NEW total \in Nat \ {0},
         NEW num \in Nat, NEW den \in Nat \ {0}, 2 * num > den,
         w1 * den >= num * total, w2 * den >= num * total
  PROVE  w1 + w2 > total
  <1>1. (w1 + w2) * den >= (2 * num) * total
    OBVIOUS
  <1>2. (2 * num) * total > den * total
    OBVIOUS
  <1> SUFFICES ASSUME w1 + w2 <= total PROVE FALSE
    OBVIOUS
  <1>3. (w1 + w2) * den <= total * den
    OBVIOUS
  <1> QED
    BY <1>1, <1>2, <1>3

\* No two outcomes of a majority ballot can be finalized by disjoint quorums:
\* where both could be, some voter changed its vote and signed both.
THEOREM RivalsTheorem == OfficeSpec => []RivalOutcomesShareASigner
  <1>1. TypeInv /\ WeightInv => RivalOutcomesShareASigner
    <2> SUFFICES ASSUME TypeInv, WeightInv,
                        NEW b \in Ballot, NEW o1 \in Outcome, NEW o2 \in Outcome,
                        2 * ballot[b].threshold.num > ballot[b].threshold.den,
                        Finalizable(b, o1), Finalizable(b, o2),
                        ~\E v \in Voter : <<v, b, o1>> \in signed /\ <<v, b, o2>> \in signed
                 PROVE  FALSE
      BY DEF RivalOutcomesShareASigner
    <2> DEFINE t == ballot[b].tree
               total == ballot[b].total
               num == ballot[b].threshold.num
               den == ballot[b].threshold.den
    <2>1. t \in [Slot -> Leaf] /\ num \in Nat /\ den \in Nat \ {0}
      BY DEF TypeInv, TypeOK, BallotCoin, Fraction
    <2>2. Totals(t, total)
      BY DEF WeightInv, Finalizable
    <2>3. PICK S1 \in SUBSET Voter :
            /\ Provable(t, total, ballot[b].threshold, S1)
            /\ AggregateVerifies(b, o1, S1)
      BY DEF Finalizable
    <2>4. PICK S2 \in SUBSET Voter :
            /\ Provable(t, total, ballot[b].threshold, S2)
            /\ AggregateVerifies(b, o2, S2)
      BY DEF Finalizable
    <2>5. S1 \cap S2 = {}
      BY <2>3, <2>4 DEF AggregateVerifies
    <2>6. \A v \in S1 \cup S2 : Registered(t, v)
      BY <2>3, <2>4 DEF Provable
    <2>7. PICK v \in S1 : TRUE
      BY <2>3 DEF Provable
    <2> DEFINE w1 == SignedWeight(t, S1)
               w2 == SignedWeight(t, S2)
    <2>8. w1 * den >= num * total /\ w2 * den >= num * total
      BY <2>3, <2>4 DEF Provable, MeetsThreshold
    <2> HIDE DEF t, total, num, den, w1, w2
    <2>9. total \in Nat \ {0}
      BY <2>1, <2>2, <2>6, <2>7, RegisteredWeighs
    <2>10. w1 \in Int /\ w2 \in Int /\ w1 + w2 <= total
      BY <2>1, <2>2, <2>5, <2>6, DisjointSigners DEF w1, w2, Totals
    <2>11. 2 * num > den
      BY DEF num, den
    <2>12. w1 + w2 > total
      BY <2>1, <2>8, <2>9, <2>10, <2>11, MajoritiesExceed
    <2> QED
      BY <2>9, <2>10, <2>12
  <1> QED
    BY OfficeInvInit, OfficeInvStep, <1>1, PTL DEF OfficeSpec, OfficeInv

------------------------------------------------------------------------------
(* The election decides its ballots as BallotDecision allows *)

\* An electorate weighs no more than the tree it is read from.
LEMMA ElectorateWeight ==
  ASSUME NEW t \in [Slot -> Leaf]
  PROVE  /\ SignedWeight(t, Voter) \in Int
         /\ SignedWeight(t, Voter) <= TreeWeight(t)
         /\ TreeWeight(t) \in Nat
  <1> DEFINE g == [v \in Voter |-> LockedAmount(t, v)]
             R == {v \in Voter : Registered(t, v)}
             A(T) == SumFunctionOnSet(g, T)
             G == {T \in SUBSET Voter : A(T) = A(T \cap R)}
  <1>1. g \in [Voter -> Int] /\ IsFiniteSet(Voter)
    BY ConstantsAssumption, FiniteAssumption DEF LockedAmount, Leaf
  <1>2. \A v \in Voter \ R : g[v] = 0
    BY DEF LockedAmount
  <1> HIDE DEF g, R
  <1>3. {} \in G
    <2>1. {} \cap R = {}
      OBVIOUS
    <2> HIDE DEF A
    <2> QED
      BY <2>1
  <1>4. ASSUME NEW T \in SUBSET Voter, T # {}, \A y \in T : T \ {y} \in G
        PROVE  T \in G
    <2>1. PICK y \in T : TRUE
      BY <1>4
    <2>2. A(T \ {y}) = A((T \ {y}) \cap R)
      BY <1>4, <2>1
    <2>3. A(T) = A(T \ {y}) + g[y] /\ A(T \ {y}) \in Int
      BY <1>1, <2>1, SumWithout
    <2>4. CASE y \in R
      <3>1. y \in T \cap R /\ T \cap R \in SUBSET Voter
            /\ (T \cap R) \ {y} = (T \ {y}) \cap R
        BY <2>1, <2>4
      <3>2. A(T \cap R) = A((T \cap R) \ {y}) + g[y]
        BY <1>1, <3>1, SumWithout
      <3>3. A(T) = A(T \cap R)
        <4> HIDE DEF A
        <4> QED
          BY <2>2, <2>3, <3>1, <3>2
      <3> QED
        BY <3>3
    <2>5. CASE y \notin R
      <3>1. T \cap R = (T \ {y}) \cap R /\ g[y] = 0
        BY <1>2, <2>1, <2>5
      <3>2. A(T \cap R) = A((T \ {y}) \cap R)
        <4> HIDE DEF A
        <4> QED
          BY <3>1
      <3>3. A(T) = A(T \ {y})
        <4> HIDE DEF A
        <4> QED
          BY <2>3, <3>1
      <3>4. A(T) = A(T \cap R)
        <4> HIDE DEF A
        <4> QED
          BY <2>2, <3>2, <3>3
      <3> QED
        BY <3>4
    <2> QED
      BY <2>4, <2>5
  <1>5. G = SUBSET Voter
    <2> HIDE DEF G
    <2>1. G \in SUBSET SUBSET Voter
      BY DEF G
    <2> QED
      BY <1>1, <1>3, <1>4, <2>1, RemovalInduction
  <1>6. A(Voter) = A(R)
    <2>1. Voter \in G /\ Voter \cap R = R
      BY <1>5 DEF R
    <2> HIDE DEF A
    <2> QED
      BY <2>1
  <1>7. /\ SignedWeight(t, R) \in Int
        /\ SignedWeight(t, {}) \in Int
        /\ TreeWeight(t) \in Nat
        /\ SignedWeight(t, R) + SignedWeight(t, {}) <= TreeWeight(t)
    <2>1. R \in SUBSET Voter /\ {} \in SUBSET Voter /\ R \cap {} = {}
          /\ \A v \in R \cup {} : Registered(t, v)
      BY DEF R
    <2> QED
      BY <2>1, DisjointSigners
  <1>8. SignedWeight(t, Voter) = A(Voter) /\ SignedWeight(t, R) = A(R)
        /\ SignedWeight(t, {}) = A({})
    BY DEF SignedWeight, g
  <1>9. A({}) = 0
    BY <1>1, SumAdds
  <1> HIDE DEF A
  <1> QED
    BY <1>6, <1>7, <1>8, <1>9

\* A ballot has no outcome until it is finalized, and the share it is drafted

\* The electorate a launched ballot's snapshot makes.
LEMMA ElectorateType ==
  ASSUME NEW t \in [Slot -> Leaf]
  PROVE  [v \in Voter |-> LockedAmount(t, v)] \in [Voter -> Nat]
  BY ConstantsAssumption DEF LockedAmount, Leaf

\* The shares of an electorate's weight that decide a ballot, of the tree's.
LEMMA QuorumCarries ==
  ASSUME NEW num \in Nat, NEW den \in Nat, NEW w1 \in Int, NEW w \in Int, NEW total \in Nat,
         w <= total, w1 * den >= num * total
  PROVE  w1 * den >= num * w
  <1>1. num * w <= num * total
    OBVIOUS
  <1> QED
    BY <1>1

\* A ballot as BallotDecision sees it depends on its coin alone.
LEMMA SameView ==
  ASSUME NEW d \in Ballot, ballot'[d] = ballot[d]
  PROVE  /\ Electorate(d)' = Electorate(d)
         /\ Quorum(d)' = Quorum(d)
         /\ OracleOpen(d)' <=> OracleOpen(d)
         /\ ballot'[d].outcome = ballot[d].outcome
  BY DEF Electorate, Quorum, OracleOpen, NoBallot, LockedAmount, Registered

\* BallotDecision sums as ElectionChain does.
LEMMA SameSum ==
  ASSUME NEW f, NEW T
  PROVE  Decision!SumFunctionOnSet(f, T) = SumFunctionOnSet(f, T)
  BY DEF SumFunctionOnSet, FoldFunctionOnSet, MapThenFoldSet,
         Decision!SumFunctionOnSet, Decision!FoldFunctionOnSet, Decision!MapThenFoldSet

LEMMA DecisionStep ==
  ASSUME TypeInv, WeightInv, BallotInv, [OfficeNext]_vars
  PROVE  [Decision!DecisionNext]_Decision!decisionVars
  <1> DEFINE E == [b \in Ballot |-> Electorate(b)]
             Q == [b \in Ballot |-> Quorum(b)]
             O == {b \in Ballot : OracleOpen(b)}
             D == [b \in Ballot |-> ballot[b].outcome]
  <1>types. /\ ballot \in [Ballot -> BallotCoin]
            /\ signed \subseteq Voter \X Ballot \X Outcome
    BY DEF TypeInv, TypeOK
  <1>1. ASSUME UNCHANGED ballot
        PROVE  UNCHANGED <<E, Q, O, D>>
    BY <1>1, SameView
  <1>2. ASSUME NEW v \in Voter, NEW b \in Ballot, NEW o \in Outcome,
               signed' = signed \cup {<<v, b, o>>}, UNCHANGED ballot
        PROVE  Decision!DecisionNext
    <2>1. UNCHANGED <<E, Q, O, D>>
      BY <1>1, <1>2
    <2>2. Decision!Endorse(v, b, o)
      BY <1>2, <2>1 DEF Decision!Endorse
    <2> QED
      BY <2>2 DEF Decision!DecisionNext
  <1>3. ASSUME NEW b \in Ballot, \A d \in Ballot \ {b} : ballot'[d] = ballot[d], Prepared(b)
        PROVE  UNCHANGED <<E, Q, O, D>>
    <2>1. \A d \in Ballot : /\ Electorate(d)' = Electorate(d)
                            /\ Quorum(d)' = Quorum(d)
                            /\ OracleOpen(d)' <=> OracleOpen(d)
                            /\ ballot'[d].outcome = ballot[d].outcome
      <3> TAKE d \in Ballot
      <3>1. CASE d = b
        BY <1>3, <3>1 DEF Prepared, Electorate, Quorum, OracleOpen, NoBallot
      <3>2. CASE d # b
        BY <1>3, <3>2, SameView
      <3> QED
        BY <3>1, <3>2
    <2> QED
      BY <2>1
  <1>4. ASSUME NEW b \in Ballot, \A d \in Ballot \ {b} : ballot'[d] = ballot[d], Opened(b),
               signed' = signed
        PROVE  Decision!DecisionNext
    <2>1. \A d \in Ballot \ {b} : /\ Electorate(d)' = Electorate(d)
                                  /\ Quorum(d)' = Quorum(d)
                                  /\ OracleOpen(d)' <=> OracleOpen(d)
                                  /\ ballot'[d].outcome = ballot[d].outcome
      BY <1>4, SameView
    <2>2. /\ ballot'[b].phase = "launched" /\ ballot'[b].tree = ballot[b].tree
          /\ ballot'[b].threshold = ballot[b].threshold
          /\ ballot'[b].finalized = ballot[b].finalized
          /\ ballot'[b].outcome = ballot[b].outcome
          /\ ~ballot[b].finalized /\ ballot[b].outcome = NoOutcome
          /\ ballot[b].threshold \in Threshold
          /\ ballot[b].tree \in [Slot -> Leaf]
          /\ ballot[b].phase = "drafted"
      BY <1>4, <1>types DEF Opened, BallotInv, BallotCoin
    <2>3. /\ Electorate(b)' = [v \in Voter |-> LockedAmount(ballot[b].tree, v)]
          /\ Quorum(b)' = ballot[b].threshold
          /\ OracleOpen(b)' /\ ~OracleOpen(b)
      BY <2>2 DEF Electorate, Quorum, OracleOpen, LockedAmount, Registered
    <2>4. b \notin O /\ D[b] = NoOutcome /\ O' = O \cup {b}
      BY <2>1, <2>2, <2>3
    <2>5. E'[b] \in [Voter -> Nat] /\ E' = [E EXCEPT ![b] = E'[b]]
      <3>1. Electorate(b)' \in [Voter -> Nat]
        BY <2>2, <2>3, ElectorateType
      <3> QED
        BY <2>1, <3>1
    <2>6. Q'[b] \in Threshold /\ Q' = [Q EXCEPT ![b] = Q'[b]]
      BY <2>1, <2>2, <2>3
    <2>7. D' = D
      BY <2>1, <2>2
    <2>8. Decision!Open(b)
      BY <1>4, <2>4, <2>5, <2>6, <2>7 DEF Decision!Open
    <2> QED
      BY <2>8 DEF Decision!DecisionNext
  <1>5. ASSUME NEW b \in Ballot, \A d \in Ballot \ {b} : ballot'[d] = ballot[d],
               NEW o \in Outcome, NEW S \in SUBSET Voter, Decided(b, o, S),
               signed' = signed
        PROVE  Decision!DecisionNext
    <2>1. \A d \in Ballot \ {b} : /\ Electorate(d)' = Electorate(d)
                                  /\ Quorum(d)' = Quorum(d)
                                  /\ OracleOpen(d)' <=> OracleOpen(d)
                                  /\ ballot'[d].outcome = ballot[d].outcome
      BY <1>5, SameView
    <2> DEFINE t == ballot[b].tree
               total == ballot[b].total
               num == ballot[b].threshold.num
               den == ballot[b].threshold.den
    <2>2. /\ t \in [Slot -> Leaf] /\ num \in Nat /\ den \in Nat
          /\ ballot[b].phase = "launched" /\ ~ballot[b].finalized
          /\ ballot'[b].phase = "launched" /\ ballot'[b].finalized
          /\ ballot'[b].tree = t /\ ballot'[b].threshold = ballot[b].threshold
          /\ ballot'[b].outcome = o
      BY <1>5, <1>types DEF Decided, OracleOpen, BallotCoin, Fraction
    <2>3. /\ Electorate(b) = [v \in Voter |-> LockedAmount(t, v)]
          /\ Electorate(b)' = Electorate(b)
          /\ Quorum(b) = ballot[b].threshold /\ Quorum(b)' = Quorum(b)
          /\ OracleOpen(b) /\ ~OracleOpen(b)'
      BY <2>2 DEF Electorate, Quorum, OracleOpen, LockedAmount, Registered
    <2>4. Totals(t, total)
      BY <2>2 DEF WeightInv
    <2>5. ASSUME NEW v \in S
          PROVE  LockedAmount(t, v) > 0 /\ <<v, b, o>> \in signed
      <3>1. Registered(t, v) /\ <<v, b, o>> \in signed
        BY <1>5 DEF Decided, Provable, AggregateVerifies
      <3>2. t[SlotOf[v]] # EmptyLeaf /\ SlotOf[v] \in Slot
        BY <3>1, ConstantsAssumption DEF Registered, EmptyLeaf
      <3>3. t[SlotOf[v]].locked >= CollateralAmount /\ t[SlotOf[v]].locked \in Nat
        BY <2>2, <2>4, <3>2 DEF Totals, Leaf
      <3> QED
        BY <3>1, <3>3, ConstantsAssumption DEF LockedAmount
    <2>6. SignedWeight(t, S) * den >= num * SignedWeight(t, Voter)
      <3>1. SignedWeight(t, S) * den >= num * total
        BY <1>5 DEF Decided, Provable, MeetsThreshold
      <3>2. /\ SignedWeight(t, Voter) \in Int
            /\ SignedWeight(t, Voter) <= total
            /\ total \in Nat
        BY <2>2, <2>4, ElectorateWeight DEF Totals
      <3>3. SignedWeight(t, S) \in Int
        <4> DEFINE g == [v \in Voter |-> LockedAmount(t, v)]
        <4>1. g \in [Voter -> Int]
          BY <2>2, ElectorateType
        <4>2. SignedWeight(t, S) = SumFunctionOnSet(g, S)
          BY DEF SignedWeight
        <4> HIDE DEF g
        <4> QED
          BY <4>1, <4>2, FiniteAssumption, SumAdds
      <3> HIDE DEF t, total, num, den
      <3> QED
        BY <2>2, <3>1, <3>2, <3>3, QuorumCarries
    <2>7. SumFunctionOnSet(E[b], S) * Q[b].den >= Q[b].num * SumFunctionOnSet(E[b], Voter)
      BY <2>3, <2>6 DEF SignedWeight
    <2>8. b \in O /\ O' = O \ {b}
      BY <2>1, <2>3
    <2>9. D' = [D EXCEPT ![b] = o]
      BY <2>1, <2>2
    <2>10. E' = E /\ Q' = Q
      BY <2>1, <2>3
    <2>11. \A v \in S : E[b][v] > 0 /\ <<v, b, o>> \in signed
      BY <2>3, <2>5
    <2>12. Decision!Carries(b, S)
      <3>1. /\ Decision!SumFunctionOnSet(E[b], S) = SumFunctionOnSet(E[b], S)
            /\ Decision!SumFunctionOnSet(E[b], Voter) = SumFunctionOnSet(E[b], Voter)
        BY SameSum
      <3> QED
        BY <2>7, <3>1 DEF Decision!Carries, Decision!TotalWeight
    <2>13. Decision!Decide(b, o)
      BY <1>5, <2>8, <2>9, <2>10, <2>11, <2>12 DEF Decision!Decide
    <2> QED
      BY <2>13 DEF Decision!DecisionNext
  <1>6. CASE VoteNext
    <2>1. PICK v \in Voter, b \in Ballot, o \in Outcome :
            \/ \E n \in 1..MaxRegistrations, by \in Announcer,
                 sigs \in SUBSET {<<v, b, o>>} :
                 \/ \E k \in Stake : MintVotingCoin(v, n, b, o, k, by, sigs)
                 \/ \E c \in Ballot : UpdateVote(v, n, c, b, o, by, sigs)
            \/ SignOffChain(v, b, o)
      BY <1>6 DEF VoteNext
    <2>2. UNCHANGED ballot
      BY <1>6, VotesElsewhere
    <2>3. \E sigs \in SUBSET {<<v, b, o>>} : signed' = signed \cup sigs
      <3>1. CASE SignOffChain(v, b, o)
        BY <3>1 DEF SignOffChain
      <3>2. ASSUME NEW n, NEW by, NEW sigs \in SUBSET {<<v, b, o>>}, NEW k,
                   MintVotingCoin(v, n, b, o, k, by, sigs)
            PROVE  signed' = signed \cup sigs
        BY <3>2 DEF MintVotingCoin
      <3>3. ASSUME NEW n, NEW by, NEW sigs \in SUBSET {<<v, b, o>>}, NEW c,
                   UpdateVote(v, n, c, b, o, by, sigs)
            PROVE  signed' = signed \cup sigs
        BY <3>3 DEF UpdateVote
      <3> QED
        BY <2>1, <3>1, <3>2, <3>3
    <2>4. signed' = signed \/ signed' = signed \cup {<<v, b, o>>}
      BY <2>3
    <2>5. CASE signed' = signed
      BY <2>2, <2>5, <1>1 DEF Decision!decisionVars
    <2> QED
      BY <1>2, <2>2, <2>4, <2>5
  <1>7. ASSUME signed' = signed
        PROVE  [Decision!DecisionNext]_Decision!decisionVars
    <2>1. CASE UNCHANGED <<E, Q, O, D>>
      BY <1>7, <2>1 DEF Decision!decisionVars
    <2>2. UNCHANGED <<E, Q, O, D>> \/ Decision!DecisionNext
      <3> HIDE DEF E, Q, O, D
      <3> QED
        BY <1>1, <1>3, <1>4, <1>5, <1>7, OfficeMoves DEF OfficeMove
    <2> QED
      BY <2>1, <2>2
  <1>8. CASE ElectionNext
    <2>1. signed' = signed
      BY <1>8 DEF ElectionNext, Register, RegisterAlone, FundCoin, Deregister,
                  ReleaseAlone
    <2> QED
      BY <1>7, <2>1
  <1>9. CASE OfficersNext \/ AdvanceHeight \/ UNCHANGED vars
    <2>1. signed' = signed
      BY <1>9, CoinsUntouched
      DEF OfficersNext, SdkPrepareLaunch, SdkFinalize, CreateBallot, PrepareLaunch,
          LaunchBallot, Finalize
    <2> QED
      BY <1>7, <2>1
  <1> QED
    BY <1>6, <1>8, <1>9 DEF OfficeNext

\* However joins, leaves, launches and votes interleave, each ballot is an
\* electorate and a share fixed for good, and is decided at most once, by
\* endorsers in that electorate who carry the share.
THEOREM DecisionTheorem == OfficeSpec => ImplementsDecision
  <1>1. Init => Decision!DecisionInit
    <2> SUFFICES ASSUME Init PROVE Decision!DecisionInit
      OBVIOUS
    <2>1. \A b \in Ballot : /\ Electorate(b) = [v \in Voter |-> 0]
                            /\ Quorum(b) = [num |-> 0, den |-> 1]
                            /\ ~OracleOpen(b)
                            /\ ballot[b].outcome = NoOutcome
      BY DEF Init, Electorate, Quorum, OracleOpen, NoBallot
    <2>2. signed = {}
      BY DEF Init
    <2> QED
      BY <2>1, <2>2 DEF Decision!DecisionInit
  <1>2. OfficeInv /\ [OfficeNext]_vars
          => [Decision!DecisionNext]_Decision!decisionVars
    BY DecisionStep DEF OfficeInv
  <1> QED
    BY OfficeInvInit, OfficeInvStep, <1>1, <1>2, PTL
    DEF OfficeSpec, ImplementsDecision, Decision!DecisionSpec

------------------------------------------------------------------------------
(* The steps the SDK's actors take on the chain *)

ActorNext ==
  \/ \E v \in Voter, n \in 1..MaxRegistrations :
       \/ \E k \in Amount : Register(v, n, k)
       \/ Deregister(v, {n})
       \/ \E b \in Ballot, o \in Outcome :
            \/ \E k \in Stake :
                 MintVotingCoin(v, n, b, o, k, "counterpart", {<<v, b, o>>})
            \/ UpdateVote(v, n, b, b, o, "counterpart", {<<v, b, o>>})
  \/ \E b \in Ballot :
       \/ CreateBallot(b, {})
       \/ \E close \in Height, options \in OptionSets, threshold \in Threshold :
            SdkPrepareLaunch(b, close, options, threshold)
       \/ LaunchBallot(b)
       \/ \E o \in Outcome, S \in SUBSET Voter :
            SdkFinalize(b, o, S, ballot[b].tree, ballot[b].total)
  \/ AdvanceHeight

\* The officers among them keep the promises of ElectionOfficers.
LEMMA ActorsAreOfficers == [ActorNext]_vars => [OfficeNext]_vars
  <1> SUFFICES ASSUME ActorNext PROVE OfficeNext
    OBVIOUS
  <1>1. ASSUME NEW v \in Voter, NEW n \in 1..MaxRegistrations,
               \/ \E k \in Amount : Register(v, n, k)
               \/ Deregister(v, {n})
        PROVE  ElectionNext
    <2>1. {n} \in SUBSET (1..MaxRegistrations)
      OBVIOUS
    <2> QED
      BY <1>1, <2>1 DEF ElectionNext
  <1>2. ASSUME NEW v \in Voter, NEW n \in 1..MaxRegistrations,
               NEW b \in Ballot, NEW o \in Outcome,
               \/ \E k \in Stake :
                    MintVotingCoin(v, n, b, o, k, "counterpart", {<<v, b, o>>})
               \/ UpdateVote(v, n, b, b, o, "counterpart", {<<v, b, o>>})
        PROVE  VoteNext
    <2>1. "counterpart" \in Announcer /\ {<<v, b, o>>} \in SUBSET {<<v, b, o>>}
      BY DEF Announcer
    <2> QED
      BY <1>2, <2>1 DEF VoteNext
  <1>3. ASSUME NEW b \in Ballot,
               \/ CreateBallot(b, {})
               \/ \E close \in Height, options \in OptionSets, threshold \in Threshold :
                    SdkPrepareLaunch(b, close, options, threshold)
               \/ LaunchBallot(b)
               \/ \E o \in Outcome, S \in SUBSET Voter :
                    SdkFinalize(b, o, S, ballot[b].tree, ballot[b].total)
        PROVE  OfficersNext
    BY <1>3, ClientAssumption DEF OfficersNext
  <1> QED
    BY <1>1, <1>2, <1>3 DEF ActorNext, OfficeNext

\* Whom the steps of a step's author do not write.
LEMMA ActorsWriteVotes ==
  ASSUME [ActorNext]_vars
  PROVE  \/ UNCHANGED <<votingCoin, signed>>
         \/ \E v \in Voter, n \in 1..MaxRegistrations, b \in Ballot, o \in Outcome :
              \/ \E k \in Stake :
                   MintVotingCoin(v, n, b, o, k, "counterpart", {<<v, b, o>>})
              \/ UpdateVote(v, n, b, b, o, "counterpart", {<<v, b, o>>})
  <1>1. ASSUME NEW v, NEW n,
               (\E k \in Amount : Register(v, n, k)) \/ Deregister(v, {n})
        PROVE  UNCHANGED <<votingCoin, signed>>
    BY <1>1 DEF Register, Deregister
  <1>2. ASSUME NEW b,
               \/ CreateBallot(b, {})
               \/ \E close, options, threshold :
                    SdkPrepareLaunch(b, close, options, threshold)
               \/ LaunchBallot(b)
               \/ \E o, S : SdkFinalize(b, o, S, ballot[b].tree, ballot[b].total)
        PROVE  UNCHANGED <<votingCoin, signed>>
    BY <1>2 DEF CreateBallot, SdkPrepareLaunch, PrepareLaunch, LaunchBallot,
                SdkFinalize, Finalize
  <1>3. CASE AdvanceHeight \/ UNCHANGED vars
    BY <1>3 DEF AdvanceHeight, vars
  <1> QED
    BY <1>1, <1>2, <1>3 DEF ActorNext

\* Mint and update alike write the Voting Coin of one voter and ballot, whose
\* signature for that ballot they carry.
VoteWrite(v, n, b, o) ==
  /\ \E coin \in VotingCoin :
       /\ coin.vote = o /\ coin.cast = b
       /\ votingCoin' = [votingCoin EXCEPT ![<<v, n, b>>] = coin]
  /\ signed' = signed \cup {<<v, b, o>>}

LEMMA VoteWrites ==
  ASSUME TypeInv, [ActorNext]_vars, ~UNCHANGED <<votingCoin, signed>>
  PROVE  \E v \in Voter, n \in 1..MaxRegistrations, b \in Ballot, o \in Outcome :
           VoteWrite(v, n, b, o)
  <1>types. height \in Height /\ votingCoin \in [VotingCoinId -> VotingCoin]
    BY DEF TypeInv, TypeOK
  <1>1. PICK v \in Voter, n \in 1..MaxRegistrations, b \in Ballot, o \in Outcome :
          \/ \E k \in Stake :
               MintVotingCoin(v, n, b, o, k, "counterpart", {<<v, b, o>>})
          \/ UpdateVote(v, n, b, b, o, "counterpart", {<<v, b, o>>})
    BY ActorsWriteVotes
  <1>2. ASSUME NEW k \in Stake,
               MintVotingCoin(v, n, b, o, k, "counterpart", {<<v, b, o>>})
        PROVE  VoteWrite(v, n, b, o)
    <2> DEFINE coin == [vote |-> o, cast |-> b, at |-> height, amount |-> k]
    <2>1. coin \in VotingCoin /\ coin.vote = o /\ coin.cast = b
      BY <1>types, ConstantsAssumption DEF VotingCoin
    <2>2. votingCoin' = [votingCoin EXCEPT ![<<v, n, b>>] = coin]
          /\ signed' = signed \cup {<<v, b, o>>}
      BY <1>2 DEF MintVotingCoin
    <2> HIDE DEF coin
    <2> QED
      BY <2>1, <2>2 DEF VoteWrite
  <1>3. ASSUME UpdateVote(v, n, b, b, o, "counterpart", {<<v, b, o>>})
        PROVE  VoteWrite(v, n, b, o)
    <2> DEFINE coin == [votingCoin[<<v, n, b>>]
                          EXCEPT !.vote = o, !.cast = b, !.at = height]
    <2>0. votingCoin[<<v, n, b>>] \in VotingCoin
      BY <1>types DEF VotingCoinId
    <2>1. coin \in VotingCoin /\ coin.vote = o /\ coin.cast = b
      BY <1>types, <2>0 DEF VotingCoin
    <2>2. votingCoin' = [votingCoin EXCEPT ![<<v, n, b>>] = coin]
          /\ signed' = signed \cup {<<v, b, o>>}
      BY <1>3 DEF UpdateVote
    <2> HIDE DEF coin
    <2> QED
      BY <2>1, <2>2 DEF VoteWrite
  <1> QED
    BY <1>1, <1>2, <1>3

\* What a Voting Coin says now, its voter has signed.
StandingVotesAreSigned ==
  \A k \in VotingCoinId :
    Minted(k) => <<k[1], votingCoin[k].cast, votingCoin[k].vote>> \in signed

\* Actors sign a vote for a ballot in the spend of its Voting Coin.
SignedVotesAreMinted ==
  \A s \in signed : \E n \in 1..MaxRegistrations : Minted(<<s[1], n, s[2]>>)

LEMMA StandingVotesStep ==
  ASSUME TypeInv, StandingVotesAreSigned, [ActorNext]_vars
  PROVE  StandingVotesAreSigned'
  <1> SUFFICES ASSUME NEW k \in VotingCoinId, Minted(k)'
               PROVE  <<k[1], votingCoin'[k].cast, votingCoin'[k].vote>> \in signed'
    BY DEF StandingVotesAreSigned
  <1>0. signed \subseteq signed'
    BY ActorsAreOfficers, OfficeIsChain, SignaturesStay
  <1>1. CASE votingCoin'[k] = votingCoin[k]
    BY <1>0, <1>1 DEF StandingVotesAreSigned, Minted
  <1>2. CASE votingCoin'[k] # votingCoin[k]
    <2>1. PICK v \in Voter, n \in 1..MaxRegistrations, b \in Ballot, o \in Outcome :
            VoteWrite(v, n, b, o)
      BY <1>2, VoteWrites
    <2>2. PICK coin \in VotingCoin :
            /\ coin.vote = o /\ coin.cast = b
            /\ votingCoin' = [votingCoin EXCEPT ![<<v, n, b>>] = coin]
      BY <2>1 DEF VoteWrite
    <2>3. votingCoin \in [VotingCoinId -> VotingCoin]
      BY DEF TypeInv, TypeOK
    <2>4. k = <<v, n, b>> /\ votingCoin'[k] = coin
      BY <1>2, <2>2, <2>3
    <2>5. k[1] = v
      BY <2>4
    <2>6. <<v, b, o>> \in signed'
      BY <2>1 DEF VoteWrite
    <2> QED
      BY <2>2, <2>4, <2>5, <2>6
  <1> QED
    BY <1>1, <1>2

LEMMA MintedVotesStep ==
  ASSUME TypeInv, SignedVotesAreMinted, [ActorNext]_vars
  PROVE  SignedVotesAreMinted'
  <1>types. /\ votingCoin \in [VotingCoinId -> VotingCoin]
            /\ signed \subseteq Voter \X Ballot \X Outcome
            /\ NoOutcome \notin Outcome
    BY ConstantsAssumption DEF TypeInv, TypeOK
  <1>chain. [Next]_vars
    BY ActorsAreOfficers, OfficeIsChain
  <1>1. ASSUME NEW s \in signed
        PROVE  \E n \in 1..MaxRegistrations : Minted(<<s[1], n, s[2]>>)'
    <2>1. PICK n \in 1..MaxRegistrations : Minted(<<s[1], n, s[2]>>)
      BY DEF SignedVotesAreMinted
    <2>2. <<s[1], n, s[2]>> \in VotingCoinId
      BY <1>types DEF VotingCoinId
    <2> QED
      BY <2>1, <2>2, <1>chain, VotingCoinMoves
  <1>2. ASSUME NEW s \in signed', s \notin signed
        PROVE  \E n \in 1..MaxRegistrations : Minted(<<s[1], n, s[2]>>)'
    <2>1. PICK v \in Voter, n \in 1..MaxRegistrations, b \in Ballot, o \in Outcome :
            VoteWrite(v, n, b, o)
      BY <1>2, VoteWrites
    <2>2. s = <<v, b, o>>
      BY <1>2, <2>1 DEF VoteWrite
    <2>3. s[1] = v /\ s[2] = b
      BY <2>2
    <2>4. PICK coin \in VotingCoin :
            /\ coin.vote = o
            /\ votingCoin' = [votingCoin EXCEPT ![<<v, n, b>>] = coin]
      BY <2>1 DEF VoteWrite
    <2>5. <<v, n, b>> \in VotingCoinId
      BY DEF VotingCoinId
    <2>6. Minted(<<v, n, b>>)'
      BY <2>4, <2>5, <1>types DEF Minted
    <2> QED
      BY <2>3, <2>6
  <1> QED
    BY <1>1, <1>2 DEF SignedVotesAreMinted

------------------------------------------------------------------------------
(* Leaves and coins, when every registration is an actor's *)

Live(v, n) == regCoin[<<v, n>>].status = "live"

\* The voter of a leaf has one live coin, which locked what the leaf says; a
\* voter without a leaf has none.
VoterStrand(v) ==
  IF Registered(tree, v)
    THEN \E n \in 1..MaxRegistrations :
           /\ Live(v, n)
           /\ regCoin[<<v, n>>].locked = tree[SlotOf[v]].locked
           /\ \A m \in 1..MaxRegistrations : Live(v, m) => m = n
    ELSE \A n \in 1..MaxRegistrations : ~Live(v, n)

StrandInv == \A v \in Voter : VoterStrand(v)

\* A step that neither touches v's leaf nor what its coins are.
LEMMA StrandKeeps ==
  ASSUME NEW v \in Voter, VoterStrand(v),
         Registered(tree', v) <=> Registered(tree, v),
         Registered(tree, v) => tree'[SlotOf[v]] = tree[SlotOf[v]],
         \A n \in 1..MaxRegistrations :
           /\ regCoin'[<<v, n>>].status = regCoin[<<v, n>>].status
           /\ regCoin'[<<v, n>>].locked = regCoin[<<v, n>>].locked
  PROVE  VoterStrand(v)'
  <1>1. CASE Registered(tree, v)
    <2>1. PICK n \in 1..MaxRegistrations :
            /\ Live(v, n)
            /\ regCoin[<<v, n>>].locked = tree[SlotOf[v]].locked
            /\ \A m \in 1..MaxRegistrations : Live(v, m) => m = n
      BY <1>1 DEF VoterStrand
    <2>2. /\ Live(v, n)'
          /\ regCoin'[<<v, n>>].locked = tree'[SlotOf[v]].locked
          /\ \A m \in 1..MaxRegistrations : Live(v, m)' => m = n
      BY <1>1, <2>1 DEF Live
    <2> QED
      BY <1>1, <2>2 DEF VoterStrand
  <1>2. CASE ~Registered(tree, v)
    BY <1>2 DEF VoterStrand, Live
  <1> QED
    BY <1>1, <1>2

LEMMA StrandStep ==
  ASSUME TypeInv, StrandInv, [ActorNext]_vars
  PROVE  StrandInv'
  <1>types. /\ tree \in [Slot -> Leaf]
            /\ regCoin \in [RegistrationId -> RegCoin]
            /\ SlotOf \in [Voter -> Slot]
            /\ NoVoter \notin Voter
    BY ConstantsAssumption DEF TypeInv, TypeOK
  <1>id. \A v \in Voter, n \in 1..MaxRegistrations : <<v, n>> \in RegistrationId
    BY DEF RegistrationId
  <1>1. ASSUME NEW v \in Voter, NEW n \in 1..MaxRegistrations,
               NEW k \in Amount, Register(v, n, k), NEW u \in Voter
        PROVE  VoterStrand(u)'
    <2>1. /\ tree[SlotOf[v]] = EmptyLeaf
          /\ tree' = [tree EXCEPT ![SlotOf[v]] = [pk |-> v, locked |-> k]]
          /\ regCoin' = [regCoin EXCEPT ![<<v, n>>] =
                           [status |-> "live", locked |-> k, amount |-> k,
                            voted |-> {}]]
      BY <1>1 DEF Register, CanRegister, AddLeaf, CreateCoin, AnnouncedAmount
    <2>2. ~Registered(tree, v)
      BY <2>1, <1>types DEF Registered, EmptyLeaf
    <2>3. CASE u = v
      <3>1. /\ Registered(tree', v)
            /\ tree'[SlotOf[v]].locked = k
        BY <2>1, <1>types DEF Registered
      <3>2. Live(v, n)' /\ regCoin'[<<v, n>>].locked = k
        BY <2>1, <1>types, <1>id DEF Live
      <3>3. ASSUME NEW m \in 1..MaxRegistrations, m # n PROVE ~Live(v, m)'
        <4>1. ~Live(v, m)
          BY <2>2 DEF StrandInv, VoterStrand
        <4>2. <<v, m>> # <<v, n>>
          BY <3>3
        <4> QED
          BY <2>1, <4>1, <4>2, <1>types, <1>id DEF Live
      <3> QED
        BY <2>3, <3>1, <3>2, <3>3 DEF VoterStrand
    <2>4. CASE u # v
      <3>1. /\ Registered(tree', u) <=> Registered(tree, u)
            /\ Registered(tree, u) => tree'[SlotOf[u]] = tree[SlotOf[u]]
        <4>1. CASE SlotOf[u] = SlotOf[v]
          BY <2>1, <2>4, <4>1, <1>types DEF Registered, EmptyLeaf
        <4>2. CASE SlotOf[u] # SlotOf[v]
          BY <2>1, <4>2, <1>types DEF Registered
        <4> QED
          BY <4>1, <4>2
      <3>2. \A m \in 1..MaxRegistrations : regCoin'[<<u, m>>] = regCoin[<<u, m>>]
        BY <2>1, <2>4, <1>types, <1>id
      <3> QED
        BY <3>1, <3>2, StrandKeeps DEF StrandInv
    <2> QED
      BY <2>3, <2>4
  <1>2. ASSUME NEW v \in Voter, NEW n \in 1..MaxRegistrations,
               Deregister(v, {n}), NEW u \in Voter
        PROVE  VoterStrand(u)'
    <2>1. /\ Registered(tree, v) /\ Live(v, n)
          /\ tree' = [tree EXCEPT ![SlotOf[v]] = EmptyLeaf]
          /\ regCoin' = Released(v, {n})
      BY <1>2 DEF Deregister, CanDeregister, MembershipProof, Live
    <2>2. \A c \in RegistrationId : c # <<v, n>> => regCoin'[c] = regCoin[c]
      <3> SUFFICES ASSUME NEW c \in RegistrationId, c # <<v, n>>
                   PROVE  ~(c[1] = v /\ c[2] \in {n})
        BY <2>1 DEF Released
      <3> QED
        BY DEF RegistrationId
    <2>3. regCoin'[<<v, n>>].status = "released"
      BY <2>1, <1>types, <1>id DEF Released, RegCoin
    <2>4. CASE u = v
      <3>1. ~Registered(tree', v)
        BY <2>1, <1>types DEF Registered, EmptyLeaf
      <3>2. \A m \in 1..MaxRegistrations : Live(v, m) => m = n
        BY <2>1 DEF StrandInv, VoterStrand
      <3>3. ASSUME NEW m \in 1..MaxRegistrations PROVE ~Live(v, m)'
        <4>1. CASE m = n
          BY <4>1, <2>3 DEF Live
        <4>2. CASE m # n
          BY <4>2, <3>2, <2>2, <1>id DEF Live
        <4> QED
          BY <4>1, <4>2
      <3> QED
        BY <2>4, <3>1, <3>3 DEF VoterStrand
    <2>5. CASE u # v
      <3>1. /\ Registered(tree', u) <=> Registered(tree, u)
            /\ Registered(tree, u) => tree'[SlotOf[u]] = tree[SlotOf[u]]
        BY <2>1, <2>5, <1>types DEF Registered, EmptyLeaf
      <3>2. \A m \in 1..MaxRegistrations : regCoin'[<<u, m>>] = regCoin[<<u, m>>]
        BY <2>2, <2>5, <1>id
      <3> QED
        BY <3>1, <3>2, StrandKeeps DEF StrandInv
    <2> QED
      BY <2>4, <2>5
  <1>3. ASSUME NEW v \in Voter, NEW n \in 1..MaxRegistrations, NEW b \in Ballot,
               NEW o \in Outcome, NEW k \in Stake,
               MintVotingCoin(v, n, b, o, k, "counterpart", {<<v, b, o>>}),
               NEW u \in Voter
        PROVE  VoterStrand(u)'
    <2>1. tree' = tree
      BY <1>3 DEF MintVotingCoin, electionVars
    <2>2. regCoin' = [regCoin EXCEPT ![<<v, n>>].voted = @ \cup {b},
                                     ![<<v, n>>].amount = Residual(@, k)]
      BY <1>3 DEF MintVotingCoin
    <2>3. ASSUME NEW c \in RegistrationId
          PROVE  /\ regCoin'[c].status = regCoin[c].status
                 /\ regCoin'[c].locked = regCoin[c].locked
      <3>1. regCoin[c] \in RegCoin
        BY <1>types
      <3>2. CASE c = <<v, n>>
        BY <2>2, <3>1, <3>2, <1>types DEF RegCoin
      <3>3. CASE c # <<v, n>>
        BY <2>2, <3>3, <1>types
      <3> QED
        BY <3>2, <3>3
    <2> QED
      BY <2>1, <2>3, <1>id, StrandKeeps DEF StrandInv
  <1>4. ASSUME UNCHANGED <<tree, regCoin>> PROVE StrandInv'
    BY <1>4 DEF StrandInv, VoterStrand, Registered, Live
  <1>5. ASSUME NEW b,
               \/ CreateBallot(b, {})
               \/ \E close, options, threshold :
                    SdkPrepareLaunch(b, close, options, threshold)
               \/ LaunchBallot(b)
               \/ \E o, S : SdkFinalize(b, o, S, ballot[b].tree, ballot[b].total)
        PROVE  UNCHANGED <<tree, regCoin>>
    BY <1>5 DEF CreateBallot, SdkPrepareLaunch, PrepareLaunch, LaunchBallot,
                SdkFinalize, Finalize, electionVars
  <1>6. ASSUME NEW v, NEW n, NEW b, NEW o,
               UpdateVote(v, n, b, b, o, "counterpart", {<<v, b, o>>})
        PROVE  UNCHANGED <<tree, regCoin>>
    BY <1>6 DEF UpdateVote, electionVars
  <1>7. CASE AdvanceHeight \/ UNCHANGED vars
    BY <1>4, <1>7 DEF AdvanceHeight, vars, electionVars
  <1> QED
    BY <1>1, <1>2, <1>3, <1>4, <1>5, <1>6, <1>7 DEF ActorNext, StrandInv

\* Some Registration Coin of v locked this much.
LockedBy(v, amount) ==
  \E n \in 1..MaxRegistrations :
    regCoin[<<v, n>>].status # "none" /\ regCoin[<<v, n>>].locked = amount

SnapshotsWereLocked ==
  \A b \in Ballot : ballot[b].phase \in {"drafted", "launched"} =>
    \A v \in Voter : Registered(ballot[b].tree, v) =>
      LockedBy(v, ballot[b].tree[SlotOf[v]].locked)

LEMMA LockedKeeps ==
  ASSUME TypeInv, [Next]_vars, NEW v \in Voter, NEW amount, LockedBy(v, amount)
  PROVE  LockedBy(v, amount)'
  <1>1. PICK n \in 1..MaxRegistrations :
          regCoin[<<v, n>>].status # "none" /\ regCoin[<<v, n>>].locked = amount
    BY DEF LockedBy
  <1>2. RegCoinMove(<<v, n>>)
    BY RegCoinMoves DEF RegistrationId
  <1>3. regCoin'[<<v, n>>].status # "none" /\ regCoin'[<<v, n>>].locked = amount
    BY <1>1, <1>2 DEF RegCoinMove
  <1> QED
    BY <1>3 DEF LockedBy

LEMMA SnapshotsStep ==
  ASSUME TypeInv, StrandInv, SnapshotsWereLocked, [ActorNext]_vars
  PROVE  SnapshotsWereLocked'
  <1>types. ballot \in [Ballot -> BallotCoin]
    BY DEF TypeInv, TypeOK
  <1>office. [OfficeNext]_vars /\ [Next]_vars
    BY ActorsAreOfficers, OfficeIsChain
  <1> SUFFICES ASSUME NEW b \in Ballot, NEW v \in Voter,
                      ballot'[b].phase \in {"drafted", "launched"},
                      Registered(ballot'[b].tree, v)
               PROVE  LockedBy(v, ballot[b].tree[SlotOf[v]].locked)'
    BY DEF SnapshotsWereLocked
  <1>1. CASE /\ ballot[b].phase \in {"drafted", "launched"}
             /\ ballot'[b].tree = ballot[b].tree
    <2>1. PICK amount : amount = ballot[b].tree[SlotOf[v]].locked
      OBVIOUS
    <2>2. LockedBy(v, amount)
      BY <1>1, <2>1 DEF SnapshotsWereLocked
    <2>3. LockedBy(v, amount)'
      BY <2>2, <1>office, LockedKeeps
    <2> QED
      BY <1>1, <2>1, <2>3 DEF LockedBy
  <1>2. CASE ballot'[b].tree = tree
    <2>1. PICK amount : amount = tree[SlotOf[v]].locked
      OBVIOUS
    <2>2. Registered(tree, v)
      BY <1>2
    <2>3. LockedBy(v, amount)
      BY <2>1, <2>2 DEF StrandInv, VoterStrand, LockedBy, Live
    <2>4. LockedBy(v, amount)'
      BY <2>3, <1>office, LockedKeeps
    <2> QED
      BY <1>2, <2>1, <2>4 DEF LockedBy
  <1>3. CASE ballot'[b] = ballot[b]
    BY <1>1, <1>3
  <1>4. CASE Prepared(b)
    BY <1>2, <1>4 DEF Prepared
  <1>5. CASE Opened(b)
    BY <1>1, <1>5, <1>types DEF Opened, BallotCoin
  <1>6. CASE \E o \in Outcome, S \in SUBSET Voter : Decided(b, o, S)
    BY <1>1, <1>6, <1>types DEF Decided, OracleOpen, BallotCoin
  <1> QED
    BY <1>1, <1>3, <1>4, <1>5, <1>6, <1>office, OfficeMoves DEF OfficeMove

\* What holds in every state, when every party uses the SDK.
ActorInv ==
  /\ OfficeInv
  /\ OutcomeHasQuorum
  /\ MintsAreRecorded
  /\ StandingVotesAreSigned
  /\ SignedVotesAreMinted
  /\ StrandInv
  /\ SnapshotsWereLocked

LEMMA ActorInvInit == Init => ActorInv
  <1> SUFFICES ASSUME Init PROVE ActorInv
    OBVIOUS
  <1>1. OfficeInv
    BY OfficeInvInit
  <1>2. OutcomeHasQuorum /\ SnapshotsWereLocked
    BY DEF Init, OutcomeHasQuorum, SnapshotsWereLocked, NoBallot
  <1>3. MintsAreRecorded /\ StandingVotesAreSigned
    <2>1. \A k \in VotingCoinId : ~Minted(k)
      BY DEF Init, Minted
    <2>2. \A v \in Voter, n \in 1..MaxRegistrations, b \in Ballot :
            <<v, n, b>> \in VotingCoinId
      BY DEF VotingCoinId
    <2> QED
      BY <2>1, <2>2 DEF MintsAreRecorded, StandingVotesAreSigned
  <1>4. SignedVotesAreMinted
    BY DEF Init, SignedVotesAreMinted
  <1>5. StrandInv
    <2> SUFFICES ASSUME NEW v \in Voter PROVE VoterStrand(v)
      BY DEF StrandInv
    <2>1. ~Registered(tree, v)
      BY ConstantsAssumption DEF Init, Registered, EmptyTree, EmptyLeaf
    <2>2. \A n \in 1..MaxRegistrations : ~Live(v, n)
      BY DEF Init, Live, RegistrationId, NoRegCoin
    <2> QED
      BY <2>1, <2>2 DEF VoterStrand
  <1> QED
    BY <1>1, <1>2, <1>3, <1>4, <1>5 DEF ActorInv

LEMMA ActorInvStep == ActorInv /\ [ActorNext]_vars => ActorInv'
  <1> SUFFICES ASSUME ActorInv, [ActorNext]_vars PROVE ActorInv'
    OBVIOUS
  <1>1. [OfficeNext]_vars /\ [Next]_vars
    BY ActorsAreOfficers, OfficeIsChain
  <1>2. TypeInv
    BY DEF ActorInv, OfficeInv
  <1>3. OfficeInv' /\ OutcomeHasQuorum'
    BY <1>1, OfficeInvStep, QuorumStep DEF ActorInv
  <1>4. MintsAreRecorded' /\ StandingVotesAreSigned' /\ SignedVotesAreMinted'
    BY <1>1, <1>2, RecordedStep, StandingVotesStep, MintedVotesStep DEF ActorInv
  <1>5. StrandInv' /\ SnapshotsWereLocked'
    BY <1>2, StrandStep, SnapshotsStep DEF ActorInv
  <1> QED
    BY <1>3, <1>4, <1>5 DEF ActorInv

LEMMA ActorsStrandNothing == ActorInv => NothingStranded
  BY DEF ActorInv, StrandInv, VoterStrand, Live, NothingStranded

LEMMA ActorsPay == ActorInv => CountedVotesWerePaidFor
  <1> SUFFICES ASSUME ActorInv, NEW b \in Ballot, ballot[b].finalized,
                      NEW v \in ballot[b].signers
               PROVE  \E m, n \in 1..MaxRegistrations :
                        /\ regCoin[<<v, n>>].status # "none"
                        /\ regCoin[<<v, n>>].locked = LockedAmount(ballot[b].tree, v)
                        /\ Minted(<<v, m, b>>)
    BY DEF CountedVotesWerePaidFor
  <1>1. v \in Voter /\ ballot[b].phase = "launched"
    BY DEF ActorInv, OfficeInv, TypeInv, TypeOK, BallotCoin, BallotInv
  <1>2. Registered(ballot[b].tree, v) /\ <<v, b, ballot[b].outcome>> \in signed
    BY DEF ActorInv, OutcomeHasQuorum
  <1>3. PICK m \in 1..MaxRegistrations : Minted(<<v, m, b>>)
    <2> DEFINE s == <<v, b, ballot[b].outcome>>
    <2>1. s \in signed /\ s[1] = v /\ s[2] = b
      BY <1>2
    <2> HIDE DEF s
    <2> QED
      BY <2>1 DEF ActorInv, SignedVotesAreMinted
  <1>4. PICK n \in 1..MaxRegistrations :
          /\ regCoin[<<v, n>>].status # "none"
          /\ regCoin[<<v, n>>].locked = ballot[b].tree[SlotOf[v]].locked
    BY <1>1, <1>2 DEF ActorInv, SnapshotsWereLocked, LockedBy
  <1> QED
    BY <1>2, <1>3, <1>4 DEF LockedAmount

------------------------------------------------------------------------------
(* Drafts *)

\* The arguments of c's draft d are ones the chain's actions range over.
ArgumentsOK(c, d) ==
  /\ d.op = "none" => d.pc = "idle"
  /\ d.op \in {"register", "cast", "update", "release"} =>
       c \in Voter /\ d.n \in 1..MaxRegistrations
  /\ d.op \in {"cast", "update"} => d.o \in Outcome
  /\ d.op = "finalize" /\ d.pc # "synced" => d.o \in Outcome
  /\ d.op = "register" => d.k \in Amount
  /\ d.op = "cast" => d.k \in Stake

\* The coins d has read so far are among its bundle's inputs.
InputsOK(c, d) ==
  /\ d.op = "register" /\ d.pc = "built" => ElectionKey \in d.inputs
  /\ d.op = "release" /\ d.pc # "synced" => ElectionKey \in d.inputs
  /\ d.op = "release" /\ d.pc = "built" => RegKey(c, d.n) \in d.inputs
  /\ d.op = "cast" => RegKey(c, d.n) \in d.inputs
  /\ d.op \in {"cast", "update", "finalize"} /\ d.pc = "built" =>
       BallotKey(d.b) \in d.inputs

DraftOK(c, d) == d \in Draft /\ ArgumentsOK(c, d) /\ InputsOK(c, d)

DraftInv ==
  /\ draft \in [Client -> Draft]
  /\ \A c \in Client : DraftOK(c, draft[c])

\* What the checks of c's call have established of the chain by now; nobody
\* else's bundle can undo it, so it holds of a stale draft too.
Grounded(c, d) ==
  /\ d.op = "register" =>
       SufficientCollateral(d.k) /\ NewCoin(c, d.n)
  /\ d.op = "cast" /\ d.pc = "built" => StakeFits(d)
  /\ d.op \in {"cast", "update"} /\ d.pc = "built" =>
       ballot[d.b].phase = "launched" /\ ballot[d.b].options = {}
  /\ d.op = "update" => Minted(<<c, d.n, d.b>>)
  /\ d.op = "release" => regCoin[<<c, d.n>>].status = "live"
  /\ d.op = "create" =>
       /\ c = Issuer
       /\ ballot[d.b].phase = "none"
       /\ d.pc = "built" => VoteModeLock = NoLock
  /\ d.op = "finalize" =>
       /\ ballot[d.b].phase = "launched"
       /\ \A s \in d.votes : <<s[1], d.b, s[2]>> \in signed
       /\ d.pc # "synced" =>
            Provable(d.smt, ballot[d.b].total, ballot[d.b].threshold,
                     SignersOf(d, d.o))
       /\ d.pc = "built" => d.smt = ballot[d.b].tree

GroundedDrafts == \A c \in Client : Grounded(c, draft[c])

LEMMA SomeBallot == NoDraft.b \in Ballot
  BY ClientAssumption DEF NoDraft

\* A call that has not begun is a draft.
LEMMA NoDraftOK == ASSUME NEW c PROVE DraftOK(c, NoDraft)
  <1>1. NoOutcome \in Outcome \cup {NoOutcome} /\ 0 \in 0..MaxRegistrations
    BY ConstantsAssumption
  <1>2. NoDraft \in Draft
    BY <1>1, SomeBallot, CoinTypes DEF NoDraft, Draft
  <1>3. NoDraft.op = "none" /\ NoDraft.pc = "idle"
    BY DEF NoDraft
  <1> QED
    BY <1>2, <1>3 DEF DraftOK, ArgumentsOK, InputsOK

\* A draft that turns stale is a draft still, and nothing else of it changes.
LEMMA OvertakenOK ==
  ASSUME NEW c \in Client, NEW I, draft \in [Client -> Draft],
         DraftOK(c, draft[c])
  PROVE  LET d == draft[c]
             e == Overtaken(I)[c] IN
         /\ DraftOK(c, e)
         /\ e.op = d.op /\ e.pc = d.pc /\ e.n = d.n /\ e.b = d.b
         /\ e.smt = d.smt /\ e.inputs = d.inputs
         /\ e.o = d.o /\ e.k = d.k /\ e.votes = d.votes
         /\ e.stale = (d.stale \/ d.inputs \cap I # {})
  <1> DEFINE d == draft[c]
             e == Overtaken(I)[c]
  <1>1. d \in Draft
    OBVIOUS
  <1>2. e = [d EXCEPT !.stale = @ \/ d.inputs \cap I # {}]
    BY DEF Overtaken
  <1>3. /\ e.op = d.op /\ e.pc = d.pc /\ e.n = d.n /\ e.b = d.b /\ e.o = d.o
        /\ e.k = d.k /\ e.smt = d.smt /\ e.inputs = d.inputs
        /\ e.votes = d.votes
        /\ e.stale = (d.stale \/ d.inputs \cap I # {})
    BY <1>1, <1>2 DEF Draft
  <1>4. e \in Draft
    <2>1. (d.stale \/ d.inputs \cap I # {}) \in BOOLEAN
      BY <1>1 DEF Draft
    <2> QED
      BY <1>1, <1>2, <2>1 DEF Draft
  <1> HIDE DEF e
  <1>5. DraftOK(c, e)
    BY <1>3, <1>4 DEF DraftOK, ArgumentsOK, InputsOK
  <1> QED
    BY <1>3, <1>5 DEF e

\* What a client may make of its draft without a bundle landing.
Planned(c, d) ==
  /\ DraftOK(c, d) /\ FreshDraft(c, d) /\ Grounded(c, d)
  /\ draft' = [draft EXCEPT ![c] = d]

LEMMA NoDraftFits ==
  ASSUME NEW c PROVE FreshDraft(c, NoDraft) /\ Grounded(c, NoDraft)
  <1>1. NoDraft.op = "none"
    BY DEF NoDraft
  <1> QED
    BY <1>1 DEF FreshDraft, Grounded

LEMMA CheckPlans ==
  ASSUME NEW c \in Client, NEW ok \in BOOLEAN, NEW d, DraftOK(c, d),
         ok => FreshDraft(c, d) /\ Grounded(c, d),
         Check(c, ok, d)
  PROVE  UNCHANGED vars /\ \E e : Planned(c, e)
  <1>1. CASE ok
    BY <1>1 DEF Check, Set, Planned
  <1>2. CASE ~ok
    BY <1>2, NoDraftOK, NoDraftFits DEF Check, Set, Planned
  <1> QED
    BY <1>1, <1>2

Planning == UNCHANGED vars /\ \E c \in Client : \E d : Planned(c, d)

\* Every phase of a call before its bundle lands leaves the chain alone and a
\* draft whose arguments and inputs are in order.
LEMMA VoterPlans ==
  ASSUME DraftInv, FreshDraftsMatchChain, GroundedDrafts, NEW v \in Voter,
         \/ \E n \in 1..MaxRegistrations :
              \/ \E amount \in Amount : StartRegister(v, n, amount)
              \/ \E b \in Ballot, o \in Outcome : StartUpdate(v, n, b, o)
              \/ StartRelease(v, n)
         \/ \E b \in Ballot, o \in Outcome, k \in Stake : StartCast(v, b, o, k)
         \/ BuildRegister(v) \/ BuildCast(v) \/ BuildUpdate(v)
         \/ ReadForRelease(v) \/ BuildRelease(v)
         \/ Drop(v),
         tree \in [Slot -> Leaf]
  PROVE  Planning
  <1>c. /\ v \in Client /\ draft[v] \in Draft /\ DraftOK(v, draft[v])
        /\ FreshDraft(v, draft[v]) /\ Grounded(v, draft[v])
    BY DEF Client, DraftInv, FreshDraftsMatchChain, GroundedDrafts
  <1>n. NoDraft \in Draft /\ NoDraft.op = "none" /\ NoDraft.inputs = {}
    BY NoDraftOK DEF DraftOK, NoDraft
  <1>m. \A n \in 1..MaxRegistrations : n \in 0..MaxRegistrations
    BY ConstantsAssumption
  <1>key. /\ ElectionKey \in CoinKey
          /\ \A b \in Ballot : BallotKey(b) \in CoinKey
          /\ \A n \in 1..MaxRegistrations : RegKey(v, n) \in CoinKey
          /\ \A n \in 1..MaxRegistrations, b \in Ballot :
               VotingKey(v, n, b) \in CoinKey
    BY DEF CoinKey, ElectionKey, BallotKey, RegKey, VotingKey, RegistrationId,
           VotingCoinId
  <1>1. ASSUME NEW n \in 1..MaxRegistrations, NEW amount \in Amount,
               StartRegister(v, n, amount)
        PROVE  Planning
    <2> DEFINE d == [NoDraft EXCEPT !.op = "register", !.pc = "synced", !.n = n,
                                    !.k = amount, !.smt = tree]
    <2>1. amount \in Nat
      BY ConstantsAssumption
    <2>2. d \in Draft
      BY <1>n, <1>m, <2>1 DEF Draft
    <2>3. d.op = "register" /\ d.pc = "synced" /\ d.n = n /\ d.k = amount
      BY <1>n DEF Draft
    <2>4. UNCHANGED vars /\ draft' = [draft EXCEPT ![v] = d]
      BY <1>1 DEF StartRegister, Set
    <2> HIDE DEF d
    <2>5. DraftOK(v, d)
      BY <2>2, <2>3 DEF DraftOK, ArgumentsOK, InputsOK
    <2>f. FreshDraft(v, d)
      BY <2>3 DEF FreshDraft
    <2>g. Grounded(v, d)
      BY <1>1, <2>3 DEF Grounded, StartRegister
    <2> QED
      BY <2>4, <2>5, <2>f, <2>g, <1>c DEF Planning, Planned
  <1>2. ASSUME NEW n \in 1..MaxRegistrations, NEW b \in Ballot,
               NEW o \in Outcome, StartUpdate(v, n, b, o)
        PROVE  Planning
    <2> DEFINE d == [NoDraft EXCEPT !.op = "update", !.pc = "read", !.n = n,
                                    !.b = b, !.o = o,
                                    !.inputs = {VotingKey(v, n, b)}]
    <2>2. d \in Draft
      BY <1>n, <1>m, <1>key DEF Draft
    <2>3. d.op = "update" /\ d.pc = "read" /\ d.n = n /\ d.o = o /\ d.b = b
      BY <1>n DEF Draft
    <2>4. UNCHANGED vars /\ draft' = [draft EXCEPT ![v] = d]
      BY <1>2 DEF StartUpdate, Set
    <2> HIDE DEF d
    <2>5. DraftOK(v, d)
      BY <2>2, <2>3 DEF DraftOK, ArgumentsOK, InputsOK
    <2>f. FreshDraft(v, d)
      BY <2>3 DEF FreshDraft
    <2>g. Grounded(v, d)
      BY <1>2, <2>3 DEF Grounded, StartUpdate
    <2> QED
      BY <2>4, <2>5, <2>f, <2>g, <1>c DEF Planning, Planned
  <1>3. ASSUME NEW n \in 1..MaxRegistrations, StartRelease(v, n)
        PROVE  Planning
    <2> DEFINE d == [NoDraft EXCEPT !.op = "release", !.pc = "synced", !.n = n,
                                    !.smt = tree]
    <2>2. d \in Draft
      BY <1>n, <1>m DEF Draft
    <2>3. d.op = "release" /\ d.pc = "synced" /\ d.n = n /\ d.inputs = {}
      BY <1>n DEF Draft
    <2>4. UNCHANGED vars /\ draft' = [draft EXCEPT ![v] = d]
      BY <1>3 DEF StartRelease, Set
    <2> HIDE DEF d
    <2>5. DraftOK(v, d)
      BY <2>2, <2>3 DEF DraftOK, ArgumentsOK, InputsOK
    <2>f. FreshDraft(v, d)
      BY <2>3 DEF FreshDraft
    <2>g. Grounded(v, d)
      BY <1>3, <2>3 DEF Grounded, StartRelease
    <2> QED
      BY <2>4, <2>5, <2>f, <2>g, <1>c DEF Planning, Planned
  <1>4. ASSUME NEW b \in Ballot, NEW o \in Outcome, NEW k \in Stake,
               StartCast(v, b, o, k)
        PROVE  Planning
    <2>1. PICK n \in FreshRegistration(v) :
            Set(v, [NoDraft EXCEPT !.op = "cast", !.pc = "read", !.n = n,
                                   !.b = b, !.o = o, !.k = k,
                                   !.inputs = {RegKey(v, n)}])
      BY <1>4 DEF StartCast
    <2>n. n \in 1..MaxRegistrations
      BY DEF FreshRegistration
    <2> DEFINE d == [NoDraft EXCEPT !.op = "cast", !.pc = "read", !.n = n,
                                    !.b = b, !.o = o, !.k = k,
                                    !.inputs = {RegKey(v, n)}]
    <2>2. k \in Nat
      BY ConstantsAssumption
    <2>3. d \in Draft
      BY <1>n, <1>m, <1>key, <2>2, <2>n DEF Draft
    <2>4. /\ d.op = "cast" /\ d.pc = "read" /\ d.n = n /\ d.o = o /\ d.k = k
          /\ d.inputs = {RegKey(v, n)}
      BY <1>n DEF Draft
    <2>5. UNCHANGED vars /\ draft' = [draft EXCEPT ![v] = d]
      BY <2>1 DEF Set
    <2> HIDE DEF d
    <2>6. DraftOK(v, d)
      BY <2>3, <2>4, <2>n DEF DraftOK, ArgumentsOK, InputsOK
    <2>f. FreshDraft(v, d)
      BY <2>1, <2>4 DEF FreshDraft, FreshRegistration
    <2>g. Grounded(v, d)
      BY <2>4 DEF Grounded
    <2> QED
      BY <2>5, <2>6, <2>f, <2>g, <1>c DEF Planning, Planned
  <1>5. CASE BuildRegister(v)
    <2> DEFINE d == [draft[v] EXCEPT !.pc = "built", !.inputs = {ElectionKey}]
               ok == SameRoot(draft[v]) /\ SlotFree(draft[v], v)
    <2>1. d \in Draft
      BY <1>c, <1>key DEF Draft
    <2>2. /\ d.op = draft[v].op /\ d.n = draft[v].n /\ d.o = draft[v].o
          /\ d.k = draft[v].k /\ d.smt = draft[v].smt
          /\ d.stale = draft[v].stale /\ d.pc = "built" /\ d.inputs = {ElectionKey}
      BY <1>c DEF Draft
    <2>3. draft[v].op = "register" /\ Check(v, ok, d)
      BY <1>5 DEF BuildRegister, At
    <2> HIDE DEF d
    <2>4. DraftOK(v, d)
      BY <1>c, <2>1, <2>2, <2>3 DEF DraftOK, ArgumentsOK, InputsOK
    <2>f. ok => FreshDraft(v, d)
      BY <1>c, <2>2, <2>3 DEF FreshDraft, SameRoot, SlotFree
    <2>g. ok => Grounded(v, d)
      BY <1>c, <2>2, <2>3 DEF Grounded
    <2>5. ok \in BOOLEAN
      BY DEF SameRoot, SlotFree
    <2> HIDE DEF ok
    <2> QED
      BY <1>c, <2>3, <2>4, <2>5, <2>f, <2>g, CheckPlans DEF Planning
  <1>6. CASE BuildCast(v)
    <2> DEFINE d == [draft[v] EXCEPT
                       !.pc = "built",
                       !.inputs = @ \cup {BallotKey(draft[v].b)}]
               ok == FindsBallot(draft[v].b) /\ StakeFits(draft[v])
    <2>1. d \in Draft
      BY <1>c, <1>key DEF Draft
    <2>2. /\ d.op = draft[v].op /\ d.n = draft[v].n /\ d.o = draft[v].o
          /\ d.k = draft[v].k /\ d.smt = draft[v].smt
          /\ d.stale = draft[v].stale /\ d.pc = "built" /\ d.b = draft[v].b
          /\ d.inputs = draft[v].inputs \cup {BallotKey(draft[v].b)}
      BY <1>c DEF Draft
    <2>3. draft[v].op = "cast" /\ Check(v, ok, d)
      BY <1>6 DEF BuildCast, At
    <2> HIDE DEF d
    <2>4. DraftOK(v, d)
      BY <1>c, <2>1, <2>2, <2>3 DEF DraftOK, ArgumentsOK, InputsOK
    <2>f. ok => FreshDraft(v, d)
      BY <1>c, <2>2, <2>3 DEF FreshDraft, FindsBallot
    <2>g. ok => Grounded(v, d)
      BY <1>c, <2>2, <2>3 DEF Grounded, FindsBallot, OracleOpen, StakeFits
    <2>5. ok \in BOOLEAN
      BY DEF FindsBallot, StakeFits, OracleOpen
    <2> HIDE DEF ok
    <2> QED
      BY <1>c, <2>3, <2>4, <2>5, <2>f, <2>g, CheckPlans DEF Planning
  <1>7. CASE BuildUpdate(v)
    <2> DEFINE d == [draft[v] EXCEPT
                       !.pc = "built",
                       !.inputs = @ \cup {BallotKey(draft[v].b)}]
               ok == FindsBallot(draft[v].b)
    <2>1. d \in Draft
      BY <1>c, <1>key DEF Draft
    <2>2. /\ d.op = draft[v].op /\ d.n = draft[v].n /\ d.o = draft[v].o
          /\ d.k = draft[v].k /\ d.smt = draft[v].smt
          /\ d.stale = draft[v].stale /\ d.pc = "built" /\ d.b = draft[v].b
          /\ d.inputs = draft[v].inputs \cup {BallotKey(draft[v].b)}
      BY <1>c DEF Draft
    <2>3. draft[v].op = "update" /\ Check(v, ok, d)
      BY <1>7 DEF BuildUpdate, At
    <2> HIDE DEF d
    <2>4. DraftOK(v, d)
      BY <1>c, <2>1, <2>2, <2>3 DEF DraftOK, ArgumentsOK, InputsOK
    <2>f. ok => FreshDraft(v, d)
      BY <1>c, <2>2, <2>3 DEF FreshDraft, FindsBallot
    <2>g. ok => Grounded(v, d)
      BY <1>c, <2>2, <2>3 DEF Grounded, FindsBallot, OracleOpen
    <2>5. ok \in BOOLEAN
      BY DEF FindsBallot, OracleOpen
    <2> HIDE DEF ok
    <2> QED
      BY <1>c, <2>3, <2>4, <2>5, <2>f, <2>g, CheckPlans DEF Planning
  <1>8. CASE ReadForRelease(v)
    <2> DEFINE d == [draft[v] EXCEPT !.pc = "read", !.inputs = {ElectionKey}]
               ok == SameRoot(draft[v]) /\ Registered(draft[v].smt, v)
    <2>1. d \in Draft
      BY <1>c, <1>key DEF Draft
    <2>2. /\ d.op = draft[v].op /\ d.n = draft[v].n /\ d.o = draft[v].o
          /\ d.k = draft[v].k /\ d.smt = draft[v].smt
          /\ d.stale = draft[v].stale /\ d.pc = "read" /\ d.inputs = {ElectionKey}
      BY <1>c DEF Draft
    <2>3. draft[v].op = "release" /\ Check(v, ok, d)
      BY <1>8 DEF ReadForRelease, At
    <2> HIDE DEF d
    <2>4. DraftOK(v, d)
      BY <1>c, <2>1, <2>2, <2>3 DEF DraftOK, ArgumentsOK, InputsOK
    <2>f. ok => FreshDraft(v, d)
      BY <1>c, <2>2, <2>3 DEF FreshDraft, SameRoot
    <2>g. ok => Grounded(v, d)
      BY <1>c, <2>2, <2>3 DEF Grounded
    <2>5. ok \in BOOLEAN
      BY DEF SameRoot, Registered
    <2> HIDE DEF ok
    <2> QED
      BY <1>c, <2>3, <2>4, <2>5, <2>f, <2>g, CheckPlans DEF Planning
  <1>9. CASE BuildRelease(v)
    <2> DEFINE d == [draft[v] EXCEPT
                       !.pc = "built",
                       !.inputs = @ \cup {RegKey(v, draft[v].n)}]
               coin == regCoin[<<v, draft[v].n>>]
               ok == coin.status = "live" /\ WalkRecovers(coin.voted)
    <2>0. draft[v].op = "release" /\ draft[v].pc = "read" /\ Check(v, ok, d)
      BY <1>9 DEF BuildRelease, At
    <2>n. draft[v].n \in 1..MaxRegistrations /\ ElectionKey \in draft[v].inputs
      BY <1>c, <2>0 DEF DraftOK, ArgumentsOK, InputsOK
    <2>1. d \in Draft
      BY <1>c, <1>key, <2>n DEF Draft
    <2>2. /\ d.op = draft[v].op /\ d.n = draft[v].n /\ d.o = draft[v].o
          /\ d.k = draft[v].k /\ d.smt = draft[v].smt
          /\ d.stale = draft[v].stale /\ d.pc = "built" /\ d.b = draft[v].b
          /\ d.inputs = draft[v].inputs \cup {RegKey(v, draft[v].n)}
      BY <1>c DEF Draft
    <2> HIDE DEF d
    <2>4. DraftOK(v, d)
      BY <1>c, <2>0, <2>n, <2>1, <2>2 DEF DraftOK, ArgumentsOK, InputsOK
    <2>f. ok => FreshDraft(v, d)
      BY <1>c, <2>0, <2>n, <2>2 DEF FreshDraft
    <2>g. ok => Grounded(v, d)
      BY <1>c, <2>0, <2>2 DEF Grounded
    <2>5. ok \in BOOLEAN
      BY DEF WalkRecovers
    <2> HIDE DEF ok
    <2> QED
      BY <1>c, <2>0, <2>4, <2>5, <2>f, <2>g, CheckPlans DEF Planning
  <1>10. CASE Drop(v)
    BY <1>10, <1>c, NoDraftOK, NoDraftFits DEF Drop, Set, Planning, Planned
  <1> QED
    BY <1>1, <1>2, <1>3, <1>4, <1>5, <1>6, <1>7, <1>8, <1>9, <1>10

LEMMA OfficePlans ==
  ASSUME DraftInv, FreshDraftsMatchChain, GroundedDrafts, TypeOK,
         StandingVotesAreSigned,
         \/ \E b \in Ballot : StartCreate(b) \/ StartFinalize(b)
         \/ BuildCreate
         \/ \E v \in Voter : CollectVote(v)
         \/ PrepareWitness \/ BuildFinalize
         \/ Drop(Issuer) \/ Drop(Aggregator)
  PROVE  Planning
  <1> DEFINE A == Aggregator
  <1>c. /\ Issuer \in Client /\ draft[Issuer] \in Draft
        /\ DraftOK(Issuer, draft[Issuer])
        /\ A \in Client /\ draft[A] \in Draft /\ DraftOK(A, draft[A])
        /\ FreshDraft(Issuer, draft[Issuer]) /\ FreshDraft(A, draft[A])
        /\ Grounded(Issuer, draft[Issuer]) /\ Grounded(A, draft[A])
    BY DEF Client, DraftInv, FreshDraftsMatchChain, GroundedDrafts
  <1>n. NoDraft \in Draft /\ NoDraft.op = "none" /\ NoDraft.votes = {}
    BY NoDraftOK DEF DraftOK, NoDraft
  <1>key. ElectionKey \in CoinKey /\ \A b \in Ballot : BallotKey(b) \in CoinKey
    BY DEF CoinKey, ElectionKey, BallotKey
  <1>t. /\ tree \in [Slot -> Leaf]
        /\ votingCoin \in [VotingCoinId -> VotingCoin]
    BY DEF TypeOK
  <1>1. ASSUME NEW b \in Ballot, StartCreate(b) PROVE Planning
    <2> DEFINE d == [NoDraft EXCEPT !.op = "create", !.pc = "synced", !.b = b]
    <2>1. d \in Draft
      BY <1>n DEF Draft
    <2>2. d.op = "create" /\ d.pc = "synced" /\ d.b = b
      BY <1>n DEF Draft
    <2>3. UNCHANGED vars /\ draft' = [draft EXCEPT ![Issuer] = d]
      BY <1>1 DEF StartCreate, Set
    <2> HIDE DEF d
    <2>4. DraftOK(Issuer, d)
      BY <2>1, <2>2 DEF DraftOK, ArgumentsOK, InputsOK
    <2>f. FreshDraft(Issuer, d)
      BY <2>2 DEF FreshDraft
    <2>g. Grounded(Issuer, d)
      BY <1>1, <2>2 DEF Grounded, StartCreate
    <2> QED
      BY <2>3, <2>4, <2>f, <2>g, <1>c DEF Planning, Planned
  <1>2. ASSUME NEW b \in Ballot, StartFinalize(b) PROVE Planning
    <2> DEFINE d == [NoDraft EXCEPT !.op = "finalize", !.pc = "synced", !.b = b,
                       !.smt = tree,
                       !.todo = {v \in Voter : Registered(tree, v)}]
    <2>1. d \in Draft
      BY <1>n, <1>t DEF Draft
    <2>2. d.op = "finalize" /\ d.pc = "synced" /\ d.b = b /\ d.votes = {}
      BY <1>n DEF Draft
    <2>3. UNCHANGED vars /\ draft' = [draft EXCEPT ![A] = d]
      BY <1>2 DEF StartFinalize, Set
    <2> HIDE DEF d
    <2>4. DraftOK(A, d)
      BY <2>1, <2>2 DEF DraftOK, ArgumentsOK, InputsOK
    <2>f. FreshDraft(A, d)
      BY <2>2 DEF FreshDraft
    <2>g. Grounded(A, d)
      BY <1>2, <2>2 DEF Grounded, StartFinalize
    <2> QED
      BY <2>3, <2>4, <2>f, <2>g, <1>c DEF Planning, Planned
  <1>3. CASE BuildCreate
    <2> DEFINE d == [draft[Issuer] EXCEPT !.pc = "built",
                                          !.inputs = {ElectionKey}]
               ok == VoteModeLock = NoLock
    <2>1. d \in Draft
      BY <1>c, <1>key DEF Draft
    <2>2. d.op = draft[Issuer].op /\ d.b = draft[Issuer].b
      BY <1>c DEF Draft
    <2>3. draft[Issuer].op = "create" /\ Check(Issuer, ok, d)
      BY <1>3 DEF BuildCreate, At
    <2> HIDE DEF d
    <2>4. DraftOK(Issuer, d)
      BY <2>1, <2>2, <2>3 DEF DraftOK, ArgumentsOK, InputsOK
    <2>f. ok => FreshDraft(Issuer, d)
      BY <2>2, <2>3 DEF FreshDraft
    <2>g. ok => Grounded(Issuer, d)
      BY <1>c, <2>2, <2>3 DEF Grounded
    <2>5. ok \in BOOLEAN
      OBVIOUS
    <2> HIDE DEF ok
    <2> QED
      BY <1>c, <2>3, <2>4, <2>5, <2>f, <2>g, CheckPlans DEF Planning
  <1>4. ASSUME NEW v \in Voter, CollectVote(v) PROVE Planning
    <2>1. draft[A].op = "finalize" /\ draft[A].pc = "synced"
      BY <1>4 DEF CollectVote, At
    <2>2. PICK W \in SUBSET (Voter \X Outcome) :
            /\ \A s \in W : <<s[1], draft[A].b, s[2]>> \in signed
            /\ Set(A, [draft[A] EXCEPT !.todo = @ \ {v}, !.votes = @ \cup W])
      <3>1. CASE Set(A, [draft[A] EXCEPT !.todo = @ \ {v}])
        <4>1. [draft[A] EXCEPT !.todo = @ \ {v}]
                = [draft[A] EXCEPT !.todo = @ \ {v}, !.votes = @ \cup {}]
          BY <1>c DEF Draft
        <4> QED
          BY <3>1, <4>1
      <3>2. ASSUME NEW n \in Latest(v, draft[A].b),
                   LET coin == votingCoin[<<v, n, draft[A].b>>] IN
                   Set(A, [draft[A] EXCEPT !.todo = @ \ {v},
                             !.votes = @ \cup (IF coin.cast = draft[A].b
                                                 THEN {<<v, coin.vote>>}
                                                 ELSE {})])
            PROVE  \E W \in SUBSET (Voter \X Outcome) :
                     /\ \A s \in W : <<s[1], draft[A].b, s[2]>> \in signed
                     /\ Set(A, [draft[A] EXCEPT !.todo = @ \ {v},
                                                !.votes = @ \cup W])
        <4> DEFINE coin == votingCoin[<<v, n, draft[A].b>>]
                   W == IF coin.cast = draft[A].b THEN {<<v, coin.vote>>} ELSE {}
        <4>1. n \in 1..MaxRegistrations /\ Minted(<<v, n, draft[A].b>>)
              /\ draft[A].b \in Ballot
          BY <1>c DEF Latest, Draft
        <4>2. <<v, n, draft[A].b>> \in VotingCoinId
          BY <4>1 DEF VotingCoinId
        <4>3. coin \in VotingCoin /\ coin.vote # NoOutcome
          BY <4>1, <4>2, <1>t DEF Minted
        <4>4. coin.vote \in Outcome
          BY <4>3 DEF VotingCoin
        <4>5. W \in SUBSET (Voter \X Outcome)
          BY <4>4
        <4>6. <<v, coin.cast, coin.vote>> \in signed
          BY <4>1, <4>2 DEF StandingVotesAreSigned
        <4>7. \A s \in W : <<s[1], draft[A].b, s[2]>> \in signed
          BY <4>6
        <4> QED
          BY <4>5, <4>7, <3>2
      <3> QED
        BY <1>4, <3>1, <3>2 DEF CollectVote
    <2> DEFINE d == [draft[A] EXCEPT !.todo = @ \ {v}, !.votes = @ \cup W]
    <2>3. d \in Draft
      BY <1>c DEF Draft
    <2>4. /\ d.op = "finalize" /\ d.pc = "synced"
          /\ d.b = draft[A].b /\ d.votes = draft[A].votes \cup W
      BY <1>c, <2>1 DEF Draft
    <2>5. UNCHANGED vars /\ draft' = [draft EXCEPT ![A] = d]
      BY <2>2 DEF Set
    <2> HIDE DEF d
    <2>6. DraftOK(A, d)
      BY <2>3, <2>4 DEF DraftOK, ArgumentsOK, InputsOK
    <2>f. FreshDraft(A, d)
      BY <2>4 DEF FreshDraft
    <2>g. Grounded(A, d)
      BY <1>c, <2>1, <2>2, <2>4 DEF Grounded
    <2> QED
      BY <2>5, <2>6, <2>f, <2>g, <1>c DEF Planning, Planned
  <1>5. CASE PrepareWitness
    <2>1. CASE Set(A, NoDraft)
      BY <2>1, <1>c, NoDraftOK, NoDraftFits DEF Set, Planning, Planned
    <2>2. ASSUME NEW o \in Outcome, At(A, "finalize", "synced"),
                 Provides(draft[A], o),
                 Set(A, [draft[A] EXCEPT !.pc = "read", !.o = o])
          PROVE  Planning
      <3> DEFINE d == [draft[A] EXCEPT !.pc = "read", !.o = o]
      <3>1. d \in Draft
        BY <1>c DEF Draft
      <3>2. /\ d.op = "finalize" /\ d.pc = "read" /\ d.o = o
            /\ d.b = draft[A].b /\ d.smt = draft[A].smt
            /\ d.votes = draft[A].votes
        BY <1>c, <2>2 DEF Draft, At
      <3>3. UNCHANGED vars /\ draft' = [draft EXCEPT ![A] = d]
        BY <2>2 DEF Set
      <3> HIDE DEF d
      <3>4. DraftOK(A, d)
        BY <3>1, <3>2 DEF DraftOK, ArgumentsOK, InputsOK
      <3>f. FreshDraft(A, d)
        BY <3>2 DEF FreshDraft
      <3>5. /\ draft[A].op = "finalize"
            /\ Provable(d.smt, ballot[d.b].total, ballot[d.b].threshold,
                        SignersOf(d, d.o))
        BY <2>2, <3>2 DEF At, Provides, Quorate, SignersOf
      <3>g. Grounded(A, d)
        BY <1>c, <3>2, <3>5 DEF Grounded
      <3> QED
        BY <3>3, <3>4, <3>f, <3>g, <1>c DEF Planning, Planned
    <2> QED
      BY <1>5, <2>1, <2>2 DEF PrepareWitness
  <1>6. CASE BuildFinalize
    <2> DEFINE d == [draft[A] EXCEPT !.pc = "built",
                                     !.inputs = {BallotKey(draft[A].b)}]
               ok == FindsBallot(draft[A].b) /\ ScalarsMatch(draft[A])
    <2>1. d \in Draft
      BY <1>c, <1>key DEF Draft
    <2>2. /\ d.stale = draft[A].stale
          /\ d.op = draft[A].op /\ d.o = draft[A].o /\ d.b = draft[A].b
          /\ d.inputs = {BallotKey(draft[A].b)}
          /\ d.smt = draft[A].smt /\ d.votes = draft[A].votes
      BY <1>c DEF Draft
    <2>3. /\ draft[A].op = "finalize" /\ draft[A].pc = "read"
          /\ Check(A, ok, d)
      BY <1>6 DEF BuildFinalize, At
    <2> HIDE DEF d
    <2>4. DraftOK(A, d)
      BY <1>c, <2>1, <2>2, <2>3 DEF DraftOK, ArgumentsOK, InputsOK
    <2>f. ok => FreshDraft(A, d)
      BY <1>c, <2>2, <2>3 DEF FreshDraft, FindsBallot
    <2>6. ScalarsMatch(draft[A]) => draft[A].smt = ballot[draft[A].b].tree
      BY DEF ScalarsMatch, ScalarsFor, Scalars
    <2>7. SignersOf(d, d.o) = SignersOf(draft[A], draft[A].o)
      BY <2>2 DEF SignersOf
    <2>g. ok => Grounded(A, d)
      BY <1>c, <2>2, <2>3, <2>6, <2>7 DEF Grounded
    <2>5. ok \in BOOLEAN
      BY DEF FindsBallot, OracleOpen, ScalarsMatch
    <2> HIDE DEF ok
    <2> QED
      BY <1>c, <2>3, <2>4, <2>5, <2>f, <2>g, CheckPlans DEF Planning
  <1>7. CASE Drop(Issuer) \/ Drop(Aggregator)
    BY <1>7, <1>c, NoDraftOK, NoDraftFits DEF Drop, Set, Planning, Planned
  <1> QED
    BY <1>1, <1>2, <1>3, <1>4, <1>5, <1>6, <1>7

------------------------------------------------------------------------------
(* Bundles land *)

\* What the drafts rely on only changes with a coin they name.
ChainKeeps(I) ==
  /\ ElectionKey \notin I => tree' = tree
  /\ \A v \in Voter, n \in 1..MaxRegistrations :
       RegKey(v, n) \notin I /\ regCoin[<<v, n>>].status = "live"
         => regCoin'[<<v, n>>] = regCoin[<<v, n>>]
  /\ \A b \in Ballot : BallotKey(b) \notin I /\ OracleOpen(b) => OracleOpen(b)'

\* Nobody but u's own bundles creates or releases u's coins, and nobody but
\* the issuer's creates ballots.
Undisturbed(u) ==
  /\ u \in Voter => \A n \in 1..MaxRegistrations :
       regCoin'[<<u, n>>].status = regCoin[<<u, n>>].status
  /\ u = Issuer => \A b \in Ballot :
       ballot[b].phase = "none" => ballot'[b].phase = "none"

\* A bundle of c that spends coins I lands, and changes nothing else.
Landing(c, I) ==
  /\ draft' = [Overtaken(I) EXCEPT ![c] = NoDraft]
  /\ ChainKeeps(I)
  /\ \A u \in Client \ {c} : Undisturbed(u)

LEMMA KeepsTrivially ==
  ASSUME NEW I, UNCHANGED <<tree, regCoin, ballot>>
  PROVE  ChainKeeps(I)
  BY DEF ChainKeeps, OracleOpen

\* A landed bundle is a step an actor takes on the chain.
LEMMA LandsAreActorSteps ==
  ASSUME DraftInv, GroundedDrafts, TypeOK,
         \/ \E v \in Voter : \/ LandRegister(v) \/ LandCast(v)
                             \/ LandUpdate(v) \/ LandRelease(v)
         \/ LandCreate \/ LandFinalize
  PROVE  ActorNext /\ \E c \in Client : \E I : Landing(c, I)
  <1>c. \A c \in Client : DraftOK(c, draft[c])
    BY DEF DraftInv
  <1>t. /\ regCoin \in [RegistrationId -> RegCoin]
        /\ ballot \in [Ballot -> BallotCoin]
    BY DEF TypeOK
  <1>1. ASSUME NEW v \in Voter, LandRegister(v)
        PROVE  ActorNext /\ \E c \in Client : \E I : Landing(c, I)
    <2> DEFINE n == draft[v].n
               k == draft[v].k
    <2>1. /\ n \in 1..MaxRegistrations /\ k \in Amount
          /\ Register(v, n, k) /\ Spent(v, {ElectionKey})
      BY <1>1, <1>c DEF LandRegister, At, Client, DraftOK, ArgumentsOK
    <2> HIDE DEF n, k
    <2>2. ChainKeeps({ElectionKey})
      <3>1. \A u \in Voter, m \in 1..MaxRegistrations :
              regCoin[<<u, m>>].status = "live"
                => regCoin'[<<u, m>>] = regCoin[<<u, m>>]
        BY <2>1, <1>t DEF Register, NewCoin, CreateCoin, RegistrationId
      <3> QED
        BY <2>1, <3>1 DEF ChainKeeps, Register, OracleOpen
    <2>3. \A u \in Client \ {v} : Undisturbed(u)
      BY <2>1, <1>t DEF Undisturbed, Register, CreateCoin, RegistrationId
    <2> QED
      BY <2>1, <2>2, <2>3 DEF ActorNext, Spent, Landing, Client
  <1>2. ASSUME NEW v \in Voter, LandCast(v)
        PROVE  ActorNext /\ \E c \in Client : \E I : Landing(c, I)
    <2> DEFINE d == draft[v]
    <2>1. /\ d.n \in 1..MaxRegistrations /\ d.k \in Stake
          /\ d.o \in Outcome /\ d.b \in Ballot /\ RegKey(v, d.n) \in d.inputs
      BY <1>2, <1>c
      DEF LandCast, At, Client, DraftOK, ArgumentsOK, InputsOK, Draft
    <2>2. /\ MintVotingCoin(v, d.n, d.b, d.o, d.k, "counterpart",
                            {<<v, d.b, d.o>>})
          /\ Spent(v, d.inputs)
      BY <1>2 DEF LandCast
    <2> HIDE DEF d
    <2>3. ChainKeeps(d.inputs)
      <3>1. \A u \in Voter, m \in 1..MaxRegistrations :
              RegKey(u, m) \notin d.inputs
                => regCoin'[<<u, m>>] = regCoin[<<u, m>>]
        <4> SUFFICES ASSUME NEW u \in Voter, NEW m \in 1..MaxRegistrations,
                            RegKey(u, m) \notin d.inputs
                     PROVE  regCoin'[<<u, m>>] = regCoin[<<u, m>>]
          OBVIOUS
        <4>1. <<u, m>> # <<v, d.n>>
          BY <2>1 DEF RegKey
        <4> QED
          BY <4>1, <2>1, <2>2, <1>t DEF MintVotingCoin, RegistrationId
      <3> QED
        BY <2>2, <3>1 DEF ChainKeeps, MintVotingCoin, electionVars, OracleOpen
    <2>4. \A u \in Client \ {v} : Undisturbed(u)
      BY <2>1, <2>2, <1>t DEF Undisturbed, MintVotingCoin, RegistrationId
    <2> QED
      BY <2>1, <2>2, <2>3, <2>4 DEF ActorNext, Spent, Landing, Client
  <1>3. ASSUME NEW v \in Voter, LandUpdate(v)
        PROVE  ActorNext /\ \E c \in Client : \E I : Landing(c, I)
    <2> DEFINE d == draft[v]
    <2>1. /\ d.n \in 1..MaxRegistrations
          /\ d.o \in Outcome /\ d.b \in Ballot
      BY <1>3, <1>c DEF LandUpdate, At, Client, DraftOK, ArgumentsOK, Draft
    <2>2. /\ UpdateVote(v, d.n, d.b, d.b, d.o, "counterpart", {<<v, d.b, d.o>>})
          /\ Spent(v, d.inputs)
      BY <1>3 DEF LandUpdate
    <2> HIDE DEF d
    <2>3. ChainKeeps(d.inputs)
      BY <2>2, KeepsTrivially DEF UpdateVote, electionVars
    <2>4. \A u \in Client \ {v} : Undisturbed(u)
      BY <2>2 DEF Undisturbed, UpdateVote
    <2> QED
      BY <2>1, <2>2, <2>3, <2>4 DEF ActorNext, Spent, Landing, Client
  <1>4. ASSUME NEW v \in Voter, LandRelease(v)
        PROVE  ActorNext /\ \E c \in Client : \E I : Landing(c, I)
    <2> DEFINE d == draft[v]
    <2>1. /\ d.n \in 1..MaxRegistrations
          /\ ElectionKey \in d.inputs /\ RegKey(v, d.n) \in d.inputs
      BY <1>4, <1>c DEF LandRelease, At, Client, DraftOK, ArgumentsOK, InputsOK
    <2>2. Deregister(v, {d.n}) /\ Spent(v, d.inputs)
      BY <1>4 DEF LandRelease, ReleaseSpends
    <2> HIDE DEF d
    <2>3. ChainKeeps(d.inputs)
      <3>1. \A u \in Voter, m \in 1..MaxRegistrations :
              RegKey(u, m) \notin d.inputs
                => regCoin'[<<u, m>>] = regCoin[<<u, m>>]
        <4> SUFFICES ASSUME NEW u \in Voter, NEW m \in 1..MaxRegistrations,
                            RegKey(u, m) \notin d.inputs
                     PROVE  regCoin'[<<u, m>>] = regCoin[<<u, m>>]
          OBVIOUS
        <4>1. ~(u = v /\ m = d.n)
          BY <2>1
        <4>2. <<u, m>> \in RegistrationId
          BY DEF RegistrationId
        <4> QED
          BY <4>1, <4>2, <2>2 DEF Deregister, Released
      <3> QED
        BY <2>1, <2>2, <3>1 DEF ChainKeeps, Deregister, OracleOpen
    <2>4. \A u \in Client \ {v} : Undisturbed(u)
      BY <2>1, <2>2, <1>t
      DEF Undisturbed, Deregister, RegistrationId, Released
    <2> QED
      BY <2>1, <2>2, <2>3, <2>4 DEF ActorNext, Spent, Landing, Client
  <1>5. ASSUME LandCreate
        PROVE  ActorNext /\ \E c \in Client : \E I : Landing(c, I)
    <2> DEFINE b == draft[Issuer].b
    <2>1. b \in Ballot
      BY <1>c DEF Client, DraftOK, Draft
    <2>2. CreateBallot(b, {}) /\ Spent(Issuer, {ElectionKey})
      BY <1>5 DEF LandCreate
    <2> HIDE DEF b
    <2>3. ChainKeeps({ElectionKey})
      <3>1. \A c \in Ballot : OracleOpen(c) => ballot'[c] = ballot[c]
        BY <2>1, <2>2, <1>t DEF CreateBallot, CanCreateBallot, OracleOpen
      <3> QED
        BY <2>2, <3>1 DEF ChainKeeps, CreateBallot, electionVars, OracleOpen
    <2>4. \A u \in Client \ {Issuer} : Undisturbed(u)
      BY <2>2 DEF Undisturbed, CreateBallot
    <2> QED
      BY <2>1, <2>2, <2>3, <2>4 DEF ActorNext, Spent, Landing, Client
  <1>6. ASSUME LandFinalize
        PROVE  ActorNext /\ \E c \in Client : \E I : Landing(c, I)
    <2> DEFINE d == draft[Aggregator]
    <2>1. d.b \in Ballot /\ d.o \in Outcome /\ BallotKey(d.b) \in d.inputs
      BY <1>6, <1>c
      DEF LandFinalize, At, Client, DraftOK, ArgumentsOK, InputsOK, Draft
    <2>2. SignersOf(d, d.o) \in SUBSET Voter
      BY DEF SignersOf
    <2>3. /\ Finalize(d.b, d.o, SignersOf(d, d.o), d.smt, ballot[d.b].total)
          /\ Spent(Aggregator, d.inputs)
      BY <1>6 DEF LandFinalize
    <2>4. d.smt = ballot[d.b].tree
      BY <2>3 DEF Finalize, CanFinalize, SnapshotBound
    <2>p. Provable(d.smt, ballot[d.b].total, ballot[d.b].threshold,
                   SignersOf(d, d.o))
      BY <1>6 DEF LandFinalize, At, GroundedDrafts, Grounded, Client
    <2>5. SdkFinalize(d.b, d.o, SignersOf(d, d.o), ballot[d.b].tree,
                      ballot[d.b].total)
      BY <2>3, <2>4, <2>p DEF SdkFinalize
    <2>6. ActorNext
      BY <2>1, <2>2, <2>5 DEF ActorNext
    <2> HIDE DEF d
    <2>7. ChainKeeps(d.inputs)
      <3>1. \A b \in Ballot : BallotKey(b) \notin d.inputs
                                => ballot'[b] = ballot[b]
        BY <2>1, <2>3, <1>t DEF Finalize
      <3> QED
        BY <2>3, <3>1 DEF ChainKeeps, Finalize, electionVars, OracleOpen
    <2>8. \A u \in Client \ {Aggregator} : Undisturbed(u)
      <3>1. \A b \in Ballot :
              ballot[b].phase = "none" => ballot'[b] = ballot[b]
        BY <2>1, <2>3, <1>t
        DEF Finalize, CanFinalize, FinalizeWindow, OracleOpen
      <3> QED
        BY <2>3, <3>1 DEF Undisturbed, Finalize
    <2> QED
      BY <2>3, <2>6, <2>7, <2>8 DEF Spent, Landing, Client
  <1> QED
    BY <1>1, <1>2, <1>3, <1>4, <1>5, <1>6

\* A step of the chain that no draft takes part in.
Others ==
  /\ ActorNext /\ UNCHANGED draft
  /\ ChainKeeps({}) /\ \A u \in Client : Undisturbed(u)

\* What a step of the composed system is to the chain and to the drafts.
LEMMA SdkMoves ==
  ASSUME DraftInv, FreshDraftsMatchChain, GroundedDrafts, TypeOK,
         StandingVotesAreSigned, SdkNext
  PROVE  \/ Planning
         \/ ActorNext /\ \E c \in Client : \E I : Landing(c, I)
         \/ Others
         \/ UNCHANGED vars /\ \E I : draft' = Overtaken(I)
  <1>t. tree \in [Slot -> Leaf] /\ ballot \in [Ballot -> BallotCoin]
    BY DEF TypeOK
  <1>1. ASSUME NEW v \in Voter, VoterNext(v)
        PROVE  Planning \/ (ActorNext /\ \E c \in Client : \E I : Landing(c, I))
    <2>1. CASE LandRegister(v) \/ LandCast(v) \/ LandUpdate(v) \/ LandRelease(v)
      BY <2>1, LandsAreActorSteps
    <2>2. CASE ~(LandRegister(v) \/ LandCast(v) \/ LandUpdate(v)
                   \/ LandRelease(v))
      BY <1>1, <1>t, <2>2, VoterPlans DEF VoterNext
    <2> QED
      BY <2>1, <2>2
  <1>2. ASSUME NEW b \in Ballot, Launch(b)
        PROVE  Others
    <2>1. ActorNext /\ UNCHANGED draft
      BY <1>2 DEF Launch, ActorNext
    <2>2. \A c \in Ballot : OracleOpen(c) => ballot'[c] = ballot[c]
      BY <1>2, <1>t DEF Launch, SdkPrepareLaunch, PrepareLaunch, LaunchBallot, OracleOpen
    <2>3. ChainKeeps({})
      BY <1>2, <2>2
      DEF ChainKeeps, Launch, SdkPrepareLaunch, PrepareLaunch, LaunchBallot,
          electionVars, OracleOpen
    <2>4. \A u \in Client : Undisturbed(u)
      BY <1>2, <1>t
      DEF Undisturbed, Launch, SdkPrepareLaunch, PrepareLaunch, LaunchBallot
    <2> QED
      BY <2>1, <2>3, <2>4 DEF Others
  <1>3. CASE SdkIssuerNext
    BY <1>2, <1>3, LandsAreActorSteps, OfficePlans DEF SdkIssuerNext
  <1>4. CASE AggregatorNext
    BY <1>4, LandsAreActorSteps, OfficePlans DEF AggregatorNext
  <1>5. ASSUME NEW b \in Ballot, OtherOracle(b)
        PROVE  UNCHANGED vars /\ \E I : draft' = Overtaken(I)
    BY <1>5 DEF OtherOracle
  <1>6. CASE Block
    BY <1>6, KeepsTrivially
    DEF Block, Others, Undisturbed, ActorNext, AdvanceHeight, electionVars
  <1> QED
    BY <1>1, <1>3, <1>4, <1>5, <1>6 DEF SdkNext

\* The inductive invariant: the coins as actors leave them, drafts in order,
\* drafts that fit the coins they name, and what their calls have checked.
SdkInv ==
  /\ ActorInv
  /\ DraftInv
  /\ FreshDraftsMatchChain
  /\ GroundedDrafts

LEMMA SdkInvInit == SdkInit => SdkInv
  <1> SUFFICES ASSUME SdkInit PROVE SdkInv
    OBVIOUS
  <1>1. draft = [c \in Client |-> NoDraft] /\ Init
    BY DEF SdkInit
  <1>2. \A c \in Client : /\ DraftOK(c, draft[c])
                          /\ FreshDraft(c, draft[c]) /\ Grounded(c, draft[c])
    BY <1>1, NoDraftOK, NoDraftFits
  <1>3. draft \in [Client -> Draft]
    BY <1>1, <1>2 DEF DraftOK
  <1> QED
    BY <1>1, <1>2, <1>3, ActorInvInit
    DEF SdkInv, DraftInv, FreshDraftsMatchChain, GroundedDrafts

\* A draft none of whose coins were spent still fits the chain.
LEMMA KeepsFresh ==
  ASSUME NEW c \in Client, NEW d, NEW e, NEW I, TypeOK,
         DraftOK(c, d), FreshDraft(c, d), ChainKeeps(I),
         ~e.stale => ~d.stale /\ d.inputs \cap I = {},
         e.op = d.op, e.pc = d.pc, e.n = d.n, e.b = d.b, e.smt = d.smt,
         e.inputs = d.inputs
  PROVE  FreshDraft(c, e)'
  <1> SUFFICES ASSUME ~e.stale PROVE FreshDraft(c, e)'
    BY DEF FreshDraft
  <1>0. /\ ~d.stale /\ \A key \in d.inputs : key \notin I
        /\ d.b \in Ballot
    BY DEF DraftOK, Draft
  <1>1. ASSUME e.op = "register", e.pc = "built"
        PROVE  e.smt = tree' /\ tree'[SlotOf[c]] = EmptyLeaf
    BY <1>0, <1>1 DEF FreshDraft, DraftOK, InputsOK, ChainKeeps
  <1>2. ASSUME e.op = "release", ElectionKey \in e.inputs
        PROVE  e.smt = tree' /\ Registered(tree', c)
    BY <1>0, <1>2 DEF FreshDraft, ChainKeeps
  <1>3. ASSUME e.op = "cast"
        PROVE  /\ regCoin'[<<c, e.n>>].status = "live"
               /\ regCoin'[<<c, e.n>>].voted = {}
    <2>1. c \in Voter /\ d.n \in 1..MaxRegistrations /\ RegKey(c, d.n) \notin I
      BY <1>0, <1>3 DEF DraftOK, ArgumentsOK, InputsOK
    <2>2. /\ regCoin[<<c, d.n>>].status = "live"
          /\ regCoin[<<c, d.n>>].voted = {}
      BY <1>0, <1>3 DEF FreshDraft
    <2> QED
      BY <2>1, <2>2 DEF ChainKeeps
  <1>4. ASSUME e.op \in {"cast", "update", "finalize"}, e.pc = "built"
        PROVE  OracleOpen(e.b)'
    <2>1. OracleOpen(d.b) /\ BallotKey(d.b) \notin I
      BY <1>0, <1>4 DEF FreshDraft, DraftOK, InputsOK
    <2> QED
      BY <2>1, <1>0 DEF ChainKeeps, OracleOpen
  <1> QED
    BY <1>1, <1>2, <1>3, <1>4 DEF FreshDraft, Registered, OracleOpen

\* What a draft's checks established survives the steps of everybody else.
LEMMA KeepsGrounded ==
  ASSUME NEW c \in Client, NEW d, NEW e, TypeInv, [Next]_vars,
         DraftOK(c, d), Grounded(c, d), Undisturbed(c),
         e.op = d.op, e.pc = d.pc, e.n = d.n, e.b = d.b, e.smt = d.smt,
         e.o = d.o, e.k = d.k, e.votes = d.votes
  PROVE  Grounded(c, e)'
  <1>0. d.b \in Ballot
    BY DEF DraftOK, Draft
  <1>n. d.op \in {"register", "update", "release"} =>
          c \in Voter /\ d.n \in 1..MaxRegistrations
    BY DEF DraftOK, ArgumentsOK
  <1>1. ASSUME e.op = "register"
        PROVE  /\ SufficientCollateral(e.k)
               /\ regCoin'[<<c, e.n>>].status = "none"
               /\ \A m \in 1..(e.n - 1) : regCoin'[<<c, m>>].status # "none"
    <2>1. \A m \in 1..(d.n - 1) : m \in 1..MaxRegistrations
      BY <1>1, <1>n, ConstantsAssumption
    <2> QED
      BY <1>1, <1>n, <2>1 DEF Grounded, NewCoin, Undisturbed
  <1>2. ASSUME e.op \in {"cast", "update"}, e.pc = "built"
        PROVE  /\ e.op = "cast" => StakeFits(e)
               /\ ballot'[e.b].phase = "launched" /\ ballot'[e.b].options = {}
    <2>1. d.op = "cast" => StakeFits(d)
      BY <1>2 DEF Grounded
    <2> QED
      BY <1>0, <1>2, <2>1, LaunchedKeeps DEF Grounded, StakeFits
  <1>3. ASSUME e.op = "update" PROVE Minted(<<c, e.n, e.b>>)'
    <2>1. <<c, d.n, d.b>> \in VotingCoinId /\ Minted(<<c, d.n, d.b>>)
      BY <1>0, <1>n, <1>3 DEF Grounded, VotingCoinId
    <2>2. Minted(<<c, d.n, d.b>>)'
      BY <2>1, VotingCoinMoves
    <2> QED
      BY <2>2 DEF Minted
  <1>4. ASSUME e.op = "release" PROVE regCoin'[<<c, e.n>>].status = "live"
    BY <1>4, <1>n DEF Grounded, Undisturbed
  <1>5. ASSUME e.op = "create"
        PROVE  /\ c = Issuer
               /\ ballot'[e.b].phase = "none"
               /\ e.pc = "built" => VoteModeLock = NoLock
    BY <1>0, <1>5 DEF Grounded, Undisturbed
  <1>6. ASSUME e.op = "finalize"
        PROVE  /\ ballot'[e.b].phase = "launched"
               /\ \A s \in e.votes : <<s[1], e.b, s[2]>> \in signed'
               /\ e.pc # "synced" =>
                    Provable(e.smt, ballot'[e.b].total, ballot'[e.b].threshold,
                             SignersOf(e, e.o))
               /\ e.pc = "built" => e.smt = ballot'[e.b].tree
    <2>1. SignersOf(e, e.o) = SignersOf(d, d.o)
      BY DEF SignersOf
    <2>2. /\ ballot[d.b].phase = "launched"
          /\ \A s \in d.votes : <<s[1], d.b, s[2]>> \in signed
          /\ d.pc # "synced" =>
               Provable(d.smt, ballot[d.b].total, ballot[d.b].threshold,
                        SignersOf(d, d.o))
          /\ d.pc = "built" => d.smt = ballot[d.b].tree
      BY <1>6 DEF Grounded
    <2> QED
      BY <1>0, <2>1, <2>2, LaunchedKeeps, SignaturesStay
  <1> QED
    BY <1>1, <1>2, <1>3, <1>4, <1>5, <1>6 DEF Grounded, NewCoin, Minted

LEMMA Undisturbs ==
  ASSUME UNCHANGED vars, NEW c PROVE Undisturbed(c)
  BY DEF vars, electionVars, Undisturbed

\* A step changes nothing a draft relies on, or makes the draft stale.
LEMMA SdkInvStep == SdkInv /\ [SdkNext]_sdkVars => SdkInv'
  <1> SUFFICES ASSUME SdkInv, [SdkNext]_sdkVars PROVE SdkInv'
    OBVIOUS
  <1>inv. /\ ActorInv /\ TypeInv /\ TypeOK /\ StandingVotesAreSigned
          /\ DraftInv /\ FreshDraftsMatchChain /\ GroundedDrafts
    BY DEF SdkInv, ActorInv, OfficeInv, TypeInv
  <1>fun. /\ draft \in [Client -> Draft]
          /\ \A c \in Client : /\ DraftOK(c, draft[c])
                               /\ FreshDraft(c, draft[c])
                               /\ Grounded(c, draft[c])
    BY <1>inv DEF DraftInv, FreshDraftsMatchChain, GroundedDrafts
  <1>chain. ASSUME [ActorNext]_vars PROVE ActorInv' /\ [Next]_vars
    BY <1>chain, <1>inv, ActorInvStep, ActorsAreOfficers, OfficeIsChain
  <1>over. ASSUME NEW I
           PROVE  /\ Overtaken(I) \in [Client -> Draft]
                  /\ \A c \in Client : DraftOK(c, Overtaken(I)[c])
    <2>1. \A c \in Client : DraftOK(c, Overtaken(I)[c])
      BY <1>fun, OvertakenOK
    <2>2. Overtaken(I) = [c \in Client |-> Overtaken(I)[c]]
      BY DEF Overtaken
    <2> QED
      BY <2>1, <2>2 DEF DraftOK
  <1>1. CASE Planning
    <2>a. PICK c \in Client : \E d : Planned(c, d)
      BY <1>1 DEF Planning
    <2>1. PICK d : Planned(c, d)
      BY <2>a
    <2>2. /\ draft' = [draft EXCEPT ![c] = d]
          /\ DraftOK(c, d) /\ FreshDraft(c, d) /\ Grounded(c, d)
      BY <2>1 DEF Planned
    <2>3. DraftInv'
      BY <2>2, <1>fun DEF DraftInv, DraftOK, ArgumentsOK, InputsOK
    <2>4. ActorInv' /\ UNCHANGED vars
      BY <1>1, <1>chain DEF Planning
    <2>5. \A u \in Client : draft'[u] = IF u = c THEN d ELSE draft[u]
      BY <2>2, <1>fun
    <2>6. FreshDraftsMatchChain'
      BY <2>2, <2>4, <2>5, <1>fun
      DEF FreshDraftsMatchChain, FreshDraft, vars, electionVars, OracleOpen,
          Registered
    <2>7. ASSUME NEW u \in Client, NEW e, Grounded(u, e) PROVE Grounded(u, e)'
      BY <2>4, <2>7 DEF Grounded, NewCoin, Minted, vars, electionVars
    <2>8. GroundedDrafts'
      <3> SUFFICES ASSUME NEW u \in Client PROVE Grounded(u, draft[u])'
        BY DEF GroundedDrafts
      <3>1. PICK e : e = draft'[u]
        OBVIOUS
      <3>2. Grounded(u, e)
        BY <3>1, <2>2, <2>5, <1>fun
      <3>3. Grounded(u, e)'
        BY <3>2, <2>7
      <3> QED
        BY <3>1, <3>3 DEF Grounded, NewCoin, Minted
    <2> QED
      BY <2>3, <2>4, <2>6, <2>8 DEF SdkInv
  <1>spend. ASSUME NEW I, ChainKeeps(I), [Next]_vars,
                   NEW c \in Client, Undisturbed(c),
                   NEW e, e = Overtaken(I)[c]
            PROVE  FreshDraft(c, e)' /\ Grounded(c, e)'
    <2> DEFINE d == draft[c]
    <2>1. /\ e.op = d.op /\ e.pc = d.pc /\ e.n = d.n /\ e.b = d.b
          /\ e.smt = d.smt /\ e.inputs = d.inputs
          /\ e.o = d.o /\ e.k = d.k /\ e.votes = d.votes
          /\ e.stale = (d.stale \/ d.inputs \cap I # {})
      BY <1>spend, <1>fun, OvertakenOK
    <2>2. DraftOK(c, d) /\ FreshDraft(c, d) /\ Grounded(c, d)
      BY <1>fun
    <2> HIDE DEF d
    <2>3. FreshDraft(c, e)'
      BY <2>1, <2>2, <1>spend, <1>inv, KeepsFresh
    <2>4. Grounded(c, e)'
      BY <2>1, <2>2, <1>spend, <1>inv, KeepsGrounded
    <2> QED
      BY <2>3, <2>4
  <1>2. ASSUME ActorNext, NEW c \in Client, NEW I, Landing(c, I)
        PROVE  SdkInv'
    <2>1. /\ draft' = [Overtaken(I) EXCEPT ![c] = NoDraft]
          /\ ChainKeeps(I) /\ \A u \in Client \ {c} : Undisturbed(u)
      BY <1>2 DEF Landing
    <2>2. DraftOK(c, NoDraft)
      BY NoDraftOK
    <2>3. DraftInv'
      BY <2>1, <2>2, <1>over DEF DraftInv, DraftOK, ArgumentsOK, InputsOK
    <2>4. ActorInv' /\ [Next]_vars
      BY <1>2, <1>chain
    <2>5. \A u \in Client :
            draft'[u] = IF u = c THEN NoDraft ELSE Overtaken(I)[u]
      BY <2>1, <1>over
    <2>6. ASSUME NEW u \in Client
          PROVE  FreshDraft(u, draft[u])' /\ Grounded(u, draft[u])'
      <3>1. CASE u = c
        <4>1. NoDraft.op = "none"
          BY DEF NoDraft
        <4> QED
          BY <3>1, <4>1, <2>5 DEF FreshDraft, Grounded
      <3>2. CASE u # c
        <4>1. PICK e : e = Overtaken(I)[u]
          OBVIOUS
        <4>2. FreshDraft(u, e)' /\ Grounded(u, e)' /\ draft'[u] = e
          BY <3>2, <4>1, <2>1, <2>4, <2>5, <1>spend
        <4> QED
          BY <4>2 DEF FreshDraft, OracleOpen, Registered, Grounded, NewCoin, Minted
      <3> QED
        BY <3>1, <3>2
    <2> QED
      BY <2>3, <2>4, <2>6 DEF SdkInv, FreshDraftsMatchChain, GroundedDrafts
  <1>3. CASE Others
    <2>0. /\ ActorNext /\ UNCHANGED draft /\ ChainKeeps({})
          /\ [Next]_vars
      BY <1>3, <1>chain DEF Others
    <2>1. ActorInv' /\ DraftInv'
      BY <2>0, <1>inv, <1>chain DEF DraftInv, DraftOK, ArgumentsOK, InputsOK
    <2>2. ASSUME NEW u \in Client
          PROVE  FreshDraft(u, draft[u])' /\ Grounded(u, draft[u])'
      <3>1. PICK d : d = draft[u]
        OBVIOUS
      <3>2. /\ DraftOK(u, d) /\ FreshDraft(u, d) /\ Grounded(u, d)
            /\ draft'[u] = d
        BY <2>0, <1>fun, <3>1
      <3>3. FreshDraft(u, d)'
        BY <3>2, <2>0, <1>inv, KeepsFresh
      <3>4. Undisturbed(u)
        BY <1>3 DEF Others
      <3>5. Grounded(u, d)'
        BY <3>2, <3>4, <2>0, <1>inv, KeepsGrounded
      <3> QED
        BY <3>2, <3>3, <3>5
        DEF FreshDraft, OracleOpen, Registered, Grounded, NewCoin, Minted
    <2> QED
      BY <2>1, <2>2 DEF SdkInv, FreshDraftsMatchChain, GroundedDrafts
  <1>4. ASSUME UNCHANGED vars, NEW I, draft' = Overtaken(I)
        PROVE  SdkInv'
    <2>1. ActorInv'
      BY <1>4, <1>chain
    <2>2. DraftInv'
      BY <1>4, <1>over DEF DraftInv, DraftOK, ArgumentsOK, InputsOK
    <2>3. ChainKeeps(I)
      BY <1>4, KeepsTrivially DEF vars, electionVars
    <2>4. ASSUME NEW u \in Client
          PROVE  FreshDraft(u, draft[u])' /\ Grounded(u, draft[u])'
      <3>1. PICK e : e = Overtaken(I)[u]
        OBVIOUS
      <3>2. FreshDraft(u, e)' /\ Grounded(u, e)' /\ draft'[u] = e
        BY <1>4, <3>1, <2>3, <1>spend, Undisturbs
      <3> QED
        BY <3>2 DEF FreshDraft, OracleOpen, Registered, Grounded, NewCoin, Minted
    <2> QED
      BY <2>1, <2>2, <2>4 DEF SdkInv, FreshDraftsMatchChain, GroundedDrafts
  <1>5. CASE UNCHANGED sdkVars
    <2>0. UNCHANGED vars /\ UNCHANGED draft
      BY <1>5 DEF sdkVars
    <2>1. ActorInv' /\ DraftInv'
      BY <2>0, <1>inv, <1>chain DEF DraftInv, DraftOK, ArgumentsOK, InputsOK
    <2>2. FreshDraftsMatchChain'
      BY <2>0, <1>inv
      DEF FreshDraftsMatchChain, FreshDraft, vars, electionVars, OracleOpen,
          Registered
    <2>3. GroundedDrafts'
      BY <2>0, <1>inv DEF GroundedDrafts, Grounded, NewCoin, Minted, vars,
                           electionVars
    <2> QED
      BY <2>1, <2>2, <2>3 DEF SdkInv
  <1> QED
    BY <1>inv, <1>1, <1>2, <1>3, <1>4, <1>5, SdkMoves

\* Type correctness: the coins keep their state structs' types, and every call
\* in progress has arguments the chain's actions range over and a bundle whose
\* inputs contain the coins it has read.
THEOREM SdkTypeCorrect == SdkSpec => []SdkTypeOK
  <1>1. SdkInv => SdkTypeOK
    BY DEF SdkInv, ActorInv, OfficeInv, TypeInv, DraftInv, SdkTypeOK
  <1> QED
    BY <1>1, SdkInvInit, SdkInvStep, PTL DEF SdkSpec

\* The coins a bundle names still hold what it was built from, however long it
\* waits and whatever else lands, unless one of them was spent.
THEOREM FreshDraftsTheorem == SdkSpec => []FreshDraftsMatchChain
  <1>1. SdkInv => FreshDraftsMatchChain
    BY DEF SdkInv
  <1> QED
    BY <1>1, SdkInvInit, SdkInvStep, PTL DEF SdkSpec

\* What an actor has checked by the time it returns a bundle is all that the
\* puzzles assert: as long as no coin of the bundle is spent and its heights
\* allow, the chain takes it.
THEOREM BuiltBundlesTheorem == SdkSpec => []BuiltBundlesAreAccepted
  <1>1. ASSUME SdkInv, NEW c \in Client, draft[c].pc = "built",
               ~draft[c].stale, InTime(draft[c]),
               draft[c].op = "cast" => RingBalances(c)
        PROVE  Accepted(c)
    <2> DEFINE d == draft[c]
    <2>1. /\ DraftOK(c, d) /\ FreshDraft(c, d) /\ Grounded(c, d)
          /\ regCoin \in [RegistrationId -> RegCoin]
      BY <1>1
      DEF SdkInv, ActorInv, OfficeInv, DraftInv, FreshDraftsMatchChain,
          GroundedDrafts, TypeInv, TypeOK
    <2>2. d.pc = "built" /\ ~d.stale /\ InTime(d) /\ d \in Draft
      BY <1>1, <2>1 DEF DraftOK
    <2>3. d.op = "cast" => Recreated(d) + d.k = regCoin[<<c, d.n>>].amount
      BY <1>1 DEF RingBalances
    <2>4. Accepted(c) =
            CASE d.op = "register" -> CanRegister(c, d.k) /\ NewCoin(c, d.n)
              [] d.op = "cast"     -> CanMint(c, d.n, d.b, d.o, d.k, "counterpart")
              [] d.op = "update"   -> CanUpdate(c, d.n, d.b, d.b, d.o, "counterpart")
              [] d.op = "release"  -> CanDeregister(c, ReleaseSpends(d))
              [] d.op = "create"   -> CanCreateBallot(d.b, {})
              [] d.op = "finalize" -> CanFinalize(d.b, d.o, SignersOf(d, d.o),
                                                  d.smt, ballot[d.b].total)
      BY DEF Accepted
    <2> HIDE DEF d
    <2>5. CASE d.op = "register"
      <3>1. CanRegister(c, d.k) /\ NewCoin(c, d.n)
        BY <2>1, <2>2, <2>5 DEF FreshDraft, Grounded, CanRegister
      <3> QED
        BY <2>4, <2>5, <3>1
    <2>6. CASE d.op = "cast"
      <3>1. /\ regCoin[<<c, d.n>>].status = "live"
            /\ regCoin[<<c, d.n>>].voted = {} /\ OracleOpen(d.b)
        BY <2>1, <2>2, <2>6 DEF FreshDraft
      <3>2. d.k <= CollateralAmount /\ ballot[d.b].options = {}
        BY <2>1, <2>2, <2>6 DEF Grounded, StakeFits
      <3>3. d.k \in Nat /\ CollateralAmount \in Nat
        BY <2>2, ConstantsAssumption DEF Draft
      <3>4. d.k <= regCoin[<<c, d.n>>].amount
        BY <2>3, <2>6, <3>2, <3>3 DEF Recreated
      <3>5. CanMint(c, d.n, d.b, d.o, d.k, "counterpart")
        BY <3>1, <3>2, <3>4 DEF CanMint, Mintable, OptionAdmitted
      <3> QED
        BY <2>4, <2>6, <3>5
    <2>7. CASE d.op = "update"
      <3>1. UpdateWindow(d.b)
        BY <2>1, <2>2, <2>7 DEF FreshDraft, InTime, UpdateWindow
      <3>2. Minted(<<c, d.n, d.b>>) /\ ballot[d.b].options = {}
        BY <2>1, <2>2, <2>7 DEF Grounded
      <3>3. CanUpdate(c, d.n, d.b, d.b, d.o, "counterpart")
        BY <3>1, <3>2 DEF CanUpdate, OptionAdmitted
      <3> QED
        BY <2>4, <2>7, <3>3
    <2>8. CASE d.op = "release"
      <3>1. Registered(tree, c)
        BY <2>1, <2>2, <2>8 DEF FreshDraft, DraftOK, InputsOK
      <3>2. \A n \in ReleaseSpends(d) : regCoin[<<c, n>>].status = "live"
        BY <2>1, <2>8 DEF Grounded, ReleaseSpends
      <3>3. CanDeregister(c, ReleaseSpends(d))
        BY <3>1, <3>2 DEF CanDeregister, MembershipProof
      <3> QED
        BY <2>4, <2>8, <3>3
    <2>9. CASE d.op = "create"
      <3>1. CanCreateBallot(d.b, {})
        BY <2>1, <2>2, <2>9 DEF Grounded, CanCreateBallot
      <3> QED
        BY <2>4, <2>9, <3>1
    <2>10. CASE d.op = "finalize"
      <3>1. FinalizeWindow(d.b)
        BY <2>1, <2>2, <2>10 DEF FreshDraft, InTime, FinalizeWindow
      <3>2. /\ d.smt = ballot[d.b].tree
            /\ \A s \in d.votes : <<s[1], d.b, s[2]>> \in signed
            /\ Provable(d.smt, ballot[d.b].total, ballot[d.b].threshold,
                        SignersOf(d, d.o))
        BY <2>1, <2>2, <2>10 DEF Grounded
      <3>3. AggregateVerifies(d.b, d.o, SignersOf(d, d.o))
        <4>1. ASSUME NEW v \in SignersOf(d, d.o) PROVE <<v, d.b, d.o>> \in signed
          BY <3>2 DEF SignersOf
        <4> QED
          BY <4>1 DEF AggregateVerifies
      <3>4. CanFinalize(d.b, d.o, SignersOf(d, d.o), d.smt, ballot[d.b].total)
        BY <3>1, <3>2, <3>3 DEF CanFinalize, SnapshotBound
      <3> QED
        BY <2>4, <2>10, <3>4
    <2>11. d.op # "none"
      BY <2>1, <2>2 DEF DraftOK, ArgumentsOK
    <2> QED
      BY <2>2, <2>5, <2>6, <2>7, <2>8, <2>9, <2>10, <2>11 DEF Draft
  <1>2. SdkInv => BuiltBundlesAreAccepted
    BY <1>1 DEF BuiltBundlesAreAccepted
  <1> QED
    BY <1>2, SdkInvInit, SdkInvStep, PTL DEF SdkSpec

\* What a step of the composed system does to the chain, an actor does.
LEMMA SdkStepsAreActors ==
  SdkInv /\ [SdkNext]_sdkVars => [ActorNext]_vars
  <1> SUFFICES ASSUME SdkInv, [SdkNext]_sdkVars PROVE [ActorNext]_vars
    OBVIOUS
  <1>1. CASE UNCHANGED sdkVars
    BY <1>1 DEF sdkVars
  <1>2. CASE SdkNext
    BY <1>2, SdkMoves DEF SdkInv, ActorInv, OfficeInv, TypeInv, Planning, Others
  <1> QED
    BY <1>1, <1>2

\* The SDK keeps the promises ElectionOfficers takes from the issuer and the
\* aggregator: whatever actors read, build and submit in whatever order, what
\* launches a ballot is one state of the election and what decides it a quorum
\* of its snapshot.  The theorems about OfficeSpec hold of the SDK's elections.
THEOREM OfficeTheorem == SdkSpec => ImplementsOffice
  <1>1. SdkInit => Init
    BY DEF SdkInit
  <1>2. SdkInv /\ [SdkNext]_sdkVars => [OfficeNext]_vars
    BY SdkStepsAreActors, ActorsAreOfficers
  <1> QED
    BY <1>1, <1>2, SdkInvInit, SdkInvStep, PTL
    DEF SdkSpec, ImplementsOffice, OfficeSpec

------------------------------------------------------------------------------
(* Collateral and votes *)

\* Collateral is never stranded by the SDK: in every reachable state the
\* voters in the tree are exactly the holders of a live Registration Coin.
THEOREM NothingStrandedTheorem == SdkSpec => []NothingStranded
  <1>1. SdkInv => NothingStranded
    BY ActorsStrandNothing DEF SdkInv
  <1> QED
    BY <1>1, SdkInvInit, SdkInvStep, PTL DEF SdkSpec

\* A decision counts no vote of a voter who did not lock the weight it is
\* counted with, or who minted no Voting Coin on the ballot.
THEOREM PaidVotesTheorem == SdkSpec => []CountedVotesWerePaidFor
  <1>1. SdkInv => CountedVotesWerePaidFor
    BY ActorsPay DEF SdkInv
  <1> QED
    BY <1>1, SdkInvInit, SdkInvStep, PTL DEF SdkSpec

\* From the close height on, the vote a Voting Coin holds for a ballot stays:
\* no update of it is accepted, and no mint creates the coin again.
THEOREM FrozenVotesTheorem == SdkSpec => VotesFrozenAtClose
  <1>1. ASSUME SdkInv, [ActorNext]_vars, NEW k \in VotingCoinId, Minted(k),
               height >= ballot[votingCoin[k].cast].close,
               votingCoin'[k].cast = votingCoin[k].cast
        PROVE  votingCoin'[k] = votingCoin[k]
    <2>types. votingCoin \in [VotingCoinId -> VotingCoin] /\ height \in Int
              /\ ballot \in [Ballot -> BallotCoin]
      BY <1>1, ConstantsAssumption
      DEF SdkInv, ActorInv, OfficeInv, TypeInv, TypeOK, Height
    <2> SUFFICES ASSUME votingCoin'[k] # votingCoin[k] PROVE FALSE
      OBVIOUS
    <2>1. PICK v \in Voter, n \in 1..MaxRegistrations, b \in Ballot, o \in Outcome :
            \/ \E j \in Stake :
                 MintVotingCoin(v, n, b, o, j, "counterpart", {<<v, b, o>>})
            \/ UpdateVote(v, n, b, b, o, "counterpart", {<<v, b, o>>})
      BY <1>1, ActorsWriteVotes
    <2>id. <<v, n, b>> \in VotingCoinId
      BY DEF VotingCoinId
    <2>2. ASSUME NEW j \in Stake,
                 MintVotingCoin(v, n, b, o, j, "counterpart", {<<v, b, o>>})
          PROVE  FALSE
      <3>1. k = <<v, n, b>>
        BY <2>2, <2>types, <2>id DEF MintVotingCoin
      <3>2. b \in regCoin[<<v, n>>].voted
        BY <1>1, <3>1 DEF SdkInv, ActorInv, MintsAreRecorded
      <3> QED
        BY <2>2, <3>2 DEF MintVotingCoin, CanMint
    <2>3. ASSUME UpdateVote(v, n, b, b, o, "counterpart", {<<v, b, o>>})
          PROVE  FALSE
      <3> DEFINE coin == [votingCoin[<<v, n, b>>]
                            EXCEPT !.vote = o, !.cast = b, !.at = height]
      <3>1. votingCoin' = [votingCoin EXCEPT ![<<v, n, b>>] = coin]
        BY <2>3 DEF UpdateVote
      <3>2. coin.cast = b
        BY <2>types, <2>id DEF VotingCoin
      <3> HIDE DEF coin
      <3>3. k = <<v, n, b>> /\ votingCoin'[k] = coin
        BY <3>1, <2>types, <2>id
      <3>4. votingCoin[k].cast = b
        BY <1>1, <3>2, <3>3
      <3>5. height < ballot[b].close /\ ballot[b].close \in Int
        BY <2>3, <2>types, ConstantsAssumption
        DEF UpdateVote, CanUpdate, UpdateWindow, BallotCoin, Height
      <3> QED
        BY <1>1, <2>types, <3>4, <3>5
    <2> QED
      BY <2>1, <2>2, <2>3
  <1>2. SdkInv /\ [SdkNext]_sdkVars =>
          [\A k \in VotingCoinId :
             LET b == votingCoin[k].cast IN
             /\ Minted(k)
             /\ height >= ballot[b].close
             /\ votingCoin'[k].cast = b
             => votingCoin'[k] = votingCoin[k]]_sdkVars
    BY <1>1, SdkStepsAreActors
  <1> QED
    BY <1>2, SdkInvInit, SdkInvStep, PTL DEF SdkSpec, VotesFrozenAtClose

------------------------------------------------------------------------------
(* The prover's words *)

\* A product of words that fits a word is its own residue, and so is their
\* difference: what the prover assigns satisfies the constraints.
LEMMA WitnessSatisfies ==
  ASSUME NEW carried \in Nat, NEW total \in Nat, NEW t \in Fraction,
         NEW root, NEW S, NEW message, NEW launcher,
         MeetsInWords(carried, total, t)
  PROVE  Satisfied(Scalars(root, total, S, message, t, launcher),
                   Witness(carried, total, t))
  <1> DEFINE l == carried * t.den
             r == t.num * total
  <1>1. t.den \in Nat /\ t.num \in Nat
    BY DEF Fraction
  <1>2. l \in Nat /\ r \in Nat /\ t.den * carried = l
    BY <1>1
  <1>3. l < WordSize /\ r < WordSize /\ l >= r
    BY DEF MeetsInWords, ProductFits
  <1> HIDE DEF l, r
  <1>4. WordSize \in Nat /\ FieldOrder \in Nat /\ WordSize < FieldOrder
    BY CircuitAssumption
  <1>5. /\ l % FieldOrder = l /\ r % FieldOrder = r
        /\ (l - r) % FieldOrder = l - r
    BY <1>2, <1>3, <1>4
  <1>6. LET w == Witness(carried, total, t) IN
        /\ w.lhs = (t.den * carried) % FieldOrder
        /\ w.rhs = r % FieldOrder
        /\ w.slack = l - r
        /\ w.carried = carried /\ w.total = total
    BY DEF Witness, l, r
  <1>7. LET s == Scalars(root, total, S, message, t, launcher) IN
        s.s7 = t.num /\ s.s8 = t.den
    BY DEF Scalars
  <1> QED
    BY <1>2, <1>5, <1>6, <1>7 DEF Satisfied, r

\* A quorum of a tree whose weight stays in a word when multiplied out is one
\* by the prover's arithmetic.
LEMMA QuorumInWords ==
  ASSUME NEW t \in [Slot -> Leaf], NEW f \in Fraction, NEW S \in SUBSET Voter,
         ProductFits(TreeWeight(t), f.den), ProductFits(f.num, TreeWeight(t)),
         Provable(t, TreeWeight(t), f, S)
  PROVE  /\ TreeWeight(t) \in Nat
         /\ Wrapped(SignedWeight(t, S)) \in Nat
         /\ MeetsInWords(Wrapped(SignedWeight(t, S)), TreeWeight(t), f)
  <1> DEFINE w == SignedWeight(t, S)
             total == TreeWeight(t)
  <1>1. /\ w \in Int /\ total \in Nat
        /\ w + SignedWeight(t, {}) <= total
        /\ SignedWeight(t, {}) \in Int
    <2>1. {} \in SUBSET Voter /\ S \cap {} = {}
          /\ \A v \in S \cup {} : Registered(t, v)
      BY DEF Provable
    <2> QED
      BY <2>1, DisjointSigners
  <1>2. SignedWeight(t, {}) = 0
    <2> DEFINE g == [v \in Voter |-> LockedAmount(t, v)]
    <2>1. g \in [Voter -> Int]
      BY ConstantsAssumption DEF LockedAmount, Leaf
    <2>2. SignedWeight(t, {}) = SumFunctionOnSet(g, {})
      BY DEF SignedWeight
    <2> HIDE DEF g
    <2> QED
      BY <2>1, <2>2, FiniteAssumption, SumAdds
  <1>3. f.den \in Nat /\ f.den >= 1 /\ f.num \in Nat
    BY DEF Fraction
  <1>4. w * f.den >= f.num * total
    BY DEF Provable, MeetsThreshold
  <1>5. total * f.den < WordSize /\ f.num * total < WordSize
    BY DEF ProductFits
  <1>6. WordSize \in Nat
    BY CircuitAssumption
  <1> HIDE DEF w, total
  <1>7. f.num * total >= 0
    BY <1>1, <1>3
  <1>8. w >= 0
    <2> SUFFICES ASSUME w <= -1 PROVE FALSE
      BY <1>1
    <2>1. w * f.den <= -1
      BY <1>1, <1>3
    <2> QED
      BY <1>1, <1>3, <1>4, <1>7, <2>1
  <1>9. w <= total
    BY <1>1, <1>2
  <1>10. w * f.den <= total * f.den
    BY <1>1, <1>3, <1>8, <1>9
  <1>11. w <= w * f.den
    BY <1>1, <1>3, <1>8
  <1>12. w * f.den < WordSize /\ w < WordSize
    BY <1>1, <1>3, <1>5, <1>6, <1>10, <1>11
  <1>13. Wrapped(w) = w
    BY <1>1, <1>6, <1>8, <1>12 DEF Wrapped
  <1>14. MeetsInWords(w, total, f)
    BY <1>4, <1>5, <1>12 DEF MeetsInWords, ProductFits
  <1> QED
    BY <1>1, <1>8, <1>13, <1>14 DEF w, total

\* In every reachable state, a ballot whose numbers stay in a word can be
\* proved by every signer set that carries its share: circuit.prove refuses
\* nothing that prepare_finalize_witness_with_threshold lets through.
THEOREM QuorumsAreProvedTheorem == SdkSpec => []QuorumsAreProved
  <1>1. SdkInv => QuorumsAreProved
    <2> SUFFICES ASSUME SdkInv,
                        NEW b \in Ballot,
                        ballot[b].phase \in {"drafted", "launched"},
                        WithinWords(b),
                        NEW S \in SUBSET Voter, NEW o \in Outcome,
                        Provable(ballot[b].tree, ballot[b].total,
                                 ballot[b].threshold, S)
                 PROVE  Proves(b, o, ballot[b].tree, S)
      BY DEF QuorumsAreProved
    <2> DEFINE t == ballot[b].tree
               f == ballot[b].threshold
               w == Wrapped(SignedWeight(t, S))
    <2>0. OfficeInv
      BY DEF SdkInv, ActorInv
    <2>1. t \in [Slot -> Leaf] /\ f \in Fraction
      BY <2>0 DEF OfficeInv, TypeInv, TypeOK, BallotCoin
    <2>2. ballot[b].total = TreeWeight(t)
      BY <2>0 DEF OfficeInv, WeightInv, Totals
    <2>3. Provable(t, TreeWeight(t), f, S) /\ S # {}
      BY <2>2 DEF Provable
    <2>4. ProductFits(TreeWeight(t), f.den) /\ ProductFits(f.num, TreeWeight(t))
      BY <2>2 DEF WithinWords
    <2> HIDE DEF t, f
    <2>5. /\ TreeWeight(t) \in Nat /\ w \in Nat
          /\ MeetsInWords(w, TreeWeight(t), f)
      BY <2>1, <2>3, <2>4, QuorumInWords
    <2> HIDE DEF w
    <2>6. Satisfied(Scalars(t, TreeWeight(t), S, <<o, b>>, f, b),
                    Witness(w, TreeWeight(t), f))
      BY <2>1, <2>5, WitnessSatisfies
    <2> QED
      BY <2>2, <2>3, <2>5, <2>6 DEF Proves, ScalarsFor, t, f, w
  <1> QED
    BY <1>1, SdkInvInit, SdkInvStep, PTL DEF SdkSpec
==============================================================================
