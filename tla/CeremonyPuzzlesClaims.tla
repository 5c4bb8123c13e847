-------------------------- MODULE CeremonyPuzzlesClaims -------------------------
(***************************************************************************)
(* What a comment says of the ceremony and the SDK does not do.            *)
(***************************************************************************)
EXTENDS MCCeremonyPuzzles

OneContribution == {First32}
SmallCeremony == {[start |-> 0, length |-> 1, minimum |-> 1, maxVoters |-> 3]}

\* A client seals the ceremony through the SDK or its bindings, with the right
\* lineage proof and enough funds.
BindingsFinalize(funder) ==
  FinalizeAccepted(BindingsParams(ReadMemo), Tip.state, TrueProof, funder)
SdkFinalize(funder) ==
  FinalizeAccepted(ReadMemo, Tip.state, TrueProof, funder)

SealCeremony ==
  /\ \E funder \in FunderAmount : SdkFinalize(funder) \/ BindingsFinalize(funder)
  /\ \E seal \in Seal : Finalize(seal)

SdkNext ==
  \/ AdvanceHeight
  \/ \E c \in Contribution : SignContribution(c, state.last) \/ Contribute(<<c>>)
  \/ SealCeremony

SdkSpec == Init /\ [][SdkNext]_vars /\ WF_vars(AdvanceHeight) /\ WF_vars(SealCeremony)

\* CeremonyFinalizer: "Anyone can drive a finalize spend once the window has
\* closed and the configured threshold is met".
SdkSealsTheCeremony == state.count >= params.minimum ~> state.finalized
=============================================================================
