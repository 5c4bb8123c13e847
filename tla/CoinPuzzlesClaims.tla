---------------------------- MODULE CoinPuzzlesClaims ---------------------------
(***************************************************************************)
(* What the sources say of the SDK's spends and the puzzles refuse.        *)
(***************************************************************************)
EXTENDS MCCoinPuzzles

\* build_announce_finalization_bundle makes a spend that the chain accepts, for
\* any free ballot that was decided, as its documentation says.
DecidedBallotsCanBeAnnounced ==
  state.lock = NoLock => \A b \in DOMAIN ballot : Free(b) /\ ~Open(b) => SdkAnnounces(b)
=============================================================================
