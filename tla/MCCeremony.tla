----------------------------- MODULE MCCeremony ------------------------------
(* Instances of Ceremony small enough for TLC. *)
EXTENDS Ceremony

CONSTANTS h1, h2, c1, c2
==============================================================================
