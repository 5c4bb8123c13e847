--------------------------- MODULE MCSingletonReader ---------------------------
(* Instances of SingletonReader small enough for TLC. *)
EXTENDS SingletonReader, TLC

CONSTANTS v1, v2, r1
==============================================================================
