-------------------------- MODULE SealedTranscript ---------------------------
(***************************************************************************)
(* What a ceremony promises: a transcript grows at its end, and is sealed  *)
(* once, after at least Quorum entries; then neither it nor its seal ever  *)
(* changes.  What it is sealed with is not part of the promise.            *)
(***************************************************************************)
EXTENDS Naturals, Sequences

CONSTANTS
  Entry,   \* contributions
  Quorum,  \* fewest contributions a seal may follow
  Unsealed

VARIABLES
  entries, \* the transcript
  sealed   \* what it was sealed with, or Unsealed

vars == <<entries, sealed>>

Init ==
  /\ entries = <<>>
  /\ sealed = Unsealed

Extend ==
  /\ sealed = Unsealed
  /\ entries' \in Seq(Entry)
  /\ Len(entries) < Len(entries')
  /\ SubSeq(entries', 1, Len(entries)) = entries
  /\ UNCHANGED sealed

Seal ==
  /\ sealed = Unsealed
  /\ Len(entries) >= Quorum
  /\ sealed' # Unsealed
  /\ UNCHANGED entries

Next == Extend \/ Seal

Spec == Init /\ [][Next]_vars
==============================================================================
