-------------------------------- MODULE Circuit --------------------------------
(***************************************************************************)
(* The circuit behind a finalize proof, as prover/circuit.rs synthesizes   *)
(* it: eight public scalars, the weighted-quorum gadget and the u64        *)
(* arithmetic an honest prover fills its witness with.  Groth16 itself is  *)
(* taken as what it promises: a proof exists for a witness that satisfies  *)
(* the constraints, and verifies for the scalars it was made for.          *)
(*                                                                         *)
(* A scalar s1 to s6 is a hash reduced mod r and stands for what is hashed *)
(* (no two of the inputs collide); s7 and s8 are the numbers themselves.   *)
(***************************************************************************)
EXTENDS Integers

CONSTANTS
  WordSize,   \* 2^64: u64 arithmetic is over 0..WordSize - 1
  FieldOrder  \* r, the order of the scalar field of BLS12-381

ASSUME CircuitAssumption ==
  /\ WordSize \in Nat \ {0}
  /\ FieldOrder \in Nat
  /\ FieldOrder > WordSize * WordSize

\* Scalars::compute, for the threshold t = [num, den].
Scalars(root, total, signers, message, t, launcher) ==
  [s1 |-> root, s2 |-> total, s3 |-> signers, s4 |-> message,
   s5 |-> t, s6 |-> launcher, s7 |-> t.num, s8 |-> t.den]

\* A sum of words wraps, a product of words is checked.
Wrapped(n) == n % WordSize
ProductFits(m, n) == m * n < WordSize

\* The check before proving, and again while the constraints are generated:
\* both sides of the inequality fit a word, and it holds.
MeetsInWords(carried, total, t) ==
  /\ ProductFits(carried, t.den)
  /\ ProductFits(t.num, total)
  /\ carried * t.den >= t.num * total

\* What the prover assigns to the private variables.
Witness(carried, total, t) ==
  [total   |-> total,
   carried |-> carried,
   slack   |-> carried * t.den - t.num * total,
   lhs     |-> (t.den * carried) % FieldOrder,
   rhs     |-> (t.num * total) % FieldOrder]

\* The three constraints, over the field.
Satisfied(s, w) ==
  /\ w.lhs = (s.s8 * w.carried) % FieldOrder
  /\ w.rhs = (s.s7 * w.total) % FieldOrder
  /\ w.slack = (w.lhs - w.rhs) % FieldOrder
==============================================================================
