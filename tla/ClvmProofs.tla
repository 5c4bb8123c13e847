------------------------------- MODULE ClvmProofs -------------------------------
(***************************************************************************)
(* What the operators of Clvm compute, for every argument.                 *)
(***************************************************************************)
EXTENDS Clvm, SequenceTheorems, FiniteSetTheorems, WellFoundedInduction, TLAPS

----------------------------------------------------------------------------
(* Recursion.  The induction theorems of the library cannot be             *)
(* instantiated; the well-founded order of the numbers can.                *)

\* Numbers have a smallest.
LEMMA SmallestNumber ==
  ASSUME NEW I \in SUBSET Nat, I # {}
  PROVE  \E i \in I : \A j \in I : i <= j
<1> DEFINE R == {p \in Nat \X Nat : p[1] < p[2]}
<1>1. OpToRel(<, Nat) = R
  BY DEF OpToRel
<1>2. IsWellFoundedOn(R, Nat)
  BY <1>1, NatLessThanWellFounded
<1>3. PICK i \in I : \A j \in I : ~(<<j, i>> \in R)
  BY <1>2, WFMin
<1>4. ASSUME NEW j \in I PROVE i <= j
  <2>1. ~(<<j, i>> \in R)
    BY <1>3
  <2> QED BY <2>1
<1> QED BY <1>4

\* Induction over the numbers, for a set of them.
LEMMA NumberInduction ==
  ASSUME NEW G \in SUBSET Nat, 0 \in G, \A n \in G : n + 1 \in G
  PROVE  G = Nat
<1> SUFFICES ASSUME Nat \ G # {} PROVE FALSE
  OBVIOUS
<1> DEFINE R == {p \in Nat \X Nat : p[1] < p[2]}
<1>1. OpToRel(<, Nat) = R
  BY DEF OpToRel
<1>2. IsWellFoundedOn(R, Nat)
  BY <1>1, NatLessThanWellFounded
<1>3. PICK n \in Nat \ G : \A m \in Nat \ G : ~(<<m, n>> \in R)
  BY <1>2, WFMin
<1>4. n # 0 /\ n - 1 \in Nat /\ n - 1 < n
  BY 0 \in G
<1>5. n - 1 \in G
  <2>1. SUFFICES ASSUME n - 1 \notin G PROVE FALSE
    OBVIOUS
  <2>2. <<n - 1, n>> \in R
    BY <1>4
  <2> QED
    BY <1>3, <1>4, <2>1, <2>2
<1> QED
  <2>1. (n - 1) + 1 \in G
    BY <1>5
  <2>2. (n - 1) + 1 = n
    OBVIOUS
  <2> QED
    BY <2>1, <2>2

\* Course-of-values induction.
LEMMA StrongInduction ==
  ASSUME NEW G \in SUBSET Nat, \A n \in Nat : (\A m \in 0 .. n - 1 : m \in G) => n \in G
  PROVE  G = Nat
<1> DEFINE H == {n \in Nat : \A m \in 0 .. n - 1 : m \in G}
<1>1. 0 \in H
  OBVIOUS
<1>2. ASSUME NEW n \in H PROVE n + 1 \in H
  <2>1. n \in G
    OBVIOUS
  <2>2. \A m \in 0 .. (n + 1) - 1 : m \in 0 .. n - 1 \/ m = n
    OBVIOUS
  <2> QED BY <2>1, <2>2
<1>3. H = Nat
  <2> HIDE DEF H
  <2>1. H \in SUBSET Nat
    BY DEF H
  <2> QED BY <1>1, <1>2, <2>1, NumberInduction
<1> QED BY <1>3

----------------------------------------------------------------------------
(* Integers as atoms.                                                       *)

\* The number a string of bytes reads as, digit by digit.
IsValue(s, f) ==
  f = [k \in 0 .. Len(s) |-> IF k = 0 THEN 0 ELSE f[k - 1] * ByteBase + s[k]]

\* The value of a string of bytes, as its recursion says.
LEMMA UnsignedDef ==
  ASSUME NEW s \in Seq(Bytes)
  PROVE  \E f : IsValue(s, f) /\ Unsigned(s) = f[Len(s)]
<1> DEFINE Step(g, k) == IF k = 0 THEN 0 ELSE g[k - 1] * ByteBase + s[k]
           N == {n \in Nat : \E g : g = [k \in 0 .. n |-> Step(g, k)]}
<1>1. 0 \in N
  <2> DEFINE g == [k \in 0 .. 0 |-> 0]
  <2>1. g = [k \in 0 .. 0 |-> Step(g, k)]
    OBVIOUS
  <2> QED BY <2>1
<1>2. ASSUME NEW n \in N PROVE n + 1 \in N
  <2>1. n \in Nat
    OBVIOUS
  <2>2. PICK g : g = [k \in 0 .. n |-> Step(g, k)]
    OBVIOUS
  <2> DEFINE h == [k \in 0 .. n + 1 |-> IF k <= n THEN g[k] ELSE Step(g, n + 1)]
  <2>3. \A k \in 0 .. n + 1 : h[k] = Step(h, k)
    <3> TAKE k \in 0 .. n + 1
    <3>1. CASE k = 0
      BY <2>1, <2>2, <3>1
    <3>2. CASE k \in 1 .. n
      <4>1. g[k] = Step(g, k) /\ h[k - 1] = g[k - 1] /\ h[k] = g[k]
        BY <2>1, <2>2, <3>2
      <4> QED BY <3>2, <4>1
    <3>3. CASE k = n + 1
      BY <2>1, <3>3
    <3> QED BY <2>1, <3>1, <3>2, <3>3
  <2>4. h = [k \in 0 .. n + 1 |-> Step(h, k)]
    BY <2>3
  <2> HIDE DEF h, Step
  <2> QED BY <2>1, <2>4
<1>3. N = Nat
  <2> HIDE DEF N
  <2>1. N \in SUBSET Nat
    BY DEF N
  <2> QED BY <1>1, <1>2, <2>1, NumberInduction
<1>4. Len(s) \in N
  BY <1>3
<1>5. \E g : IsValue(s, g)
  BY <1>4 DEF IsValue
<1>6. IsValue(s, CHOOSE g : IsValue(s, g))
  BY <1>5
<1> QED
  BY <1>6 DEF IsValue, Unsigned

\* Bytes are numbers, and zero is one without a sign.
LEMMA ByteFacts ==
  /\ ByteBase \in Nat /\ ByteBase >= 2 /\ MaxInt \in Nat
  /\ Bytes \subseteq Nat /\ 0 \in Bytes /\ ~HasSign(0)
<1>1. PICK k \in 1 .. 128 : ByteBase = 2 * k
  BY ClvmAssumption
<1>2. ByteBase \div 2 = k
  BY <1>1
<1> QED BY <1>1, <1>2, ClvmAssumption DEF Bytes, HasSign

\* Division by the base.
LEMMA Division ==
  ASSUME NEW n \in Nat
  PROVE  /\ n \div ByteBase \in Nat
         /\ n % ByteBase \in Bytes
         /\ n = (n \div ByteBase) * ByteBase + (n % ByteBase)
         /\ n > 0 => n \div ByteBase < n
<1> DEFINE b == ByteBase
           q == n \div b
           r == n - b * q
<1>1. b \in Nat \ {0, 1}
  BY ByteFacts
<1>2. q \in Nat /\ n % b \in 0 .. b - 1
  BY <1>1
<1>3. b * q <= n /\ n < b * q + b
  <2>1. b * q <= n
    BY <1>1, Z3
  <2>2. n < b * q + b
    BY <1>1
  <2> QED BY <2>1, <2>2
<1>4. b * q \in Nat /\ r \in 0 .. b - 1 /\ n = b * q + r
  BY <1>1, <1>2, <1>3
<1>5. n % b = r
  <2>1. \A u \in Nat, d \in 0 .. b - 1 : (b * u + d) % b = d
    BY <1>1
  <2> HIDE DEF b, q, r
  <2> QED BY <1>2, <1>4, <2>1
<1>6. b * q = q * b
  BY <1>1, <1>2
<1>7. n > 0 => q < n
  BY <1>1
<1> HIDE DEF q, r
<1> QED BY <1>2, <1>4, <1>5, <1>6, <1>7 DEF Bytes, q

\* A digit more.
LEMMA Digit ==
  ASSUME NEW q \in Nat, NEW d \in Bytes
  PROVE  /\ q * ByteBase + d \in Nat
         /\ (q * ByteBase + d) \div ByteBase = q
         /\ (q * ByteBase + d) % ByteBase = d
<1> DEFINE b == ByteBase
<1>1. b \in Nat \ {0} /\ d \in 0 .. b - 1
  BY ByteFacts DEF Bytes
<1>2. (b * q + d) \div b = q
  BY <1>1
<1>3. (b * q + d) % b = d
  BY <1>1
<1>4. b * q = q * b /\ b * q + d \in Nat
  BY <1>1
<1> QED BY <1>2, <1>3, <1>4

\* The value of a string of bytes is a number.
LEMMA ValueType ==
  ASSUME NEW s \in Seq(Bytes), NEW f, IsValue(s, f)
  PROVE  \A k \in 0 .. Len(s) : f[k] \in Nat
<1> DEFINE N == {k \in Nat : k \in 0 .. Len(s) => f[k] \in Nat}
<1>0. \A k \in 0 .. Len(s) : f[k] = IF k = 0 THEN 0 ELSE f[k - 1] * ByteBase + s[k]
  BY DEF IsValue
<1>1. 0 \in N
  BY <1>0
<1>2. ASSUME NEW k \in N PROVE k + 1 \in N
  <2>1. k \in Nat /\ (k \in 0 .. Len(s) => f[k] \in Nat)
    OBVIOUS
  <2>2. ASSUME k + 1 \in 0 .. Len(s) PROVE f[k + 1] \in Nat
    <3>1. f[k] \in Nat /\ s[k + 1] \in Nat
      <4>1. k \in 0 .. Len(s) /\ k + 1 \in 1 .. Len(s)
        BY <2>1, <2>2
      <4>2. s[k + 1] \in Bytes
        BY <4>1
      <4> QED BY <2>1, <4>1, <4>2, ByteFacts
    <3>2. f[k + 1] = f[k] * ByteBase + s[k + 1]
      BY <1>0, <2>1, <2>2
    <3>3. f[k] * ByteBase \in Nat
      BY <3>1, ByteFacts
    <3> QED BY <3>1, <3>2, <3>3
  <2> QED BY <2>1, <2>2
<1>3. N = Nat
  <2> HIDE DEF N
  <2>1. N \in SUBSET Nat
    BY DEF N
  <2> QED BY <1>1, <1>2, <2>1, NumberInduction
<1> QED BY <1>3

\* The empty string is zero.
LEMMA UnsignedEmpty == Unsigned(<<>>) = 0
<1>1. PICK f : IsValue(<<>>, f) /\ Unsigned(<<>>) = f[Len(<<>>)]
  <2>1. <<>> \in Seq(Bytes)
    OBVIOUS
  <2> QED BY <2>1, UnsignedDef
<1>2. Len(<<>>) = 0
  OBVIOUS
<1> QED BY <1>1, <1>2 DEF IsValue

\* A longer string reads as a digit more.
LEMMA UnsignedAppend ==
  ASSUME NEW s \in Seq(Bytes), NEW d \in Bytes
  PROVE  /\ Unsigned(s) \in Nat
         /\ Unsigned(Append(s, d)) = Unsigned(s) * ByteBase + d
<1> DEFINE t == Append(s, d)
           n == Len(s)
<1>1. t \in Seq(Bytes) /\ Len(t) = n + 1 /\ n \in Nat /\ t[n + 1] = d
  OBVIOUS
<1>2. \A k \in 1 .. n : t[k] = s[k]
  OBVIOUS
<1>3. PICK f : IsValue(s, f) /\ Unsigned(s) = f[n]
  BY UnsignedDef
<1>4. PICK g : IsValue(t, g) /\ Unsigned(t) = g[n + 1]
  BY <1>1, UnsignedDef
<1> HIDE DEF t
<1>5. \A k \in 0 .. n : f[k] = IF k = 0 THEN 0 ELSE f[k - 1] * ByteBase + s[k]
  BY <1>3 DEF IsValue
<1>6. \A k \in 0 .. n + 1 : g[k] = IF k = 0 THEN 0 ELSE g[k - 1] * ByteBase + t[k]
  BY <1>1, <1>4 DEF IsValue
<1> DEFINE N == {k \in Nat : k <= n => f[k] = g[k]}
<1>7. 0 \in N
  BY <1>1, <1>5, <1>6
<1>8. ASSUME NEW k \in N PROVE k + 1 \in N
  <2>1. ASSUME k + 1 <= n PROVE f[k + 1] = g[k + 1]
    BY <1>1, <1>2, <1>5, <1>6, <2>1
  <2> QED BY <2>1
<1>9. N = Nat
  <2> HIDE DEF N
  <2>1. N \in SUBSET Nat
    BY DEF N
  <2> QED BY <1>7, <1>8, <2>1, NumberInduction
<1>10. f[n] = g[n] /\ g[n + 1] = g[n] * ByteBase + d
  BY <1>1, <1>6, <1>9
<1>11. f[n] \in Nat
  BY <1>1, <1>3, ValueType
<1> QED BY <1>3, <1>4, <1>10, <1>11 DEF t

\* The SDK's digits, as its recursion gives them up to a number.
DigitStep(g, n) == IF n = 0 THEN <<>> ELSE Append(g[n \div ByteBase], n % ByteBase)
DigitsTo(m, g) == g = [n \in 0 .. m |-> DigitStep(g, n)]

\* The digits of all numbers up to any number exist,
LEMMA DigitsExist == \A m \in Nat : \E g : DigitsTo(m, g)
<1> DEFINE N == {m \in Nat : \E g : DigitsTo(m, g)}
<1>1. 0 \in N
  <2> DEFINE g == [n \in 0 .. 0 |-> <<>>]
  <2>1. DigitsTo(0, g)
    BY DEF DigitsTo, DigitStep
  <2> QED BY <2>1
<1>2. ASSUME NEW m \in N PROVE m + 1 \in N
  <2>1. m \in Nat
    OBVIOUS
  <2>2. PICK g : DigitsTo(m, g)
    OBVIOUS
  <2> DEFINE h == [n \in 0 .. m + 1 |-> IF n <= m THEN g[n] ELSE DigitStep(g, m + 1)]
  <2>3. ASSUME NEW n \in 0 .. m + 1 PROVE h[n] = DigitStep(h, n)
    <3>1. CASE n = 0
      BY <2>1, <2>2, <3>1 DEF DigitsTo, DigitStep
    <3>2. CASE n > 0
      <4>1. n \div ByteBase \in 0 .. m
        BY <2>1, <3>2, Division
      <4>2. h[n \div ByteBase] = g[n \div ByteBase]
        BY <2>1, <4>1
      <4>3. DigitStep(h, n) = DigitStep(g, n)
        BY <3>2, <4>2 DEF DigitStep
      <4>4. h[n] = DigitStep(g, n)
        BY <2>1, <2>2 DEF DigitsTo
      <4> QED BY <4>3, <4>4
    <3> QED BY <3>1, <3>2
  <2>4. h = [n \in 0 .. m + 1 |-> DigitStep(h, n)]
    BY <2>3
  <2> HIDE DEF h
  <2> QED BY <2>1, <2>4 DEF DigitsTo
<1>3. N = Nat
  <2> HIDE DEF N
  <2>1. N \in SUBSET Nat
    BY DEF N
  <2> QED BY <1>1, <1>2, <2>1, NumberInduction
<1> QED BY <1>3

\* and are the same whatever that number is,
LEMMA DigitsAgree ==
  ASSUME NEW m \in Nat, NEW p \in Nat, NEW g, NEW h, DigitsTo(m, g), DigitsTo(p, h)
  PROVE  \A n \in Nat : n <= m /\ n <= p => g[n] = h[n]
<1> DEFINE N == {n \in Nat : n <= m /\ n <= p => g[n] = h[n]}
<1>1. ASSUME NEW n \in Nat, \A k \in 0 .. n - 1 : k \in N PROVE n \in N
  <2> SUFFICES ASSUME n <= m, n <= p PROVE g[n] = h[n]
    OBVIOUS
  <2>1. n \in 0 .. m /\ n \in 0 .. p
    OBVIOUS
  <2>1a. g[n] = DigitStep(g, n) /\ h[n] = DigitStep(h, n)
    BY <2>1 DEF DigitsTo
  <2>2. CASE n = 0
    BY <2>1a, <2>2 DEF DigitStep
  <2>3. CASE n > 0
    <3>1. n \div ByteBase \in 0 .. n - 1
      BY <2>3, Division
    <3>2. g[n \div ByteBase] = h[n \div ByteBase]
      <4>1. n \div ByteBase \in N /\ n \div ByteBase <= n
        BY <1>1, <3>1
      <4> QED BY <4>1
    <3> QED BY <2>1a, <2>3, <3>2 DEF DigitStep
  <2> QED BY <2>2, <2>3
<1>2. N = Nat
  <2> HIDE DEF N
  <2>1. N \in SUBSET Nat
    BY DEF N
  <2> QED BY <1>1, <2>1, StrongInduction
<1> QED BY <1>2

\* so the digits are what their recursion says.
LEMMA BigEndianDef ==
  /\ BigEndian[0] = <<>>
  /\ \A n \in Nat \ {0} : BigEndian[n] = Append(BigEndian[n \div ByteBase], n % ByteBase)
<1> DEFINE Some(m) == CHOOSE g : DigitsTo(m, g)
           all == [n \in Nat |-> Some(n)[n]]
<1>1. \A m \in Nat : DigitsTo(m, Some(m))
  BY DigitsExist
<1>2. ASSUME NEW n \in Nat PROVE all[n] = DigitStep(all, n)
  <2> HIDE DEF Some
  <2>1. Some(n)[n] = DigitStep(Some(n), n)
    BY <1>1 DEF DigitsTo
  <2>2. CASE n = 0
    BY <2>1, <2>2 DEF DigitStep
  <2>3. CASE n > 0
    <3> DEFINE q == n \div ByteBase
    <3>1. q \in Nat /\ q <= n
      BY <2>3, Division
    <3>2. Some(n)[q] = Some(q)[q]
      BY <1>1, <3>1, DigitsAgree
    <3> QED BY <2>1, <2>3, <3>1, <3>2 DEF DigitStep
  <2> QED BY <2>2, <2>3
<1>3. all = [n \in Nat |-> DigitStep(all, n)]
  BY <1>2
<1> DEFINE Is(f) == f = [n \in Nat |-> IF n = 0 THEN <<>> ELSE Append(f[n \div ByteBase], n % ByteBase)]
<1>4. Is(all)
  BY <1>3 DEF DigitStep
<1> HIDE DEF all
<1>5. Is(CHOOSE f : Is(f))
  BY <1>4
<1>6. Is(BigEndian)
  BY <1>5 DEF BigEndian
<1>7. BigEndian[0] = <<>>
  BY <1>6, Zenon
<1>8. ASSUME NEW n \in Nat, n # 0
      PROVE  BigEndian[n] = Append(BigEndian[n \div ByteBase], n % ByteBase)
  BY <1>6, <1>8, Zenon
<1> QED BY <1>7, <1>8

\* The SDK's digits are bytes and read back as the number.
LEMMA BigEndianReads ==
  \A n \in Nat : BigEndian[n] \in Seq(Bytes) /\ Unsigned(BigEndian[n]) = n
<1> DEFINE N == {n \in Nat : BigEndian[n] \in Seq(Bytes) /\ Unsigned(BigEndian[n]) = n}
<1>1. ASSUME NEW n \in Nat, \A k \in 0 .. n - 1 : k \in N PROVE n \in N
  <2>1. CASE n = 0
    <3>1. BigEndian[n] = <<>>
      BY <2>1, BigEndianDef
    <3>2. <<>> \in Seq(Bytes)
      OBVIOUS
    <3> QED BY <2>1, <3>1, <3>2, UnsignedEmpty
  <2>2. CASE n > 0
    <3> DEFINE q == n \div ByteBase
               d == n % ByteBase
    <3>1. q \in 0 .. n - 1 /\ d \in Bytes /\ n = q * ByteBase + d
      BY <2>2, Division
    <3>2. BigEndian[n] = Append(BigEndian[q], d)
      <4>1. n \in Nat \ {0}
        BY <2>2
      <4> QED BY <4>1, BigEndianDef
    <3>3. BigEndian[q] \in Seq(Bytes) /\ Unsigned(BigEndian[q]) = q
      BY <1>1, <3>1
    <3> HIDE DEF q, d
    <3>4. Append(BigEndian[q], d) \in Seq(Bytes)
      BY <3>1, <3>3
    <3>5. Unsigned(Append(BigEndian[q], d)) = q * ByteBase + d
      BY <3>1, <3>3, UnsignedAppend
    <3> QED BY <3>1, <3>2, <3>4, <3>5
  <2> QED BY <2>1, <2>2
<1>2. N = Nat
  <2> HIDE DEF N
  <2>1. N \in SUBSET Nat
    BY DEF N
  <2> QED BY <1>1, <2>1, StrongInduction
<1> QED BY <1>2

\* A sequence that is not empty is its front and its last element.
LEMMA FrontAndLast ==
  ASSUME NEW S, NEW s \in Seq(S), Len(s) > 0
  PROVE  \E u \in Seq(S), d \in S : s = Append(u, d) /\ Len(u) = Len(s) - 1
<1> DEFINE u == [i \in 1 .. Len(s) - 1 |-> s[i]]
<1>1. u \in Seq(S) /\ Len(u) = Len(s) - 1
  OBVIOUS
<1>2. s[Len(s)] \in S
  OBVIOUS
<1>3. s = Append(u, s[Len(s)])
  OBVIOUS
<1> QED BY <1>1, <1>2, <1>3

\* A sequence of one element.
LEMMA OneElement ==
  ASSUME NEW S, NEW s \in Seq(S), Len(s) = 1
  PROVE  s = <<s[1]>>
OBVIOUS

\* No string that reads as a number is shorter than its digits, and only the
\* digits are as short.
LEMMA DigitsAreShortest ==
  \A s \in Seq(Bytes) :
    /\ Unsigned(s) \in Nat
    /\ Len(BigEndian[Unsigned(s)]) <= Len(s)
    /\ Len(BigEndian[Unsigned(s)]) = Len(s) => s = BigEndian[Unsigned(s)]
<1> DEFINE P(s) == /\ Unsigned(s) \in Nat
                   /\ Len(BigEndian[Unsigned(s)]) <= Len(s)
                   /\ Len(BigEndian[Unsigned(s)]) = Len(s) => s = BigEndian[Unsigned(s)]
           N == {n \in Nat : \A s \in Seq(Bytes) : Len(s) = n => P(s)}
<1>1. 0 \in N
  <2> SUFFICES ASSUME NEW s \in Seq(Bytes), Len(s) = 0 PROVE P(s)
    OBVIOUS
  <2>1. s = <<>>
    OBVIOUS
  <2>2. Unsigned(s) = 0 /\ BigEndian[0] = <<>>
    BY <2>1, UnsignedEmpty, BigEndianDef
  <2> QED BY <2>1, <2>2
<1>2. ASSUME NEW n \in N PROVE n + 1 \in N
  <2> SUFFICES ASSUME NEW s \in Seq(Bytes), Len(s) = n + 1 PROVE P(s)
    OBVIOUS
  <2>1. n \in Nat /\ \A t \in Seq(Bytes) : Len(t) = n => P(t)
    OBVIOUS
  <2>2. PICK u \in Seq(Bytes), d \in Bytes : s = Append(u, d) /\ Len(u) = Len(s) - 1
    BY <2>1, FrontAndLast
  <2>3. P(u)
    BY <2>1, <2>2
  <2> DEFINE q == Unsigned(u)
             m == Unsigned(s)
  <2>4. q \in Nat /\ m = q * ByteBase + d
    BY <2>2, UnsignedAppend
  <2>5. m \in Nat /\ m \div ByteBase = q /\ m % ByteBase = d
    BY <2>4, Digit
  <2>6. BigEndian[q] \in Seq(Bytes) /\ BigEndian[m] \in Seq(Bytes)
    BY <2>4, <2>5, BigEndianReads
  <2> HIDE DEF q, m
  <2>7. CASE m = 0
    <3>1. BigEndian[m] = <<>>
      BY <2>7, BigEndianDef
    <3>2. Len(BigEndian[m]) = 0
      BY <3>1
    <3> QED BY <2>1, <2>5, <2>7, <3>2 DEF m
  <2>8. CASE m > 0
    <3>1. BigEndian[m] = Append(BigEndian[q], d)
      <4>1. m \in Nat \ {0}
        BY <2>5, <2>8
      <4> QED BY <2>5, <4>1, BigEndianDef
    <3>2. Len(BigEndian[m]) = Len(BigEndian[q]) + 1
      BY <2>6, <3>1
    <3>3. Len(BigEndian[q]) <= Len(u) /\ (Len(BigEndian[q]) = Len(u) => u = BigEndian[q])
      BY <2>3 DEF q
    <3>4. Len(u) = n /\ Len(s) = n + 1
      BY <2>1, <2>2
    <3>5. Len(BigEndian[q]) \in Nat
      BY <2>6
    <3> QED BY <2>1, <2>2, <2>5, <3>1, <3>2, <3>3, <3>4, <3>5 DEF m
  <2> QED BY <2>5, <2>7, <2>8
<1>3. N = Nat
  <2> HIDE DEF N
  <2>1. N \in SUBSET Nat
    BY DEF N
  <2> QED BY <1>1, <1>2, <2>1, NumberInduction
<1> HIDE DEF P
<1>4. \A s \in Seq(Bytes) : P(s)
  <2> TAKE s \in Seq(Bytes)
  <2>1. Len(s) \in N
    BY <1>3
  <2> QED BY <2>1
<1> QED BY <1>4 DEF P

\* A larger number has no fewer digits.
LEMMA DigitsGrow ==
  \A n \in Nat : \A m \in 0 .. n : Len(BigEndian[m]) <= Len(BigEndian[n])
<1> DEFINE N == {n \in Nat : \A m \in 0 .. n : Len(BigEndian[m]) <= Len(BigEndian[n])}
<1>0. \A n \in Nat : BigEndian[n] \in Seq(Bytes) /\ Len(BigEndian[n]) \in Nat
  BY BigEndianReads
<1>1. ASSUME NEW n \in Nat, \A k \in 0 .. n - 1 : k \in N PROVE n \in N
  <2> SUFFICES ASSUME NEW m \in 0 .. n PROVE Len(BigEndian[m]) <= Len(BigEndian[n])
    OBVIOUS
  <2>1. CASE m = 0
    <3>1. Len(BigEndian[m]) = 0
      BY <2>1, BigEndianDef
    <3> QED BY <1>0, <3>1
  <2>2. CASE m > 0
    <3> DEFINE q(k) == k \div ByteBase
    <3>1. \A k \in Nat : k > 0 => /\ q(k) \in 0 .. k - 1
                                  /\ Len(BigEndian[k]) = Len(BigEndian[q(k)]) + 1
      <4> SUFFICES ASSUME NEW k \in Nat, k > 0
                   PROVE  q(k) \in 0 .. k - 1 /\ Len(BigEndian[k]) = Len(BigEndian[q(k)]) + 1
        OBVIOUS
      <4>1. q(k) \in 0 .. k - 1 /\ q(k) \in Nat
        BY Division
      <4>2. BigEndian[k] = Append(BigEndian[q(k)], k % ByteBase)
        <5>1. k \in Nat \ {0}
          OBVIOUS
        <5> QED BY <5>1, BigEndianDef
      <4> HIDE DEF q
      <4>3. BigEndian[q(k)] \in Seq(Bytes)
        BY <1>0, <4>1
      <4> QED BY <4>1, <4>2, <4>3
    <3>2. q(m) <= q(n)
      <4>1. \A j, k \in Nat, b \in Nat \ {0} : j <= k => j \div b <= k \div b
        OBVIOUS
      <4> QED BY <4>1, ByteFacts
    <3>3. m \in Nat /\ n > 0
      BY <2>2
    <3>4. q(m) \in 0 .. q(n) /\ q(n) \in 0 .. n - 1
      BY <2>2, <3>1, <3>2, <3>3
    <3> HIDE DEF q
    <3>5. Len(BigEndian[q(m)]) <= Len(BigEndian[q(n)])
      BY <1>1, <3>4
    <3>6. Len(BigEndian[q(m)]) \in Nat /\ Len(BigEndian[q(n)]) \in Nat
      BY <1>0, <3>4
    <3> QED BY <2>2, <3>1, <3>3, <3>5, <3>6
  <2> QED BY <2>1, <2>2
<1>2. N = Nat
  <2> HIDE DEF N
  <2>1. N \in SUBSET Nat
    BY DEF N
  <2> QED BY <1>1, <2>1, StrongInduction
<1> QED BY <1>2

\* A zero byte in front, and a digit at the end.
LEMMA AppendAfterZero ==
  \A s \in Seq(Bytes), d \in Bytes : Append(<<0>> \o s, d) = <<0>> \o Append(s, d)
<1> SUFFICES ASSUME NEW s \in Seq(Bytes), NEW d \in Bytes
             PROVE  Append(<<0>> \o s, d) = <<0>> \o Append(s, d)
  OBVIOUS
<1>1. <<0>> \in Seq(Bytes)
  BY ByteFacts
<1> QED BY <1>1

\* A zero byte in front changes nothing.
LEMMA ZeroInFront ==
  \A s \in Seq(Bytes) : <<0>> \o s \in Seq(Bytes) /\ Unsigned(<<0>> \o s) = Unsigned(s)
<1> DEFINE N == {n \in Nat : \A s \in Seq(Bytes) : Len(s) = n => Unsigned(<<0>> \o s) = Unsigned(s)}
<1>0. <<>> \in Seq(Bytes) /\ <<0>> \in Seq(Bytes) /\ 0 \in Bytes
  BY ByteFacts
<1>1. 0 \in N
  <2> SUFFICES ASSUME NEW s \in Seq(Bytes), Len(s) = 0 PROVE Unsigned(<<0>> \o s) = Unsigned(s)
    OBVIOUS
  <2>1. s = <<>> /\ <<0>> \o s = Append(<<>>, 0)
    BY <1>0
  <2>2. Unsigned(Append(<<>>, 0)) = Unsigned(<<>>) * ByteBase + 0
    BY <1>0, UnsignedAppend
  <2> QED BY <2>1, <2>2, UnsignedEmpty, ByteFacts
<1>2. ASSUME NEW n \in N PROVE n + 1 \in N
  <2> SUFFICES ASSUME NEW s \in Seq(Bytes), Len(s) = n + 1
               PROVE  Unsigned(<<0>> \o s) = Unsigned(s)
    OBVIOUS
  <2>1. PICK u \in Seq(Bytes), d \in Bytes : s = Append(u, d) /\ Len(u) = Len(s) - 1
    BY FrontAndLast
  <2>2. Unsigned(<<0>> \o u) = Unsigned(u)
    BY <2>1
  <2>3. <<0>> \o s = Append(<<0>> \o u, d) /\ <<0>> \o u \in Seq(Bytes)
    BY <1>0, <2>1
  <2>4. /\ Unsigned(Append(<<0>> \o u, d)) = Unsigned(<<0>> \o u) * ByteBase + d
        /\ Unsigned(Append(u, d)) = Unsigned(u) * ByteBase + d
    BY <2>1, <2>3, UnsignedAppend
  <2> QED BY <2>1, <2>2, <2>3, <2>4
<1>3. N = Nat
  <2> HIDE DEF N
  <2>1. N \in SUBSET Nat
    BY DEF N
  <2> QED BY <1>1, <1>2, <2>1, NumberInduction
<1> QED
  <2> TAKE s \in Seq(Bytes)
  <2>1. Len(s) \in N
    BY <1>3
  <2> QED BY <1>0, <2>1

\* A string one byte longer than its digits has a zero in front of them.
LEMMA NextShortest ==
  \A s \in Seq(Bytes) :
    Len(s) = Len(BigEndian[Unsigned(s)]) + 1 => s = <<0>> \o BigEndian[Unsigned(s)]
<1> DEFINE P(s) == Len(s) = Len(BigEndian[Unsigned(s)]) + 1 => s = <<0>> \o BigEndian[Unsigned(s)]
           N == {n \in Nat : \A s \in Seq(Bytes) : Len(s) = n => P(s)}
<1>1. 0 \in N
  <2> SUFFICES ASSUME NEW s \in Seq(Bytes), Len(s) = 0 PROVE P(s)
    OBVIOUS
  <2>1. Unsigned(s) \in Nat
    BY DigitsAreShortest
  <2>2. BigEndian[Unsigned(s)] \in Seq(Bytes)
    BY <2>1, BigEndianReads
  <2>3. Len(BigEndian[Unsigned(s)]) \in Nat
    BY <2>2
  <2>4. Len(s) # Len(BigEndian[Unsigned(s)]) + 1
    <3> HIDE DEF P, N
    <3> QED BY <2>3
  <2> QED BY <2>4, Zenon
<1>2. ASSUME NEW n \in N PROVE n + 1 \in N
  <2> SUFFICES ASSUME NEW s \in Seq(Bytes), Len(s) = n + 1 PROVE P(s)
    OBVIOUS
  <2>1. n \in Nat /\ \A t \in Seq(Bytes) : Len(t) = n => P(t)
    OBVIOUS
  <2>2. PICK u \in Seq(Bytes), d \in Bytes : s = Append(u, d) /\ Len(u) = Len(s) - 1
    BY <2>1, FrontAndLast
  <2>3. P(u)
    BY <2>1, <2>2
  <2> DEFINE q == Unsigned(u)
             m == Unsigned(s)
  <2>4. q \in Nat /\ m = q * ByteBase + d
    BY <2>2, UnsignedAppend
  <2>5. m \in Nat /\ m \div ByteBase = q /\ m % ByteBase = d /\ d \in Nat
    <3>1. d \in Nat
      BY ByteFacts
    <3> QED BY <2>4, <3>1, Digit
  <2>6. BigEndian[q] \in Seq(Bytes) /\ BigEndian[m] \in Seq(Bytes)
    BY <2>4, <2>5, BigEndianReads
  <2>7. q * ByteBase \in Nat
    BY <2>4, ByteFacts
  <2> HIDE DEF q, m
  <2>8. CASE m = 0
    <3>1. BigEndian[m] = <<>> /\ Len(BigEndian[m]) = 0
      BY <2>8, BigEndianDef
    <3>2. d = 0
      BY <2>4, <2>5, <2>7, <2>8
    <3>3. Len(s) = 1 => s = <<0>>
      <4> SUFFICES ASSUME Len(s) = 1 PROVE s = <<0>>
        OBVIOUS
      <4> HIDE DEF P, N
      <4>1. s[1] = d
        BY <2>2
      <4>2. s = <<s[1]>>
        BY OneElement
      <4> QED BY <3>2, <4>1, <4>2, Zenon
    <3>4. <<0>> \o <<>> = <<0>>
      OBVIOUS
    <3>5. Len(s) = Len(BigEndian[m]) + 1 => s = <<0>> \o BigEndian[m]
      <4>1. Len(s) = Len(BigEndian[m]) + 1 => Len(s) = 1
        <5>1. Len(BigEndian[m]) = 0
          BY <3>1
        <5>2. 0 + 1 = 1
          OBVIOUS
        <5> QED BY <5>1, <5>2, Zenon
      <4>2. <<0>> \o BigEndian[m] = <<0>>
        BY <3>1, <3>4, Zenon
      <4> QED BY <3>3, <4>1, <4>2, Zenon
    <3> QED BY <3>5 DEF m
  <2>9. CASE m > 0
    <3>1. BigEndian[m] = Append(BigEndian[q], d)
      <4>1. m \in Nat \ {0}
        BY <2>5, <2>9
      <4> QED BY <2>5, <4>1, BigEndianDef
    <3>2. Len(BigEndian[m]) = Len(BigEndian[q]) + 1 /\ Len(BigEndian[q]) \in Nat
      BY <2>6, <3>1
    <3>3. Len(u) = Len(BigEndian[q]) + 1 => u = <<0>> \o BigEndian[q]
      BY <2>3 DEF q
    <3>4. Len(s) = Len(u) + 1 /\ Len(u) \in Nat
      BY <2>1, <2>2
    <3>5. Append(<<0>> \o BigEndian[q], d) = <<0>> \o Append(BigEndian[q], d)
      BY <2>6, AppendAfterZero
    <3> QED BY <2>2, <3>1, <3>2, <3>3, <3>4, <3>5 DEF m
  <2> QED BY <2>5, <2>8, <2>9
<1>3. N = Nat
  <2> HIDE DEF N
  <2>1. N \in SUBSET Nat
    BY DEF N
  <2> QED BY <1>1, <1>2, <2>1, NumberInduction
<1> HIDE DEF P
<1>4. \A s \in Seq(Bytes) : P(s)
  <2> TAKE s \in Seq(Bytes)
  <2>1. Len(s) \in N
    BY <1>3
  <2> QED BY <2>1
<1> QED BY <1>4 DEF P

\* The bytes of the SDK's atom.
SdkBytes(n) ==
  IF n > 0 /\ HasSign(BigEndian[n][1]) THEN <<0>> \o BigEndian[n] ELSE BigEndian[n]

\* The SDK's bytes denote the integer.
LEMMA SdkBytesDenote ==
  ASSUME NEW n \in Nat
  PROVE  /\ SdkBytes(n) \in Seq(Bytes)
         /\ Len(SdkBytes(n)) <= Len(BigEndian[n]) + 1
         /\ Denotes(SdkBytes(n), n)
<1>1. BigEndian[n] \in Seq(Bytes) /\ Unsigned(BigEndian[n]) = n
  BY BigEndianReads
<1>2. CASE n > 0 /\ HasSign(BigEndian[n][1])
  <2>1. SdkBytes(n) = <<0>> \o BigEndian[n]
    BY <1>2 DEF SdkBytes
  <2>2. SdkBytes(n) \in Seq(Bytes) /\ Unsigned(SdkBytes(n)) = n
    BY <1>1, <2>1, ZeroInFront
  <2>3. SdkBytes(n)[1] = 0 /\ Len(SdkBytes(n)) = Len(BigEndian[n]) + 1
    BY <1>1, <2>1
  <2>4. Len(BigEndian[n]) \in Nat
    BY <1>1
  <2> QED BY <2>2, <2>3, <2>4, ByteFacts DEF Denotes
<1>3. CASE ~(n > 0 /\ HasSign(BigEndian[n][1]))
  <2>1. SdkBytes(n) = BigEndian[n] /\ Len(BigEndian[n]) \in Nat
    BY <1>1, <1>3 DEF SdkBytes
  <2>2. n = 0 => BigEndian[n] = <<>>
    BY BigEndianDef
  <2> QED BY <1>1, <1>3, <2>1, <2>2 DEF Denotes
<1> QED BY <1>2, <1>3

\* No bytes that denote it are fewer.
LEMMA SdkBytesShortest ==
  ASSUME NEW n \in Nat, NEW t \in Seq(Bytes), Denotes(t, n)
  PROVE  Len(SdkBytes(n)) <= Len(t) /\ (Len(SdkBytes(n)) = Len(t) => t = SdkBytes(n))
<1>1. BigEndian[n] \in Seq(Bytes) /\ Len(BigEndian[n]) \in Nat /\ Len(t) \in Nat
  BY BigEndianReads
<1>2. Unsigned(t) = n /\ (t # <<>> => ~HasSign(t[1]))
  BY DEF Denotes
<1>3. Len(BigEndian[n]) <= Len(t) /\ (Len(BigEndian[n]) = Len(t) => t = BigEndian[n])
  BY <1>2, DigitsAreShortest
<1>4. CASE n > 0 /\ HasSign(BigEndian[n][1])
  <2>1. SdkBytes(n) = <<0>> \o BigEndian[n] /\ Len(SdkBytes(n)) = Len(BigEndian[n]) + 1
    BY <1>1, <1>4 DEF SdkBytes
  <2>2. BigEndian[n] # <<>>
    <3>1. n \in Nat \ {0} /\ n \div ByteBase \in Nat
      BY <1>4, Division
    <3>2. BigEndian[n] = Append(BigEndian[n \div ByteBase], n % ByteBase)
      BY <3>1, BigEndianDef
    <3>3. BigEndian[n \div ByteBase] \in Seq(Bytes)
      BY <3>1, BigEndianReads
    <3> QED BY <3>2, <3>3
  <2>3. t # BigEndian[n]
    BY <1>2, <1>4, <2>2
  <2>4. Len(t) = Len(BigEndian[n]) + 1 => t = <<0>> \o BigEndian[n]
    BY <1>2, NextShortest
  <2> QED BY <1>1, <1>3, <2>1, <2>3, <2>4
<1>5. CASE ~(n > 0 /\ HasSign(BigEndian[n][1]))
  BY <1>3, <1>5 DEF SdkBytes
<1> QED BY <1>4, <1>5

\* The SDK's own encoder and the CLVM write the same atom for every integer of
\* a coin's state, and it reads back as that integer.
LEMMA EncodersAgree ==
  ASSUME NEW n \in 0 .. MaxInt
  PROVE  /\ ClvmInt(n) = UintAtom(n)
         /\ ClvmInt(n) = Atom(<<"bytes", SdkBytes(n)>>)
         /\ Unsigned(SdkBytes(n)) = n
<1> DEFINE Strings == BoundedSeq(Bytes, Len(BigEndian[MaxInt]) + 1)
           Is(s) == /\ s \in Strings
                    /\ Denotes(s, n)
                    /\ \A t \in Strings : Denotes(t, n) => Len(s) <= Len(t)
<1>1. n \in Nat /\ MaxInt \in Nat /\ n <= MaxInt
  BY ByteFacts
<1>2. Len(BigEndian[MaxInt]) \in Nat /\ Len(BigEndian[n]) \in Nat
  BY <1>1, BigEndianReads
<1>3. \A s : s \in Strings <=> s \in Seq(Bytes) /\ Len(s) <= Len(BigEndian[MaxInt]) + 1
  BY <1>2 DEF BoundedSeq, SeqOf
<1>4. Len(BigEndian[n]) <= Len(BigEndian[MaxInt])
  BY <1>1, DigitsGrow
<1>5. SdkBytes(n) \in Strings /\ Denotes(SdkBytes(n), n)
  <2>1. /\ SdkBytes(n) \in Seq(Bytes) /\ Denotes(SdkBytes(n), n)
        /\ Len(SdkBytes(n)) <= Len(BigEndian[n]) + 1
    BY <1>1, SdkBytesDenote
  <2>2. Len(SdkBytes(n)) \in Nat
    BY <2>1
  <2> HIDE DEF Strings
  <2> QED BY <1>2, <1>3, <1>4, <2>1, <2>2
<1>6. Is(SdkBytes(n))
  <2> HIDE DEF Strings
  <2> QED BY <1>1, <1>3, <1>5, SdkBytesShortest
<1>7. \A s : Is(s) => s = SdkBytes(n)
  <2> HIDE DEF Strings
  <2> SUFFICES ASSUME NEW s, Is(s) PROVE s = SdkBytes(n)
    OBVIOUS
  <2>1. s \in Seq(Bytes) /\ Len(s) \in Nat /\ Len(SdkBytes(n)) \in Nat /\ Denotes(s, n)
    BY <1>3, <1>5
  <2>2. Len(s) <= Len(SdkBytes(n))
    BY <1>5
  <2> QED BY <1>1, <2>1, <2>2, SdkBytesShortest
<1>8. CanonicalBytes[n] = CHOOSE s \in Strings : /\ Denotes(s, n)
                                                 /\ \A t \in Strings : Denotes(t, n) => Len(s) <= Len(t)
  BY DEF CanonicalBytes
<1>9. CanonicalBytes[n] = SdkBytes(n)
  <2> HIDE DEF Strings
  <2> QED BY <1>6, <1>7, <1>8
<1>10. Unsigned(SdkBytes(n)) = n
  BY <1>5 DEF Denotes
<1> QED BY <1>9, <1>10 DEF ClvmInt, UintAtom, SdkBytes

----------------------------------------------------------------------------
(* The tree of a coin's actions.                                            *)

\* Both halves of a list of two or more leaves have leaves.
LEMMA Halves ==
  ASSUME NEW n \in Nat, n >= 2
  PROVE  /\ LeftHalf(n) \in 1 .. n - 1 /\ RightHalf(n) \in 1 .. n - 1
         /\ LeftHalf(n) + RightHalf(n) = n
BY DEF LeftHalf, RightHalf

\* One level of the library's tree over the subtrees already made.
RootStep(l, g, n) ==
  [before \in 0 .. Len(l) - n |->
     IF n = 1 THEN Atom(l[before + 1])
     ELSE Pair(g[LeftHalf(n)][before], g[RightHalf(n)][before + LeftHalf(n)])]

\* The subtrees over a list of leaves, as their recursion says.
LEMMA SubtreesDef ==
  ASSUME NEW l, Len(l) \in Nat
  PROVE  \A n \in 1 .. Len(l) : Subtrees(l)[n] = RootStep(l, Subtrees(l), n)
<1> DEFINE Is(m, g) == g = [n \in 1 .. m |-> RootStep(l, g, n)]
           N == {m \in Nat : \E g : Is(m, g)}
<1>1. 0 \in N
  <2>1. Is(0, [n \in 1 .. 0 |-> 0])
    OBVIOUS
  <2> HIDE DEF Is
  <2> QED BY <2>1
<1>2. ASSUME NEW m \in N PROVE m + 1 \in N
  <2>1. m \in Nat
    OBVIOUS
  <2>2. PICK g : Is(m, g)
    OBVIOUS
  <2> DEFINE h == [n \in 1 .. m + 1 |-> IF n <= m THEN g[n] ELSE RootStep(l, g, m + 1)]
  <2>3. ASSUME NEW n \in 1 .. m + 1 PROVE h[n] = RootStep(l, h, n)
    <3>1. h[n] = RootStep(l, g, n)
      BY <2>1, <2>2
    <3>2. RootStep(l, g, n) = RootStep(l, h, n)
      <4>1. CASE n = 1
        BY <4>1 DEF RootStep
      <4>2. CASE n >= 2
        <5>1. LeftHalf(n) \in 1 .. m /\ RightHalf(n) \in 1 .. m
          BY <2>1, <4>2, Halves
        <5>2. h[LeftHalf(n)] = g[LeftHalf(n)] /\ h[RightHalf(n)] = g[RightHalf(n)]
          BY <2>1, <5>1
        <5> HIDE DEF h
        <5> QED BY <5>2 DEF RootStep
      <4> QED BY <2>1, <4>1, <4>2
    <3> QED BY <3>1, <3>2
  <2>4. Is(m + 1, h)
    BY <2>3
  <2> HIDE DEF h, Is
  <2> QED BY <2>1, <2>4
<1>3. N = Nat
  <2> HIDE DEF N
  <2>1. N \in SUBSET Nat
    BY DEF N
  <2> QED BY <1>1, <1>2, <2>1, NumberInduction
<1>4. \E g : Is(Len(l), g)
  BY <1>3
<1>5. Is(Len(l), CHOOSE g : Is(Len(l), g))
  <2> HIDE DEF Is
  <2> QED BY <1>4
<1>6. Is(Len(l), Subtrees(l))
  BY <1>5 DEF Subtrees, RootStep
<1> QED BY <1>6

\* One level of the library's proofs over those already made.
Longer(proof, bit, hash) ==
  [path |-> Append(proof.path, bit), hashes |-> Append(proof.hashes, hash)]
ProofStep(l, g, n) ==
  [before \in 0 .. Len(l) - n |-> [i \in 1 .. n |->
     IF n = 1 THEN [path |-> <<>>, hashes |-> <<>>]
     ELSE IF i <= LeftHalf(n)
          THEN Longer(g[LeftHalf(n)][before][i], 0,
                      Subtrees(l)[RightHalf(n)][before + LeftHalf(n)])
          ELSE Longer(g[RightHalf(n)][before + LeftHalf(n)][i - LeftHalf(n)], 1,
                      Subtrees(l)[LeftHalf(n)][before])]]

\* The proofs of its leaves, as their recursion says.
LEMMA ProofsDef ==
  ASSUME NEW l, Len(l) \in Nat
  PROVE  \A n \in 1 .. Len(l) : Proofs(l)[n] = ProofStep(l, Proofs(l), n)
<1> DEFINE Is(m, g) == g = [n \in 1 .. m |-> ProofStep(l, g, n)]
           N == {m \in Nat : \E g : Is(m, g)}
<1>1. 0 \in N
  <2>1. Is(0, [n \in 1 .. 0 |-> 0])
    OBVIOUS
  <2> HIDE DEF Is
  <2> QED BY <2>1
<1>2. ASSUME NEW m \in N PROVE m + 1 \in N
  <2>1. m \in Nat
    OBVIOUS
  <2>2. PICK g : Is(m, g)
    OBVIOUS
  <2> DEFINE h == [n \in 1 .. m + 1 |-> IF n <= m THEN g[n] ELSE ProofStep(l, g, m + 1)]
  <2>3. ASSUME NEW n \in 1 .. m + 1 PROVE h[n] = ProofStep(l, h, n)
    <3>1. h[n] = ProofStep(l, g, n)
      BY <2>1, <2>2
    <3>2. ProofStep(l, g, n) = ProofStep(l, h, n)
      <4>1. CASE n = 1
        BY <4>1 DEF ProofStep
      <4>2. CASE n >= 2
        <5>1. LeftHalf(n) \in 1 .. m /\ RightHalf(n) \in 1 .. m
          BY <2>1, <4>2, Halves
        <5>2. h[LeftHalf(n)] = g[LeftHalf(n)] /\ h[RightHalf(n)] = g[RightHalf(n)]
          BY <2>1, <5>1
        <5> HIDE DEF h
        <5> QED BY <5>2 DEF ProofStep
      <4> QED BY <2>1, <4>1, <4>2
    <3> QED BY <3>1, <3>2
  <2>4. Is(m + 1, h)
    BY <2>3
  <2> HIDE DEF h, Is
  <2> QED BY <2>1, <2>4
<1>3. N = Nat
  <2> HIDE DEF N
  <2>1. N \in SUBSET Nat
    BY DEF N
  <2> QED BY <1>1, <1>2, <2>1, NumberInduction
<1>4. \E g : Is(Len(l), g)
  BY <1>3
<1>5. Is(Len(l), CHOOSE g : Is(Len(l), g))
  <2> HIDE DEF Is
  <2> QED BY <1>4
<1>6. Is(Len(l), Proofs(l))
  BY <1>5 DEF Proofs, ProofStep, Longer
<1> QED BY <1>6

\* The nodes a proof leads through, from a leaf up.
IsPath(node, proof, f) ==
  f = [k \in 0 .. Len(proof.hashes) |->
         IF k = 0 THEN node
         ELSE IF proof.path[k] = 1 THEN Pair(proof.hashes[k], f[k - 1])
                                   ELSE Pair(f[k - 1], proof.hashes[k])]

\* The walk of a proof, as its recursion says.
LEMMA FollowDef ==
  ASSUME NEW node, NEW proof, Len(proof.hashes) \in Nat
  PROVE  \E f : IsPath(node, proof, f) /\ FollowProof(node, proof) = f[Len(proof.hashes)]
<1> DEFINE Step(g, k) == IF k = 0 THEN node
                         ELSE IF proof.path[k] = 1 THEN Pair(proof.hashes[k], g[k - 1])
                                                   ELSE Pair(g[k - 1], proof.hashes[k])
           Is(m, g) == g = [k \in 0 .. m |-> Step(g, k)]
           N == {m \in Nat : \E g : Is(m, g)}
<1>1. 0 \in N
  <2>1. Is(0, [k \in 0 .. 0 |-> node])
    OBVIOUS
  <2> HIDE DEF Is
  <2> QED BY <2>1
<1>2. ASSUME NEW m \in N PROVE m + 1 \in N
  <2>1. m \in Nat
    OBVIOUS
  <2>2. PICK g : Is(m, g)
    OBVIOUS
  <2> DEFINE h == [k \in 0 .. m + 1 |-> IF k <= m THEN g[k] ELSE Step(g, m + 1)]
  <2>3. ASSUME NEW k \in 0 .. m + 1 PROVE h[k] = Step(h, k)
    <3>1. h[k] = Step(g, k)
      <4> HIDE DEF Step
      <4> QED BY <2>1, <2>2
    <3>2. k > 0 => h[k - 1] = g[k - 1]
      <4> HIDE DEF Step
      <4> QED BY <2>1
    <3> HIDE DEF h
    <3> QED BY <3>1, <3>2
  <2>4. Is(m + 1, h)
    <3> HIDE DEF Step
    <3> QED BY <2>3
  <2> HIDE DEF h, Is
  <2> QED BY <2>1, <2>4
<1>3. N = Nat
  <2> HIDE DEF N
  <2>1. N \in SUBSET Nat
    BY DEF N
  <2> QED BY <1>1, <1>2, <2>1, NumberInduction
<1>4. \E g : IsPath(node, proof, g)
  BY <1>3 DEF IsPath
<1>5. IsPath(node, proof, CHOOSE g : IsPath(node, proof, g))
  BY <1>4
<1> QED BY <1>5 DEF IsPath, FollowProof

\* Appending to a function on 1 .. n.
LEMMA AppendAny ==
  ASSUME NEW S, NEW s \in Seq(S), NEW e
  PROVE  /\ Append(s, e) \in Seq(S \cup {e})
         /\ Len(Append(s, e)) = Len(s) + 1
         /\ Append(s, e)[Len(s) + 1] = e
         /\ \A k \in 1 .. Len(s) : Append(s, e)[k] = s[k]
<1>1. s \in Seq(S \cup {e})
  OBVIOUS
<1> QED BY <1>1

IsProof(p) ==
  /\ \E S : p.hashes \in Seq(S)
  /\ p.path \in Seq({0, 1})
  /\ Len(p.path) = Len(p.hashes)

\* A proof with one more sibling leads one level higher.
LEMMA FollowLonger ==
  ASSUME NEW node, NEW p, IsProof(p), NEW bit \in {0, 1}, NEW hash
  PROVE  /\ IsProof(Longer(p, bit, hash))
         /\ FollowProof(node, Longer(p, bit, hash)) =
              IF bit = 1 THEN Pair(hash, FollowProof(node, p)) ELSE Pair(FollowProof(node, p), hash)
<1> DEFINE q == Longer(p, bit, hash)
           n == Len(p.hashes)
<1>1. PICK S : p.hashes \in Seq(S)
  BY DEF IsProof
<1>2. n \in Nat /\ p.path \in Seq({0, 1}) /\ Len(p.path) = n
  BY <1>1 DEF IsProof
<1>3. q.path = Append(p.path, bit) /\ q.hashes = Append(p.hashes, hash)
  BY DEF Longer
<1>4. /\ q.hashes \in Seq(S \cup {hash}) /\ Len(q.hashes) = n + 1 /\ q.hashes[n + 1] = hash
      /\ \A k \in 1 .. n : q.hashes[k] = p.hashes[k]
  BY <1>1, <1>3, AppendAny
<1>5. /\ q.path \in Seq({0, 1}) /\ Len(q.path) = n + 1 /\ q.path[n + 1] = bit
      /\ \A k \in 1 .. n : q.path[k] = p.path[k]
  BY <1>2, <1>3
<1>6. IsProof(q)
  BY <1>4, <1>5 DEF IsProof
<1>7. PICK f : IsPath(node, p, f) /\ FollowProof(node, p) = f[n]
  BY <1>2, FollowDef
<1>8. PICK g : IsPath(node, q, g) /\ FollowProof(node, q) = g[n + 1]
  BY <1>2, <1>4, FollowDef
<1> HIDE DEF q
<1>9. /\ f[0] = node
      /\ \A k \in 1 .. n : f[k] = IF p.path[k] = 1 THEN Pair(p.hashes[k], f[k - 1])
                                                 ELSE Pair(f[k - 1], p.hashes[k])
  <2>1. \A k \in 0 .. n :
          f[k] = IF k = 0 THEN node
                 ELSE IF p.path[k] = 1 THEN Pair(p.hashes[k], f[k - 1])
                                       ELSE Pair(f[k - 1], p.hashes[k])
    BY <1>2, <1>4, <1>7, Zenon DEF IsPath
  <2>2. 0 \in 0 .. n /\ \A k \in 1 .. n : k \in 0 .. n /\ k # 0
    BY <1>2
  <2> QED BY <2>1, <2>2, Zenon
<1>10. /\ g[0] = node
       /\ \A k \in 1 .. n + 1 : g[k] = IF q.path[k] = 1 THEN Pair(q.hashes[k], g[k - 1])
                                                      ELSE Pair(g[k - 1], q.hashes[k])
  <2>1. \A k \in 0 .. n + 1 :
          g[k] = IF k = 0 THEN node
                 ELSE IF q.path[k] = 1 THEN Pair(q.hashes[k], g[k - 1])
                                       ELSE Pair(g[k - 1], q.hashes[k])
    BY <1>2, <1>4, <1>8, Zenon DEF IsPath
  <2>2. 0 \in 0 .. n + 1 /\ \A k \in 1 .. n + 1 : k \in 0 .. n + 1 /\ k # 0
    BY <1>2
  <2> QED BY <2>1, <2>2, Zenon
<1> DEFINE N == {k \in Nat : k <= n => f[k] = g[k]}
<1>11. 0 \in N
  BY <1>9, <1>10
<1>12. ASSUME NEW k \in N PROVE k + 1 \in N
  <2>1. ASSUME k + 1 <= n PROVE f[k + 1] = g[k + 1]
    <3>1. k + 1 \in 1 .. n /\ k + 1 \in 1 .. n + 1 /\ (k + 1) - 1 = k /\ f[k] = g[k]
      BY <1>2, <2>1
    <3>2. q.path[k + 1] = p.path[k + 1] /\ q.hashes[k + 1] = p.hashes[k + 1]
      BY <1>4, <1>5, <3>1
    <3> QED BY <1>9, <1>10, <3>1, <3>2
  <2> QED BY <2>1
<1>13. N = Nat
  <2> HIDE DEF N
  <2>1. N \in SUBSET Nat
    BY DEF N
  <2> QED BY <1>11, <1>12, <2>1, NumberInduction
<1>14. f[n] = g[n]
  BY <1>2, <1>13
<1>15. g[n + 1] = IF bit = 1 THEN Pair(hash, g[n]) ELSE Pair(g[n], hash)
  <2>1. n + 1 \in 1 .. n + 1 /\ (n + 1) - 1 = n
    BY <1>2
  <2> QED BY <1>4, <1>5, <1>10, <2>1
<1> QED BY <1>6, <1>7, <1>8, <1>14, <1>15 DEF q

\* The library's proof of a leaf leads to the root of its subtree, in a tree
\* of any number of leaves.
LEMMA ProofsLead ==
  ASSUME NEW l, Len(l) \in Nat
  PROVE  \A n \in 1 .. Len(l) : \A before \in 0 .. Len(l) - n : \A i \in 1 .. n :
           /\ IsProof(Proofs(l)[n][before][i])
           /\ FollowProof(Atom(l[before + i]), Proofs(l)[n][before][i]) = Subtrees(l)[n][before]
<1> DEFINE Leads(n, before, i) ==
             /\ IsProof(Proofs(l)[n][before][i])
             /\ FollowProof(Atom(l[before + i]), Proofs(l)[n][before][i]) = Subtrees(l)[n][before]
           N == {n \in Nat : n \in 1 .. Len(l) =>
                   \A before \in 0 .. Len(l) - n : \A i \in 1 .. n : Leads(n, before, i)}
<1>1. ASSUME NEW n \in Nat, \A m \in 0 .. n - 1 : m \in N PROVE n \in N
  <2> SUFFICES ASSUME n \in 1 .. Len(l), NEW before \in 0 .. Len(l) - n, NEW i \in 1 .. n
               PROVE  Leads(n, before, i)
    OBVIOUS
  <2>1. /\ Subtrees(l)[n] = RootStep(l, Subtrees(l), n)
        /\ Proofs(l)[n] = ProofStep(l, Proofs(l), n)
    BY SubtreesDef, ProofsDef
  <2>2. CASE n = 1
    <3>1. Subtrees(l)[n][before] = Atom(l[before + 1]) /\ i = 1
      BY <2>1, <2>2 DEF RootStep
    <3>2. Proofs(l)[n][before][i] = [path |-> <<>>, hashes |-> <<>>]
      BY <2>1, <2>2 DEF ProofStep
    <3> DEFINE p == [path |-> <<>>, hashes |-> <<>>]
    <3>3. p.hashes \in Seq({}) /\ p.path \in Seq({0, 1}) /\ Len(p.path) = 0 /\ Len(p.hashes) = 0
      OBVIOUS
    <3> HIDE DEF p
    <3>4. PICK f : IsPath(Atom(l[before + i]), p, f) /\ FollowProof(Atom(l[before + i]), p) = f[0]
      BY <3>3, FollowDef
    <3>5. FollowProof(Atom(l[before + i]), p) = Atom(l[before + i])
      BY <3>3, <3>4 DEF IsPath
    <3> QED BY <3>1, <3>2, <3>3, <3>5 DEF IsProof, p
  <2>3. CASE n >= 2
    <3> DEFINE a == LeftHalf(n)
               b == RightHalf(n)
    <3>1. a \in 1 .. n - 1 /\ b \in 1 .. n - 1 /\ a + b = n
      BY <2>3, Halves
    <3> HIDE DEF a, b
    <3>2. Subtrees(l)[n][before] = Pair(Subtrees(l)[a][before], Subtrees(l)[b][before + a])
      BY <2>1, <2>3 DEF RootStep, a, b
    <3>3. a \in N /\ b \in N /\ a \in 1 .. Len(l) /\ b \in 1 .. Len(l)
      BY <1>1, <3>1
    <3>4. CASE i <= a
      <4>1. Proofs(l)[n][before][i] = Longer(Proofs(l)[a][before][i], 0, Subtrees(l)[b][before + a])
        BY <2>1, <2>3, <3>4 DEF ProofStep, a, b
      <4>2. Leads(a, before, i)
        <5> HIDE DEF Leads
        <5>1. before \in 0 .. Len(l) - a /\ i \in 1 .. a
          BY <3>1, <3>3, <3>4
        <5> QED BY <3>3, <5>1
      <4> QED BY <3>2, <4>1, <4>2, FollowLonger
    <3>5. CASE i > a
      <4>1. Proofs(l)[n][before][i] =
              Longer(Proofs(l)[b][before + a][i - a], 1, Subtrees(l)[a][before])
        BY <2>1, <2>3, <3>1, <3>5 DEF ProofStep, a, b
      <4>2. Leads(b, before + a, i - a) /\ (before + a) + (i - a) = before + i
        <5> HIDE DEF Leads
        <5>1. /\ before + a \in 0 .. Len(l) - b /\ i - a \in 1 .. b
              /\ (before + a) + (i - a) = before + i
          BY <3>1, <3>3, <3>5
        <5> QED BY <3>3, <5>1
      <4> QED BY <3>2, <4>1, <4>2, FollowLonger
    <3> QED BY <3>1, <3>4, <3>5
  <2> QED BY <2>2, <2>3
<1>2. N = Nat
  <2> HIDE DEF N
  <2>1. N \in SUBSET Nat
    BY DEF N
  <2> QED BY <1>1, <2>1, StrongInduction
<1> HIDE DEF Leads
<1>3. \A n \in 1 .. Len(l) : \A before \in 0 .. Len(l) - n : \A i \in 1 .. n : Leads(n, before, i)
  BY <1>2
<1> QED BY <1>3 DEF Leads

\* So the proof that goes with an action is accepted under the tree's root.
LEMMA TreeProofLeads ==
  ASSUME NEW l, Len(l) \in Nat, NEW i \in 1 .. Len(l)
  PROVE  SimplifyMerkleProof(l[i], TreeProof(l, i)) = TreeRoot(l)
<1>1. Len(l) \in 1 .. Len(l) /\ 0 \in 0 .. Len(l) - Len(l) /\ 0 + i = i
  OBVIOUS
<1>2. FollowProof(Atom(l[0 + i]), Proofs(l)[Len(l)][0][i]) = Subtrees(l)[Len(l)][0]
  BY <1>1, ProofsLead
<1> QED BY <1>1, <1>2 DEF SimplifyMerkleProof, TreeProof, TreeRoot

\* The SDK computes the roots of one, two and three actions by hand.
LEMMA RootsByHand ==
  ASSUME NEW l, Len(l) \in 1 .. 3
  PROVE  /\ Len(l) = 1 => TreeRoot(l) = ActionRoot1(l)
         /\ Len(l) = 2 => TreeRoot(l) = ActionRoot2(l)
         /\ Len(l) = 3 => TreeRoot(l) = ActionRoot3(l)
<1>0. \A n \in 1 .. Len(l) : Subtrees(l)[n] = RootStep(l, Subtrees(l), n)
  BY SubtreesDef
<1>1. \A before \in 0 .. Len(l) - 1 : Subtrees(l)[1][before] = Atom(l[before + 1])
  <2>1. 1 \in 1 .. Len(l)
    OBVIOUS
  <2>2. Subtrees(l)[1] = RootStep(l, Subtrees(l), 1)
    BY <1>0, <2>1
  <2> QED BY <2>2 DEF RootStep
<1>2. ASSUME Len(l) >= 2 PROVE Subtrees(l)[2][0] = Pair(Atom(l[1]), Atom(l[2]))
  <2>1. LeftHalf(2) = 1 /\ RightHalf(2) = 1
    BY DEF LeftHalf, RightHalf
  <2>2. 2 \in 1 .. Len(l) /\ 0 \in 0 .. Len(l) - 2
    BY <1>2
  <2>3. Subtrees(l)[2] = RootStep(l, Subtrees(l), 2)
    BY <1>0, <2>2
  <2>4. Subtrees(l)[2][0] = Pair(Subtrees(l)[1][0], Subtrees(l)[1][0 + 1])
    BY <2>1, <2>2, <2>3 DEF RootStep
  <2>5. Subtrees(l)[1][0] = Atom(l[1]) /\ Subtrees(l)[1][0 + 1] = Atom(l[2])
    BY <1>1, <1>2
  <2> QED BY <2>4, <2>5
<1>3. ASSUME Len(l) = 3 PROVE Subtrees(l)[3][0] = Pair(Pair(Atom(l[1]), Atom(l[2])), Atom(l[3]))
  <2>1. LeftHalf(3) = 2 /\ RightHalf(3) = 1
    BY DEF LeftHalf, RightHalf
  <2>2. 3 \in 1 .. Len(l) /\ 0 \in 0 .. Len(l) - 3
    BY <1>3
  <2>3. Subtrees(l)[3] = RootStep(l, Subtrees(l), 3)
    BY <1>0, <2>2
  <2>4. Subtrees(l)[3][0] = Pair(Subtrees(l)[2][0], Subtrees(l)[1][0 + 2])
    BY <2>1, <2>2, <2>3 DEF RootStep
  <2>5. Subtrees(l)[1][0 + 2] = Atom(l[3])
    BY <1>1, <1>3
  <2> QED BY <1>2, <1>3, <2>4, <2>5
<1> QED BY <1>1, <1>2, <1>3 DEF TreeRoot, ActionRoot1, ActionRoot2, ActionRoot3

----------------------------------------------------------------------------
(* The action layer.                                                        *)

SelectorStep(g, i) == IF i = 1 THEN 2 ELSE 2 * g[i - 1] + 1
SelectorsTo(m, g) == g = [i \in 1 .. m |-> SelectorStep(g, i)]

\* The selectors of any number of puzzles exist,
LEMMA SelectorsExist == \A m \in Nat : \E g : SelectorsTo(m, g)
<1> DEFINE N == {m \in Nat : \E g : SelectorsTo(m, g)}
<1>1. 0 \in N
  <2>1. SelectorsTo(0, [i \in 1 .. 0 |-> 0])
    BY DEF SelectorsTo
  <2> QED BY <2>1
<1>2. ASSUME NEW m \in N PROVE m + 1 \in N
  <2>1. m \in Nat
    OBVIOUS
  <2>2. PICK g : SelectorsTo(m, g)
    OBVIOUS
  <2> DEFINE h == [i \in 1 .. m + 1 |-> IF i <= m THEN g[i] ELSE SelectorStep(g, m + 1)]
  <2>3. ASSUME NEW i \in 1 .. m + 1 PROVE h[i] = SelectorStep(h, i)
    <3>1. h[i] = SelectorStep(g, i)
      BY <2>1, <2>2 DEF SelectorsTo
    <3>2. i # 1 => h[i - 1] = g[i - 1]
      BY <2>1
    <3> HIDE DEF h
    <3> QED BY <3>1, <3>2 DEF SelectorStep
  <2>4. SelectorsTo(m + 1, h)
    BY <2>3 DEF SelectorsTo
  <2> HIDE DEF h
  <2> QED BY <2>1, <2>4
<1>3. N = Nat
  <2> HIDE DEF N
  <2>1. N \in SUBSET Nat
    BY DEF N
  <2> QED BY <1>1, <1>2, <2>1, NumberInduction
<1> QED BY <1>3

\* and are the same whatever that number is,
LEMMA SelectorsAgree ==
  ASSUME NEW m \in Nat, NEW p \in Nat, NEW g, NEW h, SelectorsTo(m, g), SelectorsTo(p, h)
  PROVE  \A i \in Nat : i >= 1 /\ i <= m /\ i <= p => g[i] = h[i]
<1> DEFINE N == {i \in Nat : i >= 1 /\ i <= m /\ i <= p => g[i] = h[i]}
<1>1. 0 \in N
  OBVIOUS
<1>2. ASSUME NEW i \in N PROVE i + 1 \in N
  <2> SUFFICES ASSUME i + 1 <= m, i + 1 <= p PROVE g[i + 1] = h[i + 1]
    OBVIOUS
  <2>0. i + 1 \in 1 .. m /\ i + 1 \in 1 .. p
    OBVIOUS
  <2>1. g[i + 1] = SelectorStep(g, i + 1) /\ h[i + 1] = SelectorStep(h, i + 1)
    BY <2>0 DEF SelectorsTo
  <2>2. i + 1 # 1 => g[(i + 1) - 1] = h[(i + 1) - 1]
    OBVIOUS
  <2> QED BY <2>1, <2>2 DEF SelectorStep
<1>3. N = Nat
  <2> HIDE DEF N
  <2>1. N \in SUBSET Nat
    BY DEF N
  <2> QED BY <1>1, <1>2, <2>1, NumberInduction
<1> QED BY <1>3

\* so a selector is what its recursion says.
LEMMA SelectorDef ==
  /\ Selector[1] = 2
  /\ \A i \in Nat \ {0} : Selector[i + 1] = 2 * Selector[i] + 1
<1> DEFINE Some(m) == CHOOSE g : SelectorsTo(m, g)
           all == [i \in Nat \ {0} |-> Some(i)[i]]
<1>1. \A m \in Nat : SelectorsTo(m, Some(m))
  BY SelectorsExist
<1>2. ASSUME NEW i \in Nat \ {0} PROVE all[i] = SelectorStep(all, i)
  <2> HIDE DEF Some
  <2>1. Some(i)[i] = SelectorStep(Some(i), i)
    BY <1>1 DEF SelectorsTo
  <2>2. i # 1 => Some(i)[i - 1] = Some(i - 1)[i - 1]
    BY <1>1, SelectorsAgree
  <2> QED BY <2>1, <2>2 DEF SelectorStep
<1> DEFINE Is(f) == f = [i \in Nat \ {0} |-> IF i = 1 THEN 2 ELSE 2 * f[i - 1] + 1]
<1>3. Is(all)
  <2>1. all = [i \in Nat \ {0} |-> SelectorStep(all, i)]
    BY <1>2
  <2> QED BY <2>1 DEF SelectorStep
<1> HIDE DEF all
<1>4. Is(CHOOSE f : Is(f))
  BY <1>3
<1>5. Is(Selector)
  BY <1>4 DEF Selector
<1>6. \A i \in Nat \ {0} : Selector[i] = IF i = 1 THEN 2 ELSE 2 * Selector[i - 1] + 1
  BY <1>5
<1>7. \A i \in Nat \ {0} : i + 1 \in Nat \ {0} /\ i + 1 # 1 /\ (i + 1) - 1 = i
  OBVIOUS
<1> QED BY <1>6, <1>7

PathStep(g, path) == IF path % 2 = 1 THEN g[path \div 2] + 1 ELSE 1
PathsTo(m, g) == g = [path \in 0 .. m |-> PathStep(g, path)]

\* The same for the paths that selectors are read as.
LEMMA PathsExist == \A m \in Nat : \E g : PathsTo(m, g)
<1> DEFINE N == {m \in Nat : \E g : PathsTo(m, g)}
<1>1. 0 \in N
  <2>1. PathsTo(0, [path \in 0 .. 0 |-> 1])
    BY DEF PathsTo, PathStep
  <2> QED BY <2>1
<1>2. ASSUME NEW m \in N PROVE m + 1 \in N
  <2>1. m \in Nat
    OBVIOUS
  <2>2. PICK g : PathsTo(m, g)
    OBVIOUS
  <2> DEFINE h == [path \in 0 .. m + 1 |-> IF path <= m THEN g[path] ELSE PathStep(g, m + 1)]
  <2>3. ASSUME NEW path \in 0 .. m + 1 PROVE h[path] = PathStep(h, path)
    <3>1. h[path] = PathStep(g, path)
      BY <2>1, <2>2 DEF PathsTo
    <3>2. path % 2 = 1 => path \div 2 \in 0 .. m
      BY <2>1
    <3>3. path % 2 = 1 => h[path \div 2] = g[path \div 2]
      BY <2>1, <3>2
    <3> HIDE DEF h
    <3> QED BY <3>1, <3>3 DEF PathStep
  <2>4. PathsTo(m + 1, h)
    BY <2>3 DEF PathsTo
  <2> HIDE DEF h
  <2> QED BY <2>1, <2>4
<1>3. N = Nat
  <2> HIDE DEF N
  <2>1. N \in SUBSET Nat
    BY DEF N
  <2> QED BY <1>1, <1>2, <2>1, NumberInduction
<1> QED BY <1>3

\* They are the same whatever the bound is,
LEMMA PathsAgree ==
  ASSUME NEW m \in Nat, NEW p \in Nat, NEW g, NEW h, PathsTo(m, g), PathsTo(p, h)
  PROVE  \A path \in Nat : path <= m /\ path <= p => g[path] = h[path]
<1> DEFINE N == {path \in Nat : path <= m /\ path <= p => g[path] = h[path]}
<1>1. ASSUME NEW path \in Nat, \A k \in 0 .. path - 1 : k \in N PROVE path \in N
  <2> SUFFICES ASSUME path <= m, path <= p PROVE g[path] = h[path]
    OBVIOUS
  <2>1. path \in 0 .. m /\ path \in 0 .. p
    OBVIOUS
  <2>2. g[path] = PathStep(g, path) /\ h[path] = PathStep(h, path)
    BY <2>1 DEF PathsTo
  <2>3. path % 2 = 1 => path \div 2 \in 0 .. path - 1
    OBVIOUS
  <2>4. path % 2 = 1 => g[path \div 2] = h[path \div 2]
    <3> SUFFICES ASSUME path % 2 = 1 PROVE g[path \div 2] = h[path \div 2]
      OBVIOUS
    <3>1. path \div 2 \in N /\ path \div 2 <= m /\ path \div 2 <= p
      BY <1>1, <2>3
    <3> QED BY <3>1
  <2> QED BY <2>2, <2>4 DEF PathStep
<1>2. N = Nat
  <2> HIDE DEF N
  <2>1. N \in SUBSET Nat
    BY DEF N
  <2> QED BY <1>1, <2>1, StrongInduction
<1> QED BY <1>2

\* so a path is what its recursion says.
LEMMA PathIndexDef ==
  \A path \in Nat : PathIndex[path] = IF path % 2 = 1 THEN PathIndex[path \div 2] + 1 ELSE 1
<1> DEFINE Some(m) == CHOOSE g : PathsTo(m, g)
           all == [path \in Nat |-> Some(path)[path]]
<1>1. \A m \in Nat : PathsTo(m, Some(m))
  BY PathsExist
<1>2. ASSUME NEW path \in Nat PROVE all[path] = PathStep(all, path)
  <2> HIDE DEF Some
  <2>1. Some(path)[path] = PathStep(Some(path), path)
    BY <1>1 DEF PathsTo
  <2>2. path \div 2 \in Nat /\ path \div 2 <= path
    OBVIOUS
  <2>3. Some(path)[path \div 2] = Some(path \div 2)[path \div 2]
    BY <1>1, <2>2, PathsAgree
  <2> QED BY <2>1, <2>2, <2>3 DEF PathStep
<1> DEFINE Is(f) == f = [path \in Nat |-> IF path % 2 = 1 THEN f[path \div 2] + 1 ELSE 1]
<1>3. Is(all)
  <2>1. all = [path \in Nat |-> PathStep(all, path)]
    BY <1>2
  <2> QED BY <2>1 DEF PathStep
<1> HIDE DEF all
<1>4. Is(CHOOSE f : Is(f))
  BY <1>3
<1>5. Is(PathIndex)
  BY <1>4 DEF PathIndex
<1> QED BY <1>5

\* A selector's path finds the puzzle it was made for.
LEMMA SelectorsSelect ==
  \A i \in Nat \ {0} : Selector[i] \in Nat /\ PathIndex[Selector[i]] = i
<1> DEFINE N == {i \in Nat : i # 0 => Selector[i] \in Nat /\ PathIndex[Selector[i]] = i}
<1>1. 0 \in N
  OBVIOUS
<1>2. ASSUME NEW i \in N PROVE i + 1 \in N
  <2>1. i \in Nat /\ (i # 0 => Selector[i] \in Nat /\ PathIndex[Selector[i]] = i)
    OBVIOUS
  <2>2. CASE i = 0
    <3>1. Selector[i + 1] = 2 /\ 2 % 2 # 1
      BY <2>2, SelectorDef
    <3>2. PathIndex[2] = 1
      BY <3>1, PathIndexDef
    <3> QED BY <2>2, <3>1, <3>2
  <2>3. CASE i # 0
    <3> DEFINE s == Selector[i]
    <3>1. s \in Nat /\ PathIndex[s] = i
      BY <2>1, <2>3
    <3>2. Selector[i + 1] = 2 * s + 1
      BY <2>1, <2>3, SelectorDef
    <3> HIDE DEF s
    <3>3. 2 * s + 1 \in Nat /\ (2 * s + 1) % 2 = 1 /\ (2 * s + 1) \div 2 = s
      BY <3>1
    <3>4. PathIndex[2 * s + 1] = PathIndex[s] + 1
      BY <3>3, PathIndexDef
    <3> QED BY <2>1, <3>1, <3>2, <3>3, <3>4
  <2> QED BY <2>2, <2>3
<1>3. N = Nat
  <2> HIDE DEF N
  <2>1. N \in SUBSET Nat
    BY DEF N
  <2> QED BY <1>1, <1>2, <2>1, NumberInduction
<1> QED BY <1>3

\* The puzzles of a solution are elements, and every request's is among them.
SeenStep(asked, g, k) ==
  IF k = 0 THEN <<>>
  ELSE IF Contains(g[k - 1], asked[k].puzzle) THEN g[k - 1]
       ELSE Append(g[k - 1], asked[k].puzzle)

\* The puzzles of a list of requests, each once, as the recursion says.
LEMMA DistinctDef ==
  ASSUME NEW asked, Len(asked) \in Nat
  PROVE  \E seen : /\ seen = [k \in 0 .. Len(asked) |-> SeenStep(asked, seen, k)]
                   /\ DistinctPuzzles(asked) = seen[Len(asked)]
<1> DEFINE Is(m, g) == g = [k \in 0 .. m |-> SeenStep(asked, g, k)]
           N == {m \in Nat : \E g : Is(m, g)}
<1>1. 0 \in N
  <2>1. Is(0, [k \in 0 .. 0 |-> <<>>])
    BY DEF SeenStep
  <2> HIDE DEF Is
  <2> QED BY <2>1
<1>2. ASSUME NEW m \in N PROVE m + 1 \in N
  <2>1. m \in Nat
    OBVIOUS
  <2>2. PICK g : Is(m, g)
    OBVIOUS
  <2> DEFINE h == [k \in 0 .. m + 1 |-> IF k <= m THEN g[k] ELSE SeenStep(asked, g, m + 1)]
  <2>3. ASSUME NEW k \in 0 .. m + 1 PROVE h[k] = SeenStep(asked, h, k)
    <3>1. h[k] = SeenStep(asked, g, k)
      BY <2>1, <2>2
    <3>2. k # 0 => h[k - 1] = g[k - 1]
      BY <2>1
    <3> HIDE DEF h
    <3> QED BY <3>1, <3>2 DEF SeenStep
  <2>4. Is(m + 1, h)
    BY <2>3
  <2> HIDE DEF h, Is
  <2> QED BY <2>1, <2>4
<1>3. N = Nat
  <2> HIDE DEF N
  <2>1. N \in SUBSET Nat
    BY DEF N
  <2> QED BY <1>1, <1>2, <2>1, NumberInduction
<1>4. \E g : Is(Len(asked), g)
  BY <1>3
<1> DEFINE seen == CHOOSE g : Is(Len(asked), g)
<1>5. Is(Len(asked), seen)
  <2> HIDE DEF Is
  <2> QED BY <1>4
<1>6. DistinctPuzzles(asked) = seen[Len(asked)]
  BY DEF DistinctPuzzles, SeenStep
<1> HIDE DEF seen
<1> QED BY <1>5, <1>6

\* They are the puzzles that were asked for.
LEMMA DistinctPuzzlesHaveAll ==
  ASSUME NEW asked, Len(asked) \in Nat
  PROVE  /\ DistinctPuzzles(asked) \in Seq({asked[k].puzzle : k \in 1 .. Len(asked)})
         /\ \A k \in 1 .. Len(asked) : Contains(DistinctPuzzles(asked), asked[k].puzzle)
<1> DEFINE S == {asked[k].puzzle : k \in 1 .. Len(asked)}
<1>1. PICK seen : /\ seen = [k \in 0 .. Len(asked) |-> SeenStep(asked, seen, k)]
                  /\ DistinctPuzzles(asked) = seen[Len(asked)]
  BY DistinctDef
<1> DEFINE Good(k) == seen[k] \in Seq(S) /\ \A j \in 1 .. k : Contains(seen[k], asked[j].puzzle)
           N == {k \in Nat : k <= Len(asked) => Good(k)}
<1>2. 0 \in N
  <2>1. seen[0] = <<>>
    BY <1>1 DEF SeenStep
  <2>2. <<>> \in Seq(S)
    OBVIOUS
  <2> HIDE DEF S
  <2>3. Good(0)
    BY <2>1, <2>2
  <2> QED BY <2>3
<1>3. ASSUME NEW k \in N PROVE k + 1 \in N
  <2> SUFFICES ASSUME k + 1 <= Len(asked) PROVE Good(k + 1)
    OBVIOUS
  <2>1. k \in Nat /\ k + 1 \in 1 .. Len(asked) /\ k + 1 \in 0 .. Len(asked) /\ k + 1 # 0
    OBVIOUS
  <2>2. Good(k)
    BY <2>1
  <2>3. seen[k + 1] = SeenStep(asked, seen, k + 1)
    BY <1>1, <2>1
  <2> DEFINE x == asked[k + 1].puzzle
  <2>4. x \in S
    BY <2>1
  <2>5. seen[k + 1] = IF Contains(seen[k], x) THEN seen[k] ELSE Append(seen[k], x)
    <3>1. (k + 1) - 1 = k
      BY <2>1
    <3> HIDE DEF S
    <3> QED BY <2>1, <2>3, <3>1 DEF SeenStep
  <2>6. \A j \in 1 .. k + 1 : j \in 1 .. k \/ j = k + 1
    BY <2>1
  <2> HIDE DEF S, x
  <2>7. CASE Contains(seen[k], x)
    BY <2>2, <2>5, <2>6, <2>7 DEF x
  <2>8. CASE ~Contains(seen[k], x)
    <3>1. seen[k] \in Seq(S) /\ seen[k + 1] = Append(seen[k], x)
      BY <2>2, <2>5, <2>8
    <3>2. /\ seen[k + 1] \in Seq(S) /\ Len(seen[k + 1]) = Len(seen[k]) + 1
          /\ seen[k + 1][Len(seen[k]) + 1] = x
          /\ \A j \in 1 .. Len(seen[k]) : seen[k + 1][j] = seen[k][j]
      BY <2>4, <3>1
    <3>3. Len(seen[k]) \in Nat
      BY <3>1
    <3>4. Contains(seen[k + 1], x)
      BY <3>2, <3>3 DEF Contains
    <3>5. \A y : Contains(seen[k], y) => Contains(seen[k + 1], y)
      BY <3>2, <3>3 DEF Contains
    <3> QED BY <2>2, <2>6, <3>2, <3>4, <3>5 DEF x
  <2> QED BY <2>7, <2>8
<1>4. N = Nat
  <2> HIDE DEF N
  <2>1. N \in SUBSET Nat
    BY DEF N
  <2> QED BY <1>2, <1>3, <2>1, NumberInduction
<1>5. Good(Len(asked))
  <2>1. Len(asked) \in N
    BY <1>4
  <2> QED BY <2>1
<1> QED BY <1>1, <1>5

\* The index of an element is a place where it is.
LEMMA IndexOfFinds ==
  ASSUME NEW s, Len(s) \in Nat, NEW x, Contains(s, x)
  PROVE  IndexOf(x, s) \in 1 .. Len(s) /\ s[IndexOf(x, s)] = x
<1> DEFINE I == {i \in 1 .. Len(s) : s[i] = x}
<1>1. I \in SUBSET Nat /\ I # {}
  BY DEF Contains
<1>2. \E i \in I : \A j \in I : i <= j
  <2> HIDE DEF I
  <2> QED BY <1>1, SmallestNumber
<1>3. Min(I) \in I
  <2> HIDE DEF I
  <2> QED BY <1>2 DEF Min
<1>4. IndexOf(x, s) = Min(I)
  BY <1>1 DEF IndexOf, SelectInSeq
<1> QED BY <1>3, <1>4

\* A solution for any list of requests of a tree's actions, with repetitions,
\* makes the layer run that list, in its order, each with its own solution.
THEOREM LayerRunsRequests ==
  ASSUME NEW l, Len(l) \in Nat,
         NEW S, NEW n \in Nat,
         NEW asked \in [1 .. n -> [puzzle : {l[i] : i \in 1 .. Len(l)}, solution : S]]
  PROVE  RunLayer(TreeRoot(l), LayerSolution(l, asked)) = asked
<1> DEFINE puzzles == DistinctPuzzles(asked)
           index(i) == IndexOf(asked[i].puzzle, puzzles)
           proof(i) == IF ProofGoesWith(asked, i)
                       THEN <<TreeProof(l, IndexOf(asked[i].puzzle, l))>> ELSE <<>>
           entries == [i \in 1 .. n |-> [selector |-> Selector[index(i)], proof |-> proof(i)]]
           sol == LayerSolution(l, asked)
<1>1. Len(asked) = n /\ DOMAIN asked = 1 .. n
  OBVIOUS
<1>2. /\ Len(puzzles) \in Nat
      /\ \A i \in 1 .. n : Contains(puzzles, asked[i].puzzle)
  <2> DEFINE P == {asked[k].puzzle : k \in 1 .. Len(asked)}
  <2>1. DistinctPuzzles(asked) \in Seq(P)
    BY <1>1, DistinctPuzzlesHaveAll
  <2>2. \A i \in 1 .. n : Contains(puzzles, asked[i].puzzle)
    BY <1>1, DistinctPuzzlesHaveAll
  <2> HIDE DEF P, puzzles
  <2>3. Len(puzzles) \in Nat
    BY <2>1 DEF puzzles
  <2> QED BY <2>2, <2>3
<1>3. \A i \in 1 .. n : index(i) \in 1 .. Len(puzzles) /\ puzzles[index(i)] = asked[i].puzzle
  <2> HIDE DEF puzzles
  <2> QED BY <1>2, IndexOfFinds
<1> HIDE DEF puzzles
<1>4. \A i \in 1 .. n : Selector[index(i)] \in Nat /\ PathIndex[Selector[index(i)]] = index(i)
  <2>1. \A i \in 1 .. n : index(i) \in Nat \ {0}
    BY <1>2, <1>3
  <2> HIDE DEF index
  <2> QED BY <2>1, SelectorsSelect
<1>5. \A i \in 1 .. n : Select(entries[i].selector, puzzles) = asked[i].puzzle
  BY <1>3, <1>4 DEF Select
<1>6. Len(entries) = n /\ entries \in Seq({entries[i] : i \in 1 .. n})
  <2> HIDE DEF index, proof
  <2> QED OBVIOUS
<1>7. sol = [puzzles   |-> puzzles,
             proofs    |-> Reverse(entries),
             solutions |-> [i \in 1 .. n |-> asked[i].solution]]
  BY <1>1 DEF LayerSolution, puzzles
<1> HIDE DEF sol
<1>8. sol.proofs = [k \in 1 .. n |-> entries[n - k + 1]] /\ Len(sol.proofs) = n
  <2> HIDE DEF entries
  <2>1. sol.proofs = [k \in 1 .. n |-> entries[n - k + 1]]
    BY <1>6, <1>7 DEF Reverse
  <2> QED BY <2>1
<1> DEFINE checked(k) == [i \in 1 .. k |-> sol.proofs[k + 1 - i].selector]
<1>9. ASSUME NEW k \in 1 .. n
      PROVE  ValidSelector(TreeRoot(l), sol.puzzles, checked(k - 1), sol.proofs[k])
  <2> DEFINE i == n - k + 1
             e == sol.proofs[k]
  <2>1. i \in 1 .. n /\ e = entries[i] /\ sol.puzzles = puzzles
    <3>1. i \in 1 .. n
      OBVIOUS
    <3>2. e = entries[i]
      <4> HIDE DEF entries
      <4> QED BY <1>8
    <3>3. sol.puzzles = puzzles
      <4> HIDE DEF entries
      <4> QED BY <1>7
    <3> HIDE DEF i, e, entries
    <3> QED BY <3>1, <3>2, <3>3
  <2>2. e.proof = proof(i) /\ e.selector = Selector[index(i)]
    <3> HIDE DEF proof, index, e, i
    <3> QED BY <2>1
  <2>3. CASE ProofGoesWith(asked, i)
    <3> DEFINE x == asked[i].puzzle
    <3>1. x \in {l[j] : j \in 1 .. Len(l)}
      BY <2>1
    <3>2. Contains(l, x)
      BY <3>1 DEF Contains
    <3>3. IndexOf(x, l) \in 1 .. Len(l) /\ l[IndexOf(x, l)] = x
      <4> HIDE DEF x
      <4> QED BY <3>2, IndexOfFinds
    <3>4. e.proof = <<TreeProof(l, IndexOf(x, l))>>
      BY <2>2, <2>3
    <3>5. e.proof # <<>> /\ e.proof[1] = TreeProof(l, IndexOf(x, l))
      <4> HIDE DEF e, x
      <4> QED BY <3>4
    <3>6. Select(e.selector, puzzles) = x
      BY <1>5, <2>1
    <3> HIDE DEF e, x, sol, i
    <3>7. SimplifyMerkleProof(x, TreeProof(l, IndexOf(x, l))) = TreeRoot(l)
      BY <3>3, TreeProofLeads
    <3>8. ValidSelector(TreeRoot(l), puzzles, checked(k - 1), e)
      <4> HIDE DEF checked
      <4> QED BY <3>5, <3>6, <3>7 DEF ValidSelector
    <3> QED BY <2>1, <3>8 DEF e
  <2>4. CASE ~ProofGoesWith(asked, i)
    <3>1. PICK j \in i + 1 .. n : asked[j].puzzle = asked[i].puzzle
      BY <1>1, <2>4 DEF ProofGoesWith
    <3> DEFINE q == n - j + 1
               r == k - q
    <3>2. q \in 1 .. n /\ r \in 1 .. k - 1 /\ (k - 1) + 1 - r = q /\ n - q + 1 = j /\ j \in 1 .. n
      BY <2>1, <3>1
    <3>3. sol.proofs[q] = entries[j]
      BY <1>8, <3>2
    <3>4. checked(k - 1)[r] = sol.proofs[q].selector
      BY <3>2
    <3>5. entries[j].selector = Selector[index(j)] /\ index(j) = index(i)
      BY <3>1, <3>2
    <3>6. checked(k - 1)[r] = e.selector
      <4> HIDE DEF checked, index, q, r, entries, e
      <4> QED BY <2>2, <3>3, <3>4, <3>5
    <3>7. Len(checked(k - 1)) = k - 1
      OBVIOUS
    <3>8. Contains(checked(k - 1), e.selector)
      <4> HIDE DEF checked, q, r, e
      <4> QED BY <3>2, <3>6, <3>7 DEF Contains
    <3>9. e.proof = <<>>
      BY <2>2, <2>4
    <3>10. ValidSelector(TreeRoot(l), sol.puzzles, checked(k - 1), e)
      <4> HIDE DEF checked, e
      <4> QED BY <3>8, <3>9 DEF ValidSelector
    <3> QED BY <3>10
  <2> QED BY <2>3, <2>4
<1>10. ASSUME NEW i \in 1 .. n
       PROVE  /\ Select(checked(n)[i], sol.puzzles) = asked[i].puzzle
              /\ sol.solutions[i] = asked[i].solution
  <2>1. n + 1 - i \in 1 .. n /\ n - (n + 1 - i) + 1 = i
    OBVIOUS
  <2>2. checked(n)[i] = sol.proofs[n + 1 - i].selector
    OBVIOUS
  <2>3. sol.proofs[n + 1 - i] = entries[i]
    BY <1>8, <2>1
  <2>4. sol.puzzles = puzzles /\ sol.solutions[i] = asked[i].solution
    BY <1>7
  <2> HIDE DEF checked, entries
  <2> QED BY <1>5, <2>2, <2>3, <2>4
<1>11. asked = [i \in 1 .. n |-> [puzzle   |-> Select(checked(n)[i], sol.puzzles),
                                  solution |-> sol.solutions[i]]]
  <2>1. \A i \in 1 .. n : asked[i] = [puzzle |-> asked[i].puzzle, solution |-> asked[i].solution]
    OBVIOUS
  <2> HIDE DEF checked
  <2> QED BY <1>10, <2>1
<1>12. RunLayer(TreeRoot(l), sol) = asked
  <2>1. ~ \E k \in 1 .. n : ~ValidSelector(TreeRoot(l), sol.puzzles, checked(k - 1), sol.proofs[k])
    <3> HIDE DEF checked
    <3> QED BY <1>9
  <2>2. RunLayer(TreeRoot(l), sol) =
          IF \E k \in 1 .. n : ~ValidSelector(TreeRoot(l), sol.puzzles, checked(k - 1), sol.proofs[k])
          THEN Rejected
          ELSE [i \in 1 .. n |-> [puzzle   |-> Select(checked(n)[i], sol.puzzles),
                                  solution |-> sol.solutions[i]]]
    BY <1>8, Zenon DEF RunLayer
  <2> HIDE DEF checked
  <2> QED BY <1>11, <2>1, <2>2
<1> QED BY <1>12 DEF sol

\* A coin whose root is that of the leaves runs each of them.
LEMMA LeavesRun ==
  ASSUME NEW l, Len(l) \in Nat, NEW inner, CurriedArg(inner, 2) = TreeRoot(l),
         NEW action, Contains(l, action)
  PROVE  Runs(inner, l, action)
<1> DEFINE asked == <<[puzzle |-> action, solution |-> 0]>>
<1>1. action \in {l[i] : i \in 1 .. Len(l)}
  BY DEF Contains
<1>2. asked \in [1 .. 1 -> [puzzle : {l[i] : i \in 1 .. Len(l)}, solution : {0}]]
  <2> DEFINE P == {l[i] : i \in 1 .. Len(l)}
  <2> HIDE DEF P
  <2>1. action \in P
    BY <1>1 DEF P
  <2>2. asked \in [1 .. 1 -> [puzzle : P, solution : {0}]]
    BY <2>1
  <2> QED BY <2>2 DEF P
<1> HIDE DEF asked
<1>3. RunLayer(TreeRoot(l), LayerSolution(l, asked)) = asked
  BY <1>2, LayerRunsRequests
<1> QED BY <1>3 DEF Runs, asked

\* A function on 1 .. n is a sequence.
LEMMA FunctionAsSequence ==
  ASSUME NEW n \in Nat, NEW A, NEW f \in [1 .. n -> A]
  PROVE  f \in Seq(A) /\ Len(f) = n
OBVIOUS

\* The leaves of two and of three actions are these actions, if no two of
\* them have the same place in the order.
LEMMA TwoLeaves ==
  ASSUME NEW a, NEW b, NEW order,
         order[ModName(a)] \in Nat, order[ModName(b)] \in Nat,
         order[ModName(a)] # order[ModName(b)]
  PROVE  LET l == SortedLeaves({a, b}, order)
         IN  /\ Len(l) = 2 /\ l \in Seq({a, b})
             /\ {l[1], l[2]} = {a, b}
             /\ Contains(l, a) /\ Contains(l, b)
<1> DEFINE R(x) == order[ModName(x)]
           Sorted(l) == \A i, j \in DOMAIN l : i < j => R(l[i]) < R(l[j])
<1>1. Cardinality({a, b}) = 2
  <2>1. IsFiniteSet({b}) /\ Cardinality({b}) = 1
    BY FS_Singleton
  <2>2. a \notin {b} /\ {a, b} = {b} \cup {a}
    OBVIOUS
  <2> QED BY <2>1, <2>2, FS_AddElement
<1>2. \E l \in [1 .. 2 -> {a, b}] : Sorted(l)
  <2>1. CASE R(a) < R(b)
    <3> DEFINE l == [i \in 1 .. 2 |-> IF i = 1 THEN a ELSE b]
    <3>1. l \in [1 .. 2 -> {a, b}] /\ l[1] = a /\ l[2] = b /\ DOMAIN l = 1 .. 2
      OBVIOUS
    <3> HIDE DEF l
    <3> QED BY <2>1, <3>1
  <2>2. CASE R(b) < R(a)
    <3> DEFINE l == [i \in 1 .. 2 |-> IF i = 1 THEN b ELSE a]
    <3>1. l \in [1 .. 2 -> {a, b}] /\ l[1] = b /\ l[2] = a /\ DOMAIN l = 1 .. 2
      OBVIOUS
    <3> HIDE DEF l
    <3> QED BY <2>2, <3>1
  <2> QED BY <2>1, <2>2
<1> DEFINE l == SortedLeaves({a, b}, order)
<1>3. l \in [1 .. 2 -> {a, b}] /\ Sorted(l)
  BY <1>1, <1>2 DEF SortedLeaves
<1> HIDE DEF l
<1>4. l[1] \in {a, b} /\ l[2] \in {a, b} /\ R(l[1]) < R(l[2])
  BY <1>3
<1>5. {l[1], l[2]} = {a, b}
  <2> HIDE DEF Sorted
  <2> QED BY <1>4
<1>6. Len(l) = 2 /\ l \in Seq({a, b})
  <2> DEFINE A == {a, b}
  <2>1. l \in [1 .. 2 -> A]
    BY <1>3
  <2> HIDE DEF A
  <2> QED BY <2>1, FunctionAsSequence DEF A
<1>7. Contains(l, a) /\ Contains(l, b)
  <2>1. (l[1] = a \/ l[2] = a) /\ (l[1] = b \/ l[2] = b)
    BY <1>5
  <2>2. 1 \in 1 .. Len(l) /\ 2 \in 1 .. Len(l)
    BY <1>6
  <2> QED BY <2>1, <2>2 DEF Contains
<1> QED BY <1>5, <1>6, <1>7 DEF l

\* The same for three actions.
LEMMA ThreeLeaves ==
  ASSUME NEW a, NEW b, NEW c, NEW order,
         order[ModName(a)] \in Nat, order[ModName(b)] \in Nat, order[ModName(c)] \in Nat,
         order[ModName(a)] # order[ModName(b)], order[ModName(a)] # order[ModName(c)],
         order[ModName(b)] # order[ModName(c)]
  PROVE  LET l == SortedLeaves({a, b, c}, order)
         IN  /\ Len(l) = 3 /\ l \in Seq({a, b, c})
             /\ {l[1], l[2], l[3]} = {a, b, c}
             /\ Contains(l, a) /\ Contains(l, b) /\ Contains(l, c)
<1> DEFINE R(x) == order[ModName(x)]
           Sorted(l) == \A i, j \in DOMAIN l : i < j => R(l[i]) < R(l[j])
           List(x, y, z) == [i \in 1 .. 3 |-> IF i = 1 THEN x ELSE IF i = 2 THEN y ELSE z]
<1>1. Cardinality({a, b, c}) = 3
  <2>1. IsFiniteSet({c}) /\ Cardinality({c}) = 1
    BY FS_Singleton
  <2>2. b \notin {c} /\ {b, c} = {c} \cup {b} /\ a \notin {b, c} /\ {a, b, c} = {b, c} \cup {a}
    OBVIOUS
  <2>3. IsFiniteSet({b, c}) /\ Cardinality({b, c}) = 2
    BY <2>1, <2>2, FS_AddElement
  <2> QED BY <2>2, <2>3, FS_AddElement
<1>2. ASSUME NEW x \in {a, b, c}, NEW y \in {a, b, c}, NEW z \in {a, b, c}, R(x) < R(y), R(y) < R(z)
      PROVE  List(x, y, z) \in [1 .. 3 -> {a, b, c}] /\ Sorted(List(x, y, z))
  <2> DEFINE l == List(x, y, z)
  <2>1. l \in [1 .. 3 -> {a, b, c}] /\ l[1] = x /\ l[2] = y /\ l[3] = z /\ DOMAIN l = 1 .. 3
    OBVIOUS
  <2> HIDE DEF l
  <2>2. Sorted(l)
    <3>1. R(x) \in Nat /\ R(y) \in Nat /\ R(z) \in Nat
      OBVIOUS
    <3> HIDE DEF R
    <3> QED BY <1>2, <2>1, <3>1
  <2> QED BY <2>1, <2>2 DEF l
<1> HIDE DEF List, Sorted
<1>3. \E l \in [1 .. 3 -> {a, b, c}] : Sorted(l)
  <2>1. \/ R(a) < R(b) /\ R(b) < R(c)
        \/ R(a) < R(c) /\ R(c) < R(b)
        \/ R(b) < R(a) /\ R(a) < R(c)
        \/ R(b) < R(c) /\ R(c) < R(a)
        \/ R(c) < R(a) /\ R(a) < R(b)
        \/ R(c) < R(b) /\ R(b) < R(a)
    OBVIOUS
  <2> HIDE DEF R
  <2> QED BY <1>2, <2>1
<1> DEFINE l == SortedLeaves({a, b, c}, order)
<1>4. l \in [1 .. 3 -> {a, b, c}] /\ Sorted(l)
  BY <1>1, <1>3 DEF SortedLeaves, Sorted
<1> HIDE DEF l
<1>5. /\ l[1] \in {a, b, c} /\ l[2] \in {a, b, c} /\ l[3] \in {a, b, c}
      /\ R(l[1]) < R(l[2]) /\ R(l[2]) < R(l[3])
  BY <1>4 DEF Sorted
<1>6. {l[1], l[2], l[3]} = {a, b, c}
  <2>1. R(a) \in Nat /\ R(b) \in Nat /\ R(c) \in Nat
    OBVIOUS
  <2>2. l[1] # l[2] /\ l[2] # l[3] /\ l[1] # l[3]
    BY <1>5, <2>1
  <2> QED BY <1>5, <2>2
<1>7. Len(l) = 3 /\ l \in Seq({a, b, c})
  <2> DEFINE A == {a, b, c}
  <2>1. l \in [1 .. 3 -> A]
    BY <1>4
  <2> HIDE DEF A
  <2> QED BY <2>1, FunctionAsSequence DEF A
<1>8. Contains(l, a) /\ Contains(l, b) /\ Contains(l, c)
  <2>1. /\ l[1] = a \/ l[2] = a \/ l[3] = a
        /\ l[1] = b \/ l[2] = b \/ l[3] = b
        /\ l[1] = c \/ l[2] = c \/ l[3] = c
    BY <1>6
  <2>2. 1 \in 1 .. Len(l) /\ 2 \in 1 .. Len(l) /\ 3 \in 1 .. Len(l)
    BY <1>7
  <2> QED BY <2>1, <2>2 DEF Contains
<1> QED BY <1>6, <1>7, <1>8 DEF l
=============================================================================
