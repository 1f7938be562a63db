--------------------------- MODULE RingArithmetic ---------------------------
(***************************************************************************)
(* Arithmetic of ring indices: two sequence numbers less than a ring's     *)
(* size apart never share a slot.  Both journals of the firmware (the      *)
(* observation rings and the cache change journal) place record n in slot  *)
(* n % size, and their proofs rest on SlotsDiffer.  ModUnique and Wrap are *)
(* for the register pointer of the I2C slave, which is stepped, and for    *)
(* block addresses on the flash.                                           *)
(***************************************************************************)
EXTENDS Integers, WellFoundedInduction, TLAPS

\* Euclidean division of a slot index, as the C operators / and % on
\* unsigned values define it.
LEMMA DivMod ==
    ASSUME NEW a \in Nat, NEW n \in Nat \ {0}
    PROVE  /\ a \div n \in Nat
           /\ a % n \in 0 .. n - 1
           /\ a = n * (a \div n) + (a % n)
BY Z3

\* A quotient larger by one moves a product by at least the factor.
LEMMA ProductStep ==
    ASSUME NEW q \in Int, NEW r \in Int, NEW n \in Nat, q >= r + 1
    PROVE  n * q >= n * r + n
<1>1. n * (q - r) >= n
    BY Z3
<1>2. n * (q - r) = n * q - n * r
    BY Z3
<1> QED
    BY <1>1, <1>2, Z3

\* Distinct sequence numbers of one window of n records use distinct slots.
LEMMA SlotsDiffer ==
    ASSUME NEW a \in Nat, NEW b \in Nat, NEW n \in Nat \ {0}, a < b, b < a + n
    PROVE  a % n # b % n
<1> SUFFICES ASSUME a % n = b % n PROVE FALSE
    OBVIOUS
<1> DEFINE p == n * (a \div n)
           q == n * (b \div n)
<1>a. a \div n \in Nat /\ a % n \in 0 .. n - 1 /\ a = p + (a % n)
    BY DivMod
<1>b. b \div n \in Nat /\ b % n \in 0 .. n - 1 /\ b = q + (b % n)
    BY DivMod
<1>1. /\ a \div n \in Nat
      /\ b \div n \in Nat
      /\ a % n \in Int
      /\ a = p + (a % n)
      /\ b = q + (b % n)
    BY <1>a, <1>b
<1>2. p \in Int /\ q \in Int
    BY <1>1, Z3
<1>3. CASE b \div n >= (a \div n) + 1
    <2>1. q >= p + n
        BY <1>1, <1>3, ProductStep
    <2> HIDE DEF p, q
    <2> QED
        BY <2>1, <1>1, <1>2
<1>4. CASE a \div n >= (b \div n) + 1
    <2>1. p >= q + n
        BY <1>1, <1>4, ProductStep
    <2> HIDE DEF p, q
    <2> QED
        BY <2>1, <1>1, <1>2
<1>5. CASE a \div n = b \div n
    <2>1. p = q
        BY <1>5
    <2> HIDE DEF p, q
    <2> QED
        BY <2>1, <1>1, <1>2
<1> QED
    BY <1>1, <1>3, <1>4, <1>5

\* A set of numbers that is not empty has a first element.
LEMMA FirstExists ==
    ASSUME NEW S, S \subseteq Nat, S # {}
    PROVE  \E x \in S : \A y \in S : x <= y
  <1> DEFINE R == OpToRel(<, Nat)
  <1>1. IsWellFoundedOn(R, Nat)
    BY NatLessThanWellFounded
  <1>2. \A x, y \in Nat : x < y => <<x, y>> \in R
    BY DEF OpToRel
  <1> HIDE DEF R
  <1>3. PICK x \in S : \A y \in S : ~(<<y, x>> \in R)
    BY <1>1, WFMin, Zenon
  <1>4. ASSUME NEW y \in S PROVE x <= y
    <2>1. x \in Nat /\ y \in Nat /\ ~(y < x)
      BY <1>2, <1>3
    <2> QED BY <2>1
  <1> QED BY <1>4

\* The remainder is the only one below the divisor.
LEMMA ModUnique ==
    ASSUME NEW b \in Nat, NEW n \in Nat \ {0}, NEW s \in Nat, NEW m \in 0 .. n - 1,
           b = n * s + m
    PROVE  b % n = m
<1> DEFINE q == b \div n
           r == b % n
<1>1. q \in Nat /\ r \in 0 .. n - 1 /\ b = n * q + r
  BY DivMod
<1> HIDE DEF q, r
<1>2. n * q \in Int /\ n * s \in Int
  BY <1>1, Z3
<1>3. ~(q >= s + 1)
  <2> SUFFICES ASSUME q >= s + 1 PROVE FALSE
    OBVIOUS
  <2>1. n * q >= n * s + n
    BY <1>1, ProductStep
  <2> QED BY <1>1, <1>2, <2>1
<1>4. ~(s >= q + 1)
  <2> SUFFICES ASSUME s >= q + 1 PROVE FALSE
    OBVIOUS
  <2>1. n * s >= n * q + n
    BY <1>1, ProductStep
  <2> QED BY <1>1, <1>2, <2>1
<1>5. q = s
  BY <1>1, <1>3, <1>4
<1> QED BY <1>1, <1>2, <1>5 DEF r

\* An index inside the ring is its own slot.
LEMMA InRing ==
    ASSUME NEW n \in Nat \ {0}, NEW a \in 0 .. n - 1
    PROVE  a % n = a
<1>1. a = n * 0 + a /\ 0 \in Nat /\ a \in Nat
  BY Z3
<1> QED BY <1>1, ModUnique

\* Stepping on from a wrapped index: within the ring the steps add up, and at
\* its end they start again at slot 0.
LEMMA Wrap ==
    ASSUME NEW n \in Nat \ {0}, NEW a \in Nat, NEW j \in Nat, (a % n) + j <= n
    PROVE  (a + j) % n = IF (a % n) + j < n THEN (a % n) + j ELSE 0
<1> DEFINE q == a \div n
           r == a % n
<1>1. q \in Nat /\ r \in 0 .. n - 1 /\ a = n * q + r
  BY DivMod
<1> DEFINE s == IF r + j < n THEN q ELSE q + 1
           m == IF r + j < n THEN r + j ELSE 0
<1>2. s \in Nat /\ m \in 0 .. n - 1 /\ a + j = n * s + m
  <2>1. CASE r + j < n
    BY <1>1, <2>1
  <2>2. CASE r + j = n
    <3>1. n * (q + 1) = n * q + n
      BY <1>1, ProductStep
    <3> QED BY <1>1, <2>2, <3>1
  <2> QED BY <1>1, <2>1, <2>2
<1> HIDE DEF q, r, s
<1>3. (a + j) % n = m
  <2> DEFINE b == a + j
  <2>1. b \in Nat /\ b = n * s + m
    BY <1>2
  <2> HIDE DEF m, b
  <2>2. b % n = m
    BY <1>2, <2>1, ModUnique
  <2> QED BY <2>2 DEF b
<1> QED BY <1>3 DEF r
=============================================================================
