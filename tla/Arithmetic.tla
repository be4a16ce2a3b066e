----------------------------- MODULE Arithmetic -----------------------------
(***************************************************************************)
(* Facts about natural numbers and residues that the proofs of several     *)
(* components rest on: ring indices and slots, clocks that wrap, lists     *)
(* that are searched from the front.                                       *)
(***************************************************************************)
EXTENDS Integers, NaturalsInduction, WellFoundedInduction, TLAPS

\* A set of naturals that is not empty has a least element.
LEMMA LeastNat ==
  ASSUME NEW T, T \subseteq Nat, T # {}
  PROVE  \E n \in T : \A k \in T : n <= k
<1> DEFINE R == OpToRel(<, Nat)
<1>1. IsWellFoundedOn(R, Nat)
  BY NatLessThanWellFounded
<1>2. \E n \in T : \A k \in T : ~(<<k, n>> \in R)
  BY <1>1, WFMin
<1>3. \A k, n \in Nat : k < n => <<k, n>> \in R
  BY Zenon DEF OpToRel
<1> HIDE DEF R
<1>4. PICK n \in T : \A k \in T : ~(<<k, n>> \in R)
  BY <1>2
<1>5. \A k \in T : ~(k < n)
  BY <1>3, <1>4
<1> QED BY <1>4, <1>5

\* Induction, with the set of the numbers that have the property in the place of it.
LEMMA SetInduction ==
  ASSUME NEW T, 0 \in T, \A n \in Nat : n \in T => n + 1 \in T
  PROVE  Nat \subseteq T
<1> SUFFICES ASSUME Nat \ T # {} PROVE FALSE
  OBVIOUS
<1>1. PICK n \in Nat \ T : \A k \in Nat \ T : n <= k
  BY LeastNat
<1>2. n - 1 \in Nat /\ n - 1 \notin Nat \ T
  BY <1>1
<1> QED BY <1>1, <1>2

-----------------------------------------------------------------------------

\* Quotient and remainder.
LEMMA ModDef ==
  ASSUME NEW a \in Int, NEW m \in Nat \ {0}
  PROVE  /\ a % m \in 0 .. m - 1
         /\ a \div m \in Int
         /\ a = (m * (a \div m)) + (a % m)
  OBVIOUS

\* The only multiple of m nearer to 0 than m is 0.
LEMMA NearMultiple ==
  ASSUME NEW m \in Nat \ {0}, NEW q \in Int, -m < q * m, q * m < m
  PROVE  q = 0
<1>1. q >= 1 => q * m >= m
  OBVIOUS
<1>2. q <= -1 => q * m <= -m
  OBVIOUS
<1> QED BY <1>1, <1>2

\* The remainder is unique.
LEMMA ModUnique ==
  ASSUME NEW a \in Int, NEW m \in Nat \ {0}, NEW q \in Int, NEW r \in 0 .. m - 1,
         a = (q * m) + r
  PROVE  a % m = r
<1> DEFINE p == a \div m
           t == a % m
<1>1. p \in Int /\ t \in 0 .. m - 1 /\ a = (m * p) + t
  BY ModDef
<1> HIDE DEF p, t
<1>2. (q - p) * m = t - r
  <2>1. (q * m) - (m * p) = t - r
    BY <1>1
  <2> QED BY <2>1, <1>1
<1>3. q - p = 0
  BY <1>1, <1>2, NearMultiple
<1> QED BY <1>1, <1>2, <1>3 DEF t

LEMMA ModSmall ==
  ASSUME NEW m \in Nat \ {0}, NEW a \in 0 .. m - 1
  PROVE  a % m = a
  OBVIOUS

\* Multiples of the modulus do not count.
LEMMA ModAdd ==
  ASSUME NEW a \in Int, NEW k \in Int, NEW m \in Nat \ {0}
  PROVE  (a + (k * m)) % m = a % m
<1> DEFINE q == a \div m
           r == a % m
<1>1. q \in Int /\ r \in 0 .. m - 1 /\ a = (m * q) + r
  BY ModDef
<1> HIDE DEF q, r
<1>2. a + (k * m) = ((q + k) * m) + r
  BY <1>1
<1>3. (a + (k * m)) % m = r
  BY <1>1, <1>2, ModUnique
<1> QED BY <1>3 DEF r

\* Numbers with the same remainder differ by a multiple of the modulus.
LEMMA ModEq ==
  ASSUME NEW a \in Int, NEW b \in Int, NEW m \in Nat \ {0}, a % m = b % m
  PROVE  \E k \in Int : a = b + (k * m)
<1> DEFINE p == a \div m
           q == b \div m
<1>1. p \in Int /\ a = (m * p) + (a % m)
  BY ModDef
<1>2. q \in Int /\ b = (m * q) + (b % m)
  BY ModDef
<1> HIDE DEF p, q
<1>3. a = b + ((p - q) * m)
  <2>1. a - b = (m * p) - (m * q)
    BY <1>1, <1>2
  <2> QED BY <1>1, <1>2, <2>1
<1>4. p - q \in Int
  BY <1>1, <1>2
<1> QED BY <1>3, <1>4

\* Equal remainders stay equal when the same number is added.
LEMMA ModShift ==
  ASSUME NEW a \in Int, NEW b \in Int, NEW c \in Int, NEW m \in Nat \ {0}, a % m = b % m
  PROVE  (a + c) % m = (b + c) % m
<1>1. PICK k \in Int : a = b + (k * m)
  BY ModEq
<1> DEFINE s == b + c
<1>2. s \in Int /\ a + c = s + (k * m)
  BY <1>1
<1> HIDE DEF s
<1>3. (s + (k * m)) % m = s % m
  BY <1>2, ModAdd
<1> QED BY <1>2, <1>3 DEF s

\* The remainder stands for its number under further addition.
LEMMA ModInner ==
  ASSUME NEW a \in Int, NEW c \in Int, NEW m \in Nat \ {0}
  PROVE  ((a % m) + c) % m = (a + c) % m
<1> DEFINE r == a % m
<1>1. r \in 0 .. m - 1
  BY ModDef
<1>2. r \in Int /\ r % m = a % m
  BY <1>1, ModSmall
<1> HIDE DEF r
<1>3. (r + c) % m = (a + c) % m
  BY <1>2, ModShift, Zenon
<1> QED BY <1>3 DEF r

\* And in a product to which something is added.
LEMMA ModTimes ==
  ASSUME NEW a \in Int, NEW c \in Int, NEW b \in Int, NEW m \in Nat \ {0}
  PROVE  (((a % m) * c) + b) % m = ((a * c) + b) % m
<1> DEFINE q == a \div m
           r == a % m
           x == (a * c) + b
           y == (r * c) + b
<1>1. q \in Int /\ r \in Int /\ a = (m * q) + r
  BY ModDef
<1> HIDE DEF q, r
<1>2. x \in Int /\ y \in Int /\ x = y + ((q * c) * m) /\ q * c \in Int
  <2>1. a * c = ((m * q) * c) + (r * c)
    BY <1>1
  <2>2. (m * q) * c = (q * c) * m
    BY <1>1
  <2> QED BY <1>1, <2>1, <2>2
<1> HIDE DEF x, y
<1>3. x % m = y % m
  BY <1>2, ModAdd
<1> QED BY <1>3 DEF x, y, r

\* Equal remainders stay equal for a divisor of the modulus.
LEMMA ModDivisor ==
  ASSUME NEW a \in Int, NEW b \in Int, NEW m \in Nat \ {0}, NEW k \in Nat,
         NEW n \in Nat \ {0}, n = k * m, a % n = b % n
  PROVE  a % m = b % m
<1>1. PICK j \in Int : a = b + (j * n)
  BY ModEq
<1>2. a = b + ((j * k) * m)
  BY <1>1
<1>3. j * k \in Int
  OBVIOUS
<1> QED BY <1>2, <1>3, ModAdd

\* Reducing first by a multiple of the modulus changes nothing.
LEMMA ModNested ==
  ASSUME NEW a \in Int, NEW m \in Nat \ {0}, NEW n \in Nat \ {0}, \E k \in Nat : n = k * m
  PROVE  (a % n) % m = a % m
<1> DEFINE r == a % n
<1>1. r \in 0 .. n - 1
  BY ModDef
<1>2. r \in Int /\ r % n = a % n
  BY <1>1, ModSmall
<1> HIDE DEF r
<1>3. r % m = a % m
  BY <1>2, ModDivisor
<1> QED BY <1>3 DEF r

\* Numbers nearer to each other than the modulus have different remainders.
LEMMA ModDistinct ==
  ASSUME NEW a \in Int, NEW b \in Int, NEW m \in Nat \ {0},
         a % m = b % m, -m < a - b, a - b < m
  PROVE  a = b
<1>1. PICK k \in Int : a = b + (k * m)
  BY ModEq
<1>2. k = 0
  <2>1. k * m = a - b
    BY <1>1
  <2> QED BY <2>1, NearMultiple
<1> QED BY <1>1, <1>2
=============================================================================
