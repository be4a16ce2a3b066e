------------------------------ MODULE AluProofs ------------------------------
(***************************************************************************)
(* The arithmetic of the integer unit and of the vector unit's elements    *)
(* for every width of int and every operand: products, quotients,          *)
(* comparisons on a narrow hart, carries, saturation and rounding.         *)
(***************************************************************************)
EXTENDS WordMath, Arithmetic, FiniteSetTheorems, FunctionTheorems, TLAPS

---------------------------------------------------------------------------
(* Powers of two and quotients. *)

\* Powers of two, which the prover has no laws for, are the numbers of subsets of a set.
LEMMA PowerSubsets ==
  ASSUME NEW S, IsFiniteSet(S)
  PROVE  2^Cardinality(S) \in Nat \ {0}
<1>1. IsFiniteSet(SUBSET S) /\ Cardinality(SUBSET S) = 2^Cardinality(S)
  BY FS_SUBSET
<1>2. Cardinality(SUBSET S) \in Nat /\ (Cardinality(SUBSET S) = 0 <=> SUBSET S = {})
  BY <1>1, FS_CardinalityType, FS_EmptySet
<1>3. {} \in SUBSET S
  OBVIOUS
<1> HIDE <1>3
<1>4. SUBSET S # {}
  BY <1>3, Zenon
<1> QED BY <1>1, <1>2, <1>4

LEMMA PowerType ==
  ASSUME NEW n \in Nat
  PROVE  2^n \in Nat \ {0}
<1>1. IsFiniteSet(1 .. n) /\ Cardinality(1 .. n) = n
  BY FS_Interval
<1> QED BY <1>1, PowerSubsets

\* A subset of m + n numbers is a subset of the first m and one of the other n.
LEMMA PowerAdd ==
  ASSUME NEW m \in Nat, NEW n \in Nat
  PROVE  2^(m + n) = 2^m * 2^n
<1> DEFINE A == 1 .. m
           B == m + 1 .. m + n
           C == 1 .. m + n
           f == [S \in SUBSET C |-> <<S \cap A, S \cap B>>]
<1>1. /\ IsFiniteSet(A) /\ Cardinality(A) = m
      /\ IsFiniteSet(B) /\ Cardinality(B) = n
      /\ IsFiniteSet(C) /\ Cardinality(C) = m + n
  <2>1. m + 1 \in Int /\ m + n \in Int
    OBVIOUS
  <2>2. IsFiniteSet(B) /\ Cardinality(B) = IF m + 1 > m + n THEN 0 ELSE m + n - (m + 1) + 1
    BY <2>1, FS_Interval
  <2>3. IsFiniteSet(A) /\ Cardinality(A) = IF 1 > m THEN 0 ELSE m - 1 + 1
    BY FS_Interval
  <2>4. IsFiniteSet(C) /\ Cardinality(C) = IF 1 > m + n THEN 0 ELSE m + n - 1 + 1
    BY <2>1, FS_Interval
  <2> QED BY <2>2, <2>3, <2>4
<1>2. C = A \cup B /\ A \cap B = {}
  OBVIOUS
<1> HIDE DEF A, B, C
<1>3. f \in [SUBSET C -> (SUBSET A) \X (SUBSET B)]
  OBVIOUS
<1>4. ASSUME NEW S \in SUBSET C, NEW T \in SUBSET C, f[S] = f[T]
      PROVE  S = T
  <2>1. S \cap A = T \cap A /\ S \cap B = T \cap B
    BY <1>4
  <2> QED BY <1>2, <2>1
<1>5. ASSUME NEW p \in (SUBSET A) \X (SUBSET B)
      PROVE  \E S \in SUBSET C : f[S] = p
  <2> DEFINE S == p[1] \cup p[2]
  <2>1. p = <<p[1], p[2]>> /\ p[1] \in SUBSET A /\ p[2] \in SUBSET B
    OBVIOUS
  <2>2. S \in SUBSET C /\ S \cap A = p[1] /\ S \cap B = p[2]
    BY <1>2, <2>1
  <2>3. f[S] = p
    BY <2>1, <2>2
  <2> QED BY <2>2, <2>3
<1> HIDE DEF f
<1>6. f \in Bijection(SUBSET C, (SUBSET A) \X (SUBSET B))
  BY <1>3, <1>4, <1>5, Zenon DEF Bijection, Injection, Surjection, IsInjective
<1>7. ExistsBijection(SUBSET C, (SUBSET A) \X (SUBSET B))
  BY <1>6 DEF ExistsBijection
<1>8. /\ IsFiniteSet(SUBSET A) /\ Cardinality(SUBSET A) = 2^m
      /\ IsFiniteSet(SUBSET B) /\ Cardinality(SUBSET B) = 2^n
      /\ IsFiniteSet(SUBSET C) /\ Cardinality(SUBSET C) = 2^(m + n)
  BY <1>1, FS_SUBSET
<1>9. Cardinality((SUBSET A) \X (SUBSET B)) = Cardinality(SUBSET C)
  BY <1>7, <1>8, FS_Bijection
<1>10. Cardinality((SUBSET A) \X (SUBSET B)) = Cardinality(SUBSET A) * Cardinality(SUBSET B)
  BY <1>8, FS_Product
<1> QED BY <1>8, <1>9, <1>10

LEMMA PowerNext ==
  ASSUME NEW n \in Nat
  PROVE  2^(n + 1) = 2 * 2^n
<1>1. 2^1 = 2
  OBVIOUS
<1>2. 2^(n + 1) = 2^n * 2^1
  BY PowerAdd
<1> QED BY <1>1, <1>2, PowerType

\* The quotient is unique.
LEMMA DivUnique ==
  ASSUME NEW a \in Int, NEW m \in Nat \ {0}, NEW q \in Int, NEW r \in 0 .. m - 1,
         a = (q * m) + r
  PROVE  a \div m = q
<1> DEFINE p == a \div m
<1>1. a % m = r
  BY ModUnique
<1>2. p \in Int /\ a = (m * p) + (a % m)
  BY ModDef
<1> HIDE DEF p
<1>3. (p - q) * m = 0
  BY <1>1, <1>2
<1>4. p - q = 0
  BY <1>2, <1>3, NearMultiple
<1> QED BY <1>2, <1>4 DEF p

\* The product of two numbers below c and d is below c * d.
LEMMA ProductBelow ==
  ASSUME NEW c \in Nat \ {0}, NEW d \in Nat \ {0}, NEW x \in 0 .. c - 1, NEW y \in 0 .. d - 1
  PROVE  (x * d) + y \in 0 .. (c * d) - 1
<1>1. x * d >= 0
  OBVIOUS
<1>2. x * d <= (c - 1) * d
  OBVIOUS
<1>3. (c - 1) * d = (c * d) - d
  OBVIOUS
<1>4. x * d \in Int /\ c * d \in Int
  OBVIOUS
<1> DEFINE u == x * d
           v == c * d
           z == (c - 1) * d
<1> HIDE DEF u, v, z
<1> QED BY <1>1, <1>2, <1>3, <1>4 DEF u, v, z

\* The schoolbook product of two numbers of two digits.
LEMMA Schoolbook ==
  ASSUME NEW b \in Nat \ {0}, NEW l0 \in 0 .. b - 1, NEW l1 \in 0 .. b - 1,
         NEW r0 \in 0 .. b - 1, NEW r1 \in 0 .. b - 1,
         NEW P0 \in Int, NEW P1 \in Int, NEW P2 \in Int,
         NEW Q0 \in 0 .. b - 1, NEW Q1 \in Int, NEW Q2 \in Int,
         l0 * r0 = (b * P0) + Q0, l0 * r1 = (b * P1) + Q1, l1 * r0 = (b * P2) + Q2,
         NEW C \in Int, NEW D \in 0 .. b - 1, P0 + Q1 + Q2 = (b * C) + D
  PROVE  ((l1 * b) + l0) * ((r1 * b) + r0) = (((l1 * r1) + P1 + P2 + C) * (b * b)) + ((D * b) + Q0)
<1> DEFINE p0 == l0 * r0
           p1 == l0 * r1
           p2 == l1 * r0
           p3 == l1 * r1
<1>1. ((l1 * b) + l0) * ((r1 * b) + r0) = (p3 * (b * b)) + (p2 * b) + (p1 * b) + p0
  OBVIOUS
<1>2. p0 \in Int /\ p1 \in Int /\ p2 \in Int /\ p3 \in Int
  OBVIOUS
<1>3. p0 = (b * P0) + Q0 /\ p1 = (b * P1) + Q1 /\ p2 = (b * P2) + Q2
  OBVIOUS
<1> HIDE DEF p0, p1, p2, p3
<1>4. (p2 * b) + (p1 * b) + p0 = ((P1 + P2) * (b * b)) + ((P0 + Q1 + Q2) * b) + Q0
  BY <1>2, <1>3
<1>5. (P0 + Q1 + Q2) * b = (C * (b * b)) + (D * b)
  OBVIOUS
<1> QED BY <1>1, <1>2, <1>4, <1>5 DEF p3

LEMMA DivAdd ==
  ASSUME NEW a \in Int, NEW k \in Int, NEW m \in Nat \ {0}
  PROVE  (a + (k * m)) \div m = (a \div m) + k
<1> DEFINE q == a \div m
           r == a % m
           c == a + (k * m)
<1>1. r \in 0 .. m - 1 /\ q \in Int /\ a = (m * q) + r
  BY ModDef
<1> HIDE DEF q, r
<1>2. c \in Int /\ q + k \in Int /\ c = ((q + k) * m) + r
  BY <1>1
<1> HIDE DEF c
<1>3. c \div m = q + k
  BY <1>1, <1>2, DivUnique
<1> QED BY <1>3 DEF c, q

---------------------------------------------------------------------------
(* Numbers of a width. *)

LEMMA Width ==
  ASSUME NEW w \in Nat \ {0}
  PROVE  /\ 2^w \in Nat \ {0}
         /\ 2^(w - 1) \in Nat \ {0}
         /\ 2^w = 2 * 2^(w - 1)
<1>1. w - 1 \in Nat /\ (w - 1) + 1 = w
  OBVIOUS
<1> DEFINE u == w - 1
<1> HIDE DEF u
<1>2. 2^(u + 1) = 2 * 2^u /\ 2^u \in Nat \ {0} /\ 2^w \in Nat \ {0}
  BY <1>1, PowerNext, PowerType DEF u
<1> QED BY <1>1, <1>2 DEF u

LEMMA RegWidth ==
  /\ IntBits \in Nat \ {0} /\ RegBits \in Nat \ {0}
  /\ 2^IntBits \in Nat \ {0}
  /\ 2^RegBits = 2^IntBits * 2^IntBits
<1>1. IntBits \in Nat \ {0} /\ RegBits = IntBits + IntBits /\ RegBits \in Nat \ {0}
  BY FixedPointAssumption DEF RegBits
<1> QED BY <1>1, PowerAdd, PowerType

\* A number read as signed, and the two cases.
LEMMA SignedFact ==
  ASSUME NEW w \in Nat \ {0}, NEW v \in 0 .. 2^w - 1
  PROVE  /\ Signed(v, w) \in -(2^(w - 1)) .. 2^(w - 1) - 1
         /\ Signed(v, w) < 0 <=> v >= 2^(w - 1)
         /\ Signed(v, w) < 0 => Signed(v, w) = v - 2^w
         /\ Signed(v, w) >= 0 => Signed(v, w) = v
  BY Width DEF Signed

\* Reading back what was cast to a width.
LEMMA SignedUnsigned ==
  ASSUME NEW w \in Nat \ {0}, NEW x \in -(2^(w - 1)) .. 2^(w - 1) - 1
  PROVE  Unsigned(x, w) \in 0 .. 2^w - 1 /\ Signed(Unsigned(x, w), w) = x
<1> DEFINE m == 2^w
           h == 2^(w - 1)
<1>1. m \in Nat \ {0} /\ h \in Nat \ {0} /\ m = 2 * h
  BY Width
<1>2. x \in -h .. h - 1
  OBVIOUS
<1>3. Unsigned(x, w) = x % m /\ \A u : Signed(u, w) = IF u >= h THEN u - m ELSE u
  BY DEF Unsigned, Signed
<1> HIDE DEF m, h
<1>4. CASE x >= 0
  <2>1. x % m = x
    BY <1>1, <1>2, <1>4, ModSmall
  <2> QED BY <1>1, <1>2, <1>3, <1>4, <2>1 DEF m
<1>5. CASE x < 0
  <2>1. (x + m) \in 0 .. m - 1 /\ x = ((-1) * m) + (x + m)
    BY <1>1, <1>2, <1>5
  <2>2. x % m = x + m
    BY <1>1, <2>1, ModUnique
  <2> QED BY <1>1, <1>2, <1>3, <1>5, <2>2 DEF m
<1> QED BY <1>2, <1>4, <1>5

\* A number below b * b has two digits of base b.
LEMMA TwoDigits ==
  ASSUME NEW b \in Nat \ {0}, NEW v \in 0 .. (b * b) - 1
  PROVE  /\ v % b \in 0 .. b - 1
         /\ v \div b \in 0 .. b - 1
         /\ v = ((v \div b) * b) + (v % b)
<1> DEFINE q == v \div b
           r == v % b
<1>1. v \in Int /\ v >= 0 /\ v < b * b
  OBVIOUS
<1>2. r \in 0 .. b - 1 /\ q \in Int /\ v = (b * q) + r
  BY <1>1, ModDef
<1> HIDE DEF q, r
<1>3. q < 0 => b * q <= -b
  BY <1>2
<1>4. q >= b => b * q >= b * b
  BY <1>2
<1>5. q >= 0 /\ q < b
  BY <1>1, <1>2, <1>3, <1>4
<1>6. v = (q * b) + r
  BY <1>2
<1> QED BY <1>2, <1>5, <1>6 DEF q, r

\* A register is its two halves.
LEMMA Halves ==
  ASSUME NEW v \in 0 .. 2^RegBits - 1
  PROVE  /\ Low(v) \in 0 .. 2^IntBits - 1
         /\ v \div 2^IntBits \in 0 .. 2^IntBits - 1
         /\ v = ((v \div 2^IntBits) * 2^IntBits) + Low(v)
  BY RegWidth, TwoDigits DEF Low

---------------------------------------------------------------------------
(* Products. *)

LEMMA MulLow ==
  ASSUME NEW l \in 0 .. 2^RegBits - 1, NEW r \in 0 .. 2^RegBits - 1
  PROVE  mul_low(l, r) = (l * r) % 2^RegBits
<1> DEFINE b  == 2^IntBits
           m  == 2^RegBits
           r0 == Low(r)
           r1 == r \div b
           p  == l * r1
           q  == p \div b
           s  == p % b
           c  == (l * r0) + (s * b)
<1>1. b \in Nat \ {0} /\ m = b * b /\ m \in Nat \ {0}
  BY RegWidth, PowerType
<1>2. r0 \in 0 .. b - 1 /\ r1 \in 0 .. b - 1 /\ r = (r1 * b) + r0
  BY Halves
<1>3. mul_low(l, r) = c % m
  BY DEF mul_low, Low
<1>4. l \in Nat
  BY <1>1
<1> HIDE DEF b, m, r0, r1
<1>5. p \in Int
  BY <1>2, <1>4
<1>6. l * r = (l * r0) + (p * b)
  BY <1>1, <1>2, <1>4
<1> HIDE DEF p
<1>7. q \in Int /\ s \in 0 .. b - 1 /\ p = (b * q) + s
  BY <1>1, <1>5, ModDef
<1> HIDE DEF q, s
<1>8. c \in Int
  BY <1>1, <1>2, <1>4, <1>7
<1>9. l * r = c + (q * m)
  <2> DEFINE t == l * r0
  <2>1. t \in Int
    BY <1>2, <1>4
  <2> HIDE DEF t
  <2>2. t + (p * b) = t + (s * b) + (q * (b * b))
    BY <1>1, <1>7, <2>1
  <2> QED BY <1>1, <1>6, <2>2 DEF t
<1> HIDE DEF c
<1>10. (c + (q * m)) % m = c % m
  BY <1>1, <1>7, <1>8, ModAdd
<1> QED BY <1>3, <1>9, <1>10 DEF m

LEMMA MulHighUnsigned ==
  ASSUME NEW l \in 0 .. 2^RegBits - 1, NEW r \in 0 .. 2^RegBits - 1
  PROVE  mul_high_unsigned64(l, r) = (l * r) \div 2^RegBits
<1> DEFINE b  == 2^IntBits
           m  == 2^RegBits
           l0 == Low(l)
           l1 == l \div b
           r0 == Low(r)
           r1 == r \div b
           p0 == l0 * r0
           p1 == l0 * r1
           p2 == l1 * r0
           P0 == p0 \div b
           P1 == p1 \div b
           P2 == p2 \div b
           Q0 == p0 % b
           Q1 == p1 % b
           Q2 == p2 % b
           e  == P0 + Q1 + Q2
           C  == e \div b
           D  == e % b
           h  == (l1 * r1) + P1 + P2 + C
           t  == (D * b) + Q0
<1>1. b \in Nat \ {0} /\ m = b * b /\ m \in Nat \ {0}
  BY RegWidth, PowerType
<1>2. /\ l0 \in 0 .. b - 1 /\ l1 \in 0 .. b - 1 /\ l = (l1 * b) + l0
      /\ r0 \in 0 .. b - 1 /\ r1 \in 0 .. b - 1 /\ r = (r1 * b) + r0
  BY Halves
<1>3. mul_high_unsigned64(l, r) = h
  BY DEF mul_high_unsigned64, Low
<1> HIDE DEF b, m, l0, l1, r0, r1
<1>4. p0 \in Int /\ p1 \in Int /\ p2 \in Int
  BY <1>2
<1>5. p0 = l0 * r0 /\ p1 = l0 * r1 /\ p2 = l1 * r0
  OBVIOUS
<1> HIDE DEF p0, p1, p2
<1>6. /\ P0 \in Int /\ Q0 \in 0 .. b - 1 /\ p0 = (b * P0) + Q0
      /\ P1 \in Int /\ Q1 \in 0 .. b - 1 /\ p1 = (b * P1) + Q1
      /\ P2 \in Int /\ Q2 \in 0 .. b - 1 /\ p2 = (b * P2) + Q2
  BY <1>1, <1>4, ModDef
<1> HIDE DEF P0, P1, P2, Q0, Q1, Q2
<1>7. e \in Int
  BY <1>6
<1>8. e = P0 + Q1 + Q2
  OBVIOUS
<1> HIDE DEF e
<1>9. C \in Int /\ D \in 0 .. b - 1 /\ e = (b * C) + D
  BY <1>1, <1>7, ModDef
<1> HIDE DEF C, D
<1>10. l * r = (h * m) + t
  <2>1. Q1 \in Int /\ Q2 \in Int
    BY <1>6
  <2>2. ((l1 * b) + l0) * ((r1 * b) + r0) = (((l1 * r1) + P1 + P2 + C) * (b * b)) + ((D * b) + Q0)
    BY <1>1, <1>2, <1>5, <1>6, <1>8, <1>9, <2>1, Schoolbook
  <2> QED BY <1>1, <1>2, <2>2
<1>11. t \in 0 .. m - 1
  BY <1>1, <1>6, <1>9, ProductBelow
<1>12. h \in Int /\ l * r \in Int
  BY <1>1, <1>2, <1>6, <1>9
<1> DEFINE a == l * r
<1>13. a \in Int /\ a = (h * m) + t
  BY <1>10, <1>12
<1> HIDE DEF a, h, t
<1>14. a \div m = h
  BY <1>1, <1>11, <1>12, <1>13, DivUnique
<1> QED BY <1>3, <1>14 DEF a, m

\* The high part of a negated product, from the parts of the product.
LEMMA NegatedHigh ==
  ASSUME NEW m \in Nat \ {0}, NEW p \in Int
  PROVE  ((-p) \div m) % m = (m - 1 - (p \div m) + (IF p % m = 0 THEN 1 ELSE 0)) % m
<1> DEFINE h == p \div m
           l == p % m
           n == -p
           j == 1
<1>1. h \in Int /\ l \in 0 .. m - 1 /\ p = (m * h) + l
  BY ModDef
<1>2. n \in Int /\ n = -p /\ j \in Int /\ j * m = m
  OBVIOUS
<1> HIDE DEF h, l, n, j
<1>3. CASE l = 0
  <2> DEFINE k == -h
             r == 0
  <2>1. k \in Int /\ r \in 0 .. m - 1 /\ n = (k * m) + r
    BY <1>1, <1>2, <1>3
  <2> HIDE DEF k, r
  <2>2. n \div m = k
    BY <1>2, <2>1, DivUnique
  <2>3. (k + (j * m)) % m = k % m
    BY <1>2, <2>1, ModAdd
  <2>4. k + (j * m) = m - 1 - h + 1
    BY <1>1, <1>2 DEF k
  <2> QED BY <1>3, <2>2, <2>3, <2>4 DEF h, l, n
<1>4. CASE l # 0
  <2> DEFINE k == -h - 1
             r == m - l
  <2>1. k \in Int /\ r \in 0 .. m - 1 /\ n = (k * m) + r
    BY <1>1, <1>2, <1>4
  <2> HIDE DEF k, r
  <2>2. n \div m = k
    BY <1>2, <2>1, DivUnique
  <2>3. (k + (j * m)) % m = k % m
    BY <1>2, <2>1, ModAdd
  <2>4. k + (j * m) = m - 1 - h + 0
    BY <1>1, <1>2 DEF k
  <2> QED BY <1>4, <2>2, <2>3, <2>4 DEF h, l, n
<1> QED BY <1>3, <1>4

\* The high part of a product of registers is a register.
LEMMA HighBelow ==
  ASSUME NEW m \in Nat \ {0}, NEW l \in 0 .. m - 1, NEW r \in 0 .. m - 1
  PROVE  l * r \in Int /\ (l * r) \div m \in 0 .. m - 1
<1>1. l * r >= 0
  OBVIOUS
<1>2. l * r <= (m - 1) * (m - 1)
  <2>1. l * r <= (m - 1) * r
    OBVIOUS
  <2>2. (m - 1) * r <= (m - 1) * (m - 1)
    OBVIOUS
  <2>3. l * r \in Int /\ (m - 1) * r \in Int /\ (m - 1) * (m - 1) \in Int
    OBVIOUS
  <2> QED BY <2>1, <2>2, <2>3
<1>3. (m - 1) * (m - 1) = (m * m) - m - m + 1
  OBVIOUS
<1> DEFINE p == l * r
<1>4. p \in 0 .. (m * m) - 1
  BY <1>1, <1>2, <1>3
<1> HIDE DEF p
<1>5. p \div m \in 0 .. m - 1
  BY <1>4, TwoDigits
<1> QED BY <1>4, <1>5 DEF p

LEMMA AbsFact ==
  ASSUME NEW v \in 0 .. 2^RegBits - 1
  PROVE  /\ Signed(v, RegBits) \in Int
         /\ unsigned_abs(v) \in 0 .. 2^RegBits - 1
         /\ unsigned_abs(v) = IF Signed(v, RegBits) < 0 THEN -Signed(v, RegBits) ELSE Signed(v, RegBits)
<1>1. RegBits \in Nat \ {0}
  BY RegWidth
<1> QED BY <1>1, SignedFact, Width DEF unsigned_abs

\* Sign and magnitude: the high part of the product of x and y from that of their magnitudes.
LEMMA SignMagnitude ==
  ASSUME NEW a \in 0 .. 2^RegBits - 1, NEW b \in 0 .. 2^RegBits - 1
  PROVE  /\ ((a * b) \div 2^RegBits) % 2^RegBits = mul_high_unsigned64(a, b)
         /\ ((-(a * b)) \div 2^RegBits) % 2^RegBits = negate_high_low(mul_high_unsigned64(a, b), mul_low(a, b))
<1> DEFINE m == 2^RegBits
           p == a * b
           h == p \div m
<1>1. m \in Nat \ {0}
  BY RegWidth, PowerType
<1>2. p \in Int /\ h \in 0 .. m - 1
  BY <1>1, HighBelow
<1>3. mul_high_unsigned64(a, b) = h /\ mul_low(a, b) = p % m
  BY MulHighUnsigned, MulLow
<1>4. negate_high_low(h, p % m) = (m - 1 - h + (IF p % m = 0 THEN 1 ELSE 0)) % m
  BY DEF negate_high_low
<1> HIDE DEF p
<1>5. ((-p) \div m) % m = (m - 1 - h + (IF p % m = 0 THEN 1 ELSE 0)) % m
  BY <1>1, <1>2, NegatedHigh
<1>6. h % m = h
  BY <1>1, <1>2, ModSmall
<1> QED BY <1>3, <1>4, <1>5, <1>6 DEF p

\* The signed products.
LEMMA MulHighSigned ==
  ASSUME NEW l \in 0 .. 2^RegBits - 1, NEW r \in 0 .. 2^RegBits - 1
  PROVE  mul_high_signed(l, r) = ((Signed(l, RegBits) * Signed(r, RegBits)) \div 2^RegBits) % 2^RegBits
<1> DEFINE x == Signed(l, RegBits)
           y == Signed(r, RegBits)
           a == unsigned_abs(l)
           b == unsigned_abs(r)
<1>1. /\ x \in Int /\ a \in 0 .. 2^RegBits - 1 /\ a = IF x < 0 THEN -x ELSE x
      /\ y \in Int /\ b \in 0 .. 2^RegBits - 1 /\ b = IF y < 0 THEN -y ELSE y
  BY AbsFact
<1>2. mul_high_signed(l, r) = IF (x < 0) # (y < 0) THEN negate_high_low(mul_high_unsigned64(a, b), mul_low(a, b))
                              ELSE mul_high_unsigned64(a, b)
  BY Zenon DEF mul_high_signed
<1> HIDE DEF x, y, a, b
<1>3. (x < 0) # (y < 0) => x * y = -(a * b)
  BY <1>1
<1>4. (x < 0) = (y < 0) => x * y = a * b
  BY <1>1
<1>5. /\ ((a * b) \div 2^RegBits) % 2^RegBits = mul_high_unsigned64(a, b)
      /\ ((-(a * b)) \div 2^RegBits) % 2^RegBits = negate_high_low(mul_high_unsigned64(a, b), mul_low(a, b))
  BY <1>1, SignMagnitude, Zenon
<1>6. mul_high_signed(l, r) = ((x * y) \div 2^RegBits) % 2^RegBits
  BY <1>2, <1>3, <1>4, <1>5, Zenon
<1> QED BY <1>6 DEF x, y

LEMMA MulHighSignedUnsigned ==
  ASSUME NEW l \in 0 .. 2^RegBits - 1, NEW r \in 0 .. 2^RegBits - 1
  PROVE  mul_high_signed_unsigned(l, r) = ((Signed(l, RegBits) * r) \div 2^RegBits) % 2^RegBits
<1> DEFINE x == Signed(l, RegBits)
           a == unsigned_abs(l)
<1>1. x \in Int /\ a \in 0 .. 2^RegBits - 1 /\ a = IF x < 0 THEN -x ELSE x
  BY AbsFact
<1>2. mul_high_signed_unsigned(l, r) = IF x < 0 THEN negate_high_low(mul_high_unsigned64(a, r), mul_low(a, r))
                                       ELSE mul_high_unsigned64(a, r)
  BY Zenon DEF mul_high_signed_unsigned
<1>0. r \in Int
  BY RegWidth, PowerType
<1> HIDE DEF x, a
<1>3. x < 0 => x * r = -(a * r)
  BY <1>0, <1>1
<1>4. ~(x < 0) => x * r = a * r
  BY <1>0, <1>1
<1>5. /\ ((a * r) \div 2^RegBits) % 2^RegBits = mul_high_unsigned64(a, r)
      /\ ((-(a * r)) \div 2^RegBits) % 2^RegBits = negate_high_low(mul_high_unsigned64(a, r), mul_low(a, r))
  BY <1>1, SignMagnitude, Zenon
<1>6. mul_high_signed_unsigned(l, r) = ((x * r) \div 2^RegBits) % 2^RegBits
  BY <1>2, <1>3, <1>4, <1>5, Zenon
<1> QED BY <1>6 DEF x

---------------------------------------------------------------------------
(* What the manual calls the high part, from the operands as numbers. *)

\* A signed number and its unsigned reading differ by the modulus or not at all.
LEMMA SignedWrap ==
  ASSUME NEW w \in Nat \ {0}, NEW v \in 0 .. 2^w - 1
  PROVE  LET x == Signed(v, w)
             e == IF x < 0 THEN 1 ELSE 0
         IN x \in Int /\ v = x + (e * 2^w)
<1> DEFINE x == Signed(v, w)
<1>1. 2^w \in Nat \ {0} /\ x \in Int /\ (x < 0 => x = v - 2^w) /\ (x >= 0 => x = v)
  BY SignedFact, Width
<1> HIDE DEF x
<1>2. x \in Int /\ v = x + ((IF x < 0 THEN 1 ELSE 0) * 2^w)
  BY <1>1
<1> QED BY <1>2, Zenon DEF x

LEMMA HighPartFact ==
  ASSUME NEW w \in Nat \ {0}, NEW a \in 0 .. 2^w - 1, NEW b \in 0 .. 2^w - 1
  PROVE  LET x == Signed(a, w)
             y == Signed(b, w)
         IN /\ (x * y) % 2^w = (a * b) % 2^w
            /\ HighPart(w, a, b, TRUE, TRUE) = ((x * y) \div 2^w) % 2^w
            /\ HighPart(w, a, b, TRUE, FALSE) = ((x * b) \div 2^w) % 2^w
            /\ HighPart(w, a, b, FALSE, FALSE) = ((a * b) \div 2^w) % 2^w
<1> DEFINE m == 2^w
           x == Signed(a, w)
           y == Signed(b, w)
           e == IF x < 0 THEN 1 ELSE 0
           f == IF y < 0 THEN 1 ELSE 0
           q == (x * y) \div m
           o == 0
<1>1. m \in Nat \ {0}
  BY Width
<1>2. x \in Int /\ a = x + (e * m) /\ y \in Int /\ b = y + (f * m)
  BY SignedWrap
<1>3. \A sa, sb \in BOOLEAN :
        HighPart(w, a, b, sa, sb) = (q + (IF ~sa /\ x < 0 THEN y ELSE 0) + (IF ~sb /\ y < 0 THEN x ELSE 0)) % m
  BY Zenon DEF HighPart
<1> HIDE DEF m, x, y
<1>4. x * y \in Int
  BY <1>2
<1>5. q \in Int
  BY <1>1, <1>4, ModDef
<1> HIDE DEF q
<1>6. /\ e \in Int /\ e * y = IF x < 0 THEN y ELSE 0
      /\ f \in Int /\ f * x = IF y < 0 THEN x ELSE 0
      /\ o \in Int /\ o * y = 0 /\ x = x + (o * m)
  BY <1>1, <1>2
<1>7. q + 0 + 0 = q
  BY <1>5
<1> HIDE DEF e, f, o
\* Multiples of the modulus in the factors.
<1> DEFINE W(d, g) == /\ (d * b) % m = (x * y) % m
                      /\ ((d * b) \div m) % m = (q + (g * y) + (f * x)) % m
<1>8. ASSUME NEW g \in Int, NEW d, d = x + (g * m)
      PROVE  W(d, g)
  <2> DEFINE z == x * y
             k == (g * y) + (f * x) + ((g * f) * m)
             u == d * b
             c == q + (g * y) + (f * x)
             j == g * f
  <2>1. z \in Int /\ k \in Int /\ j \in Int /\ k = (g * y) + (f * x) + (j * m)
    BY <1>1, <1>2, <1>6
  <2>2. u = z + (k * m)
    BY <1>1, <1>2, <1>6, <1>8
  <2>3. q = z \div m
    BY DEF q
  <2>4. c \in Int /\ q + k = c + (j * m)
    BY <1>1, <1>2, <1>5, <1>6, <2>1
  <2> HIDE DEF z, k, u, c, j
  <2>5. u % m = z % m /\ u \div m = q + k
    BY <1>1, <2>1, <2>2, <2>3, ModAdd, DivAdd
  <2>6. (c + (j * m)) % m = c % m
    BY <1>1, <2>1, <2>4, ModAdd
  <2> QED BY <2>4, <2>5, <2>6, Zenon DEF u, z, c
<1>9. W(a, e) /\ W(x, o)
  <2> HIDE DEF W
  <2> QED BY <1>2, <1>6, <1>8, Zenon
<1>10. HighPart(w, a, b, FALSE, FALSE) = (q + (e * y) + (f * x)) % m
  BY <1>3, <1>6
<1>11. HighPart(w, a, b, TRUE, FALSE) = (q + (o * y) + (f * x)) % m
  BY <1>3, <1>6
<1>12. HighPart(w, a, b, TRUE, TRUE) = (q + 0 + 0) % m
  BY <1>3
<1>13. HighPart(w, a, b, TRUE, TRUE) = q % m
  BY <1>7, <1>12, Zenon
<1> QED BY <1>9, <1>10, <1>11, <1>13, Zenon DEF m, x, y, q

\* The products that the code puts together from halves and magnitudes are the manual's, for
\* every width of int: MUL, MULH, MULHSU and MULHU of registers and of words.
\* (Math.hpp: mul_low, mul_high_unsigned64, mul_high_signed, mul_high_signed_unsigned;
\* ExecuteUnitInt.cpp: aluInt32, aluInt)
THEOREM MultipliesExact ==
  ASSUME NEW op \in MulOps
  PROVE  /\ \A a, b \in 0 .. 2^RegBits - 1 : MultiplicationOK(RegBits, op, a, b, multiply64(op, a, b))
         /\ \A a, b \in 0 .. 2^IntBits - 1 : MultiplicationOK(IntBits, op, a, b, multiply32(op, a, b))
<1>0. RegBits \in Nat \ {0} /\ IntBits \in Nat \ {0}
  BY RegWidth
<1>1. ASSUME NEW a \in 0 .. 2^RegBits - 1, NEW b \in 0 .. 2^RegBits - 1
      PROVE  MultiplicationOK(RegBits, op, a, b, multiply64(op, a, b))
  <2> DEFINE x == Signed(a, RegBits)
             y == Signed(b, RegBits)
             m == 2^RegBits
             p == a * b
  <2>1. /\ (x * y) % m = (a * b) % m
        /\ HighPart(RegBits, a, b, TRUE, TRUE) = ((x * y) \div m) % m
        /\ HighPart(RegBits, a, b, TRUE, FALSE) = ((x * b) \div m) % m
        /\ HighPart(RegBits, a, b, FALSE, FALSE) = ((a * b) \div m) % m
    BY <1>0, HighPartFact
  <2>2. /\ mul_low(a, b) = (a * b) % m
        /\ mul_high_signed(a, b) = ((x * y) \div m) % m
        /\ mul_high_signed_unsigned(a, b) = ((x * b) \div m) % m
        /\ mul_high_unsigned64(a, b) = ((a * b) \div m) % m
    BY MulLow, MulHighSigned, MulHighSignedUnsigned, SignMagnitude
  <2> HIDE DEF m
  <2>3. CASE op = "MUL"
    <3>1. multiply64(op, a, b) = mul_low(a, b)
      BY <2>3, Zenon DEF multiply64
    <3>2. MultiplicationOK(RegBits, op, a, b, mul_low(a, b)) <=> mul_low(a, b) = (x * y) % m
      BY <2>3, Zenon DEF MultiplicationOK, m
    <3> QED BY <2>1, <2>2, <3>1, <3>2, Zenon
  <2>4. CASE op = "MULH"
    <3>1. multiply64(op, a, b) = mul_high_signed(a, b)
      BY <2>4, Zenon DEF multiply64
    <3>2. MultiplicationOK(RegBits, op, a, b, mul_high_signed(a, b)) <=> mul_high_signed(a, b) = HighPart(RegBits, a, b, TRUE, TRUE)
      BY <2>4, Zenon DEF MultiplicationOK
    <3> QED BY <2>1, <2>2, <3>1, <3>2, Zenon
  <2>5. CASE op = "MULHSU"
    <3>1. multiply64(op, a, b) = mul_high_signed_unsigned(a, b)
      BY <2>5, Zenon DEF multiply64
    <3>2. MultiplicationOK(RegBits, op, a, b, mul_high_signed_unsigned(a, b))
            <=> mul_high_signed_unsigned(a, b) = HighPart(RegBits, a, b, TRUE, FALSE)
      BY <2>5, Zenon DEF MultiplicationOK
    <3> QED BY <2>1, <2>2, <3>1, <3>2, Zenon
  <2>6. CASE op = "MULHU"
    <3>1. multiply64(op, a, b) = mul_high_unsigned64(a, b)
      BY <2>6, Zenon DEF multiply64
    <3>2. MultiplicationOK(RegBits, op, a, b, mul_high_unsigned64(a, b))
            <=> mul_high_unsigned64(a, b) = HighPart(RegBits, a, b, FALSE, FALSE)
      BY <2>6, Zenon DEF MultiplicationOK
    <3> QED BY <2>1, <2>2, <3>1, <3>2, Zenon
  <2> QED BY <2>3, <2>4, <2>5, <2>6 DEF MulOps
<1>2. ASSUME NEW a \in 0 .. 2^IntBits - 1, NEW b \in 0 .. 2^IntBits - 1
      PROVE  MultiplicationOK(IntBits, op, a, b, multiply32(op, a, b))
  <2> DEFINE x == Signed(a, IntBits)
             y == Signed(b, IntBits)
             m == 2^IntBits
  <2>1. /\ (x * y) % m = (a * b) % m
        /\ HighPart(IntBits, a, b, TRUE, TRUE) = ((x * y) \div m) % m
        /\ HighPart(IntBits, a, b, TRUE, FALSE) = ((x * b) \div m) % m
        /\ HighPart(IntBits, a, b, FALSE, FALSE) = ((a * b) \div m) % m
    BY <1>0, HighPartFact
  <2>2. \A v : Low(v) = v % m
    BY Zenon DEF Low
  <2> HIDE DEF m
  <2>3. CASE op = "MUL"
    <3>1. multiply32(op, a, b) = Low(a * b)
      BY <2>3, Zenon DEF multiply32
    <3>2. \A v : MultiplicationOK(IntBits, op, a, b, v) <=> v = (x * y) % m
      BY <2>3, Zenon DEF MultiplicationOK, m
    <3> QED BY <2>1, <2>2, <3>1, <3>2, Zenon
  <2>4. CASE op = "MULH"
    <3>1. multiply32(op, a, b) = Low((x * y) \div m)
      BY <2>4, Zenon DEF multiply32, m
    <3>2. \A v : MultiplicationOK(IntBits, op, a, b, v) <=> v = HighPart(IntBits, a, b, TRUE, TRUE)
      BY <2>4, Zenon DEF MultiplicationOK
    <3> QED BY <2>1, <2>2, <3>1, <3>2, Zenon
  <2>5. CASE op = "MULHSU"
    <3>1. multiply32(op, a, b) = Low((x * b) \div m)
      BY <2>5, Zenon DEF multiply32, m
    <3>2. \A v : MultiplicationOK(IntBits, op, a, b, v) <=> v = HighPart(IntBits, a, b, TRUE, FALSE)
      BY <2>5, Zenon DEF MultiplicationOK
    <3> QED BY <2>1, <2>2, <3>1, <3>2, Zenon
  <2>6. CASE op = "MULHU"
    <3>1. multiply32(op, a, b) = Low((a * b) \div m)
      BY <2>6, Zenon DEF multiply32, m
    <3>2. \A v : MultiplicationOK(IntBits, op, a, b, v) <=> v = HighPart(IntBits, a, b, FALSE, FALSE)
      BY <2>6, Zenon DEF MultiplicationOK
    <3> QED BY <2>1, <2>2, <3>1, <3>2, Zenon
  <2> QED BY <2>3, <2>4, <2>5, <2>6 DEF MulOps
<1> QED BY <1>1, <1>2, Zenon

---------------------------------------------------------------------------
(* Quotients. *)

\* The quotient truncates: it is a quotient in the sense of the manual, and no larger than the
\* dividend.
LEMMA QuotientFact ==
  ASSUME NEW x \in Int, NEW y \in Int \ {0}
  PROVE  LET q == Quotient(x, y)
         IN /\ q \in Int
            /\ DivideOK(x, y, q, x - (q * y))
            /\ (IF q < 0 THEN -q ELSE q) * (IF y < 0 THEN -y ELSE y) <= (IF x < 0 THEN -x ELSE x)
<1> DEFINE ax == IF x < 0 THEN -x ELSE x
           ay == IF y < 0 THEN -y ELSE y
           n  == ax \div ay
           r  == ax % ay
           q  == Quotient(x, y)
           aq == IF q < 0 THEN -q ELSE q
           s  == x - (q * y)
           as == IF s < 0 THEN -s ELSE s
<1>1. ax \in Nat /\ ay \in Nat \ {0}
  OBVIOUS
<1>2. q = IF (x < 0) # (y < 0) THEN -n ELSE n
  BY Zenon DEF Quotient
<1>3. (x < 0 => ax = -x) /\ (x >= 0 => ax = x) /\ (y < 0 => ay = -y) /\ (y >= 0 => ay = y)
  OBVIOUS
<1> HIDE DEF ax, ay, q
<1>4. r \in 0 .. ay - 1 /\ n \in Int /\ ax = (ay * n) + r
  BY <1>1, ModDef
<1> HIDE DEF n, r
<1>5. n >= 0
  <2>1. n < 0 => ay * n <= -ay
    BY <1>1, <1>4
  <2> QED BY <1>1, <1>4, <2>1
<1>6. ay * n <= ax /\ ay * n \in Int
  BY <1>1, <1>4
<1>7. q \in Int /\ (q = n \/ q = -n)
  BY <1>2, <1>4
<1>8. aq = n
  BY <1>4, <1>5, <1>7
<1>9. (x >= 0 /\ s = r) \/ (x < 0 /\ s = -r)
  <2>1. CASE x >= 0 /\ y >= 0
    BY <1>1, <1>2, <1>3, <1>4, <2>1
  <2>2. CASE x >= 0 /\ y < 0
    BY <1>1, <1>2, <1>3, <1>4, <2>2
  <2>3. CASE x < 0 /\ y >= 0
    BY <1>1, <1>2, <1>3, <1>4, <2>3
  <2>4. CASE x < 0 /\ y < 0
    BY <1>1, <1>2, <1>3, <1>4, <2>4
  <2> QED BY <2>1, <2>2, <2>3, <2>4
<1>10. aq * ay <= ax
  BY <1>1, <1>4, <1>6, <1>8
<1>11. s \in Int /\ x = (q * y) + s
  BY <1>7
<1> HIDE DEF s
<1>12. as < ay /\ (s # 0 => (s < 0) = (x < 0))
  BY <1>1, <1>4, <1>9, <1>11
<1>13. DivideOK(x, y, q, s)
  BY <1>11, <1>12, Zenon DEF DivideOK, ay
<1> QED BY <1>7, <1>10, <1>13, Zenon DEF s, q, ax, ay

\* An exact quotient is found.
LEMMA QuotientExact ==
  ASSUME NEW q \in Int, NEW y \in Int \ {0}
  PROVE  Quotient(q * y, y) = q
<1> DEFINE x  == q * y
           ax == IF x < 0 THEN -x ELSE x
           ay == IF y < 0 THEN -y ELSE y
           aq == IF q < 0 THEN -q ELSE q
           n  == ax \div ay
<1>1. Quotient(x, y) = IF (x < 0) # (y < 0) THEN -n ELSE n
  BY Zenon DEF Quotient
<1>2. ay \in Nat \ {0} /\ aq \in Nat
  OBVIOUS
<1>3. CASE q = 0
  <2>1. x = 0
    BY <1>3
  <2>2. ax = 0
    BY <2>1
  <2>3. ax \in Int /\ 0 \in 0 .. ay - 1 /\ ax = (0 * ay) + 0
    BY <1>2, <2>2
  <2> HIDE DEF ax, ay
  <2>4. n = 0
    BY <1>2, <2>3, DivUnique
  <2> QED BY <1>1, <1>3, <2>4
<1>4. CASE q # 0
  <2>1. (x < 0) = ((q < 0) # (y < 0)) /\ x # 0 /\ x \in Int
    BY <1>4
  <2>2. ax = aq * ay
    BY <1>4, <2>1
  <2>3. ax \in Int /\ aq \in Int /\ 0 \in 0 .. ay - 1 /\ ax = (aq * ay) + 0
    BY <1>2, <2>1, <2>2
  <2> HIDE DEF ax, ay
  <2>4. n = aq
    BY <1>2, <2>3, DivUnique
  <2> QED BY <1>1, <2>1, <2>4
<1> QED BY <1>3, <1>4

\* The quotient of two signed numbers fits their width, but for the one overflow.
LEMMA QuotientFits ==
  ASSUME NEW h \in Nat \ {0}, NEW x \in -h .. h - 1, NEW y \in (-h .. h - 1) \ {0}, ~(x = -h /\ y = -1)
  PROVE  Quotient(x, y) \in -h .. h - 1
<1> DEFINE ax == IF x < 0 THEN -x ELSE x
           ay == IF y < 0 THEN -y ELSE y
           q  == Quotient(x, y)
           aq == IF q < 0 THEN -q ELSE q
<1>1. x \in Int /\ y \in Int \ {0}
  OBVIOUS
<1>2. q \in Int /\ DivideOK(x, y, q, x - (q * y)) /\ aq * ay <= ax
  BY <1>1, QuotientFact
<1>3. ax \in 0 .. h /\ ay \in 1 .. h
  OBVIOUS
<1> HIDE DEF q
<1>4. aq \in Nat
  BY <1>2
<1>5. CASE ay >= 2
  <2> HIDE DEF ax, ay, aq
  <2>1. aq * ay >= aq * 2
    BY <1>3, <1>4, <1>5
  <2>2. aq * ay \in Int
    BY <1>3, <1>4
  <2>3. aq < h
    BY <1>2, <1>3, <1>4, <2>1, <2>2
  <2> QED BY <1>2, <2>3 DEF aq, q
<1>6. CASE y = 1
  BY <1>2, <1>6 DEF DivideOK, q
<1>7. CASE y = -1
  BY <1>2, <1>7 DEF DivideOK, q
<1> QED BY <1>5, <1>6, <1>7

\* DIV, DIVU, REM and REMU are the manual's, for every width: quotients truncate, the remainder
\* has the sign of the dividend, and division by zero and the signed overflow have their
\* prescribed results. (ExecuteUnitInt.cpp: aluInt32, aluInt, aluIntW)
THEOREM DividesExact ==
  ASSUME NEW w \in Nat \ {0}, NEW op \in DivOps, NEW a \in 0 .. 2^w - 1, NEW b \in 0 .. 2^w - 1
  PROVE  DivisionOK(w, op, a, b, division(w, op, a, b))
<1> DEFINE m == 2^w
           h == 2^(w - 1)
           x == Signed(a, w)
           y == Signed(b, w)
           v == division(w, op, a, b)
           q == Quotient(x, y)
           r == x - (y * q)
<1>1. m \in Nat \ {0} /\ h \in Nat \ {0} /\ m = 2 * h
  BY Width
<1>2. /\ x \in -h .. h - 1 /\ (x < 0 <=> a >= h) /\ (x < 0 => x = a - m) /\ (x >= 0 => x = a)
      /\ y \in -h .. h - 1 /\ (y < 0 <=> b >= h) /\ (y < 0 => y = b - m) /\ (y >= 0 => y = b)
  BY SignedFact
<1>3. a \in 0 .. m - 1 /\ b \in 0 .. m - 1
  OBVIOUS
<1>4. ASSUME NEW t \in -h .. h - 1
      PROVE  Unsigned(t, w) \in 0 .. m - 1 /\ Signed(Unsigned(t, w), w) = t
  BY SignedUnsigned
<1> HIDE DEF m, h, x, y
<1>5. (a = h /\ b = m - 1) <=> (x = -h /\ y = -1)
  BY <1>1, <1>2, <1>3
<1>6. b = 0 <=> y = 0
  BY <1>1, <1>2, <1>3
<1>7. ASSUME b # 0, ~(x = -h /\ y = -1)
      PROVE  /\ q \in -h .. h - 1 /\ r \in -h .. h - 1
             /\ DivideOK(x, y, q, r) /\ x - (q * y) = r
             /\ x - r = q * y
  <2>1. x \in Int /\ y \in Int \ {0} /\ y \in (-h .. h - 1) \ {0}
    BY <1>1, <1>2, <1>6, <1>7
  <2>2. q \in -h .. h - 1
    BY <1>1, <1>2, <1>7, <2>1, QuotientFits
  <2>3. q \in Int /\ DivideOK(x, y, q, x - (q * y))
    BY <2>1, QuotientFact
  <2> HIDE DEF q
  <2>4. r \in Int /\ x - (q * y) = r /\ x - r = q * y
    BY <2>1, <2>3
  <2>5. DivideOK(x, y, q, r)
    BY <2>3, <2>4
  <2> HIDE DEF r
  <2>6. (IF r < 0 THEN -r ELSE r) < (IF y < 0 THEN -y ELSE y)
    BY <2>5, Zenon DEF DivideOK
  <2>7. r \in -h .. h - 1
    BY <1>1, <1>2, <2>4, <2>6
  <2> QED BY <2>2, <2>4, <2>5, <2>7
<1>8. CASE op = "DIV"
  <2>1. v = IF b = 0 THEN m - 1 ELSE IF a = h /\ b = m - 1 THEN a ELSE Unsigned(q, w)
    BY <1>8, Zenon DEF division, m, h, x, y
  <2>2. \A u : DivisionOK(w, op, a, b, u) <=>
               IF b = 0 THEN u = m - 1 ELSE IF x = -h /\ y = -1 THEN u = a
               ELSE DivideOK(x, y, Signed(u, w), x - (Signed(u, w) * y))
    BY <1>8, Zenon DEF DivisionOK, m, h, x, y
  <2>3. b # 0 /\ ~(x = -h /\ y = -1) => DivideOK(x, y, Signed(v, w), x - (Signed(v, w) * y))
    <3>1. b # 0 /\ ~(x = -h /\ y = -1) => v = Unsigned(q, w)
      BY <1>5, <2>1
    <3> HIDE DEF v, q, r
    <3> QED BY <1>4, <1>7, <3>1, Zenon
  <2> HIDE DEF v
  <2>4. /\ b = 0 => v = m - 1
        /\ b # 0 /\ x = -h /\ y = -1 => v = a
    BY <1>5, <2>1, Zenon
  <2>5. DivisionOK(w, op, a, b, v)
    BY <2>2, <2>3, <2>4, Zenon
  <2> QED BY <2>5 DEF v
<1>9. CASE op = "REM"
  <2>1. v = IF b = 0 THEN a ELSE IF a = h /\ b = m - 1 THEN 0 ELSE Unsigned(r, w)
    BY <1>9, Zenon DEF division, m, h, x, y
  <2>2. \A u : DivisionOK(w, op, a, b, u) <=>
               IF b = 0 THEN u = a ELSE IF y = -1 THEN u = 0
               ELSE \E k \in {Quotient(x - Signed(u, w), y)} : DivideOK(x, y, k, Signed(u, w))
    BY <1>9, Zenon DEF DivisionOK, m, h, x, y
  <2>3. b # 0 /\ ~(x = -h /\ y = -1) => v = Unsigned(r, w)
    BY <1>5, <2>1
  <2>4. b # 0 /\ y = -1 => v = 0
    <3>1. CASE b # 0 /\ x = -h /\ y = -1
      BY <1>5, <2>1, <3>1
    <3>2. CASE b # 0 /\ x # -h /\ y = -1
      <4>1. (IF r < 0 THEN -r ELSE r) < 1 /\ r \in Int
        <5>1. DivideOK(x, y, q, r) /\ r \in -h .. h - 1
          BY <1>7, <3>2, Zenon
        <5> HIDE DEF q, r
        <5> QED BY <1>1, <3>2, <5>1 DEF DivideOK
      <4> HIDE DEF r
      <4>2. r = 0
        BY <4>1
      <4>3. Unsigned(0, w) = 0
        BY <1>1, ModSmall DEF Unsigned, m
      <4> QED BY <2>3, <3>2, <4>2, <4>3
    <3> QED BY <3>1, <3>2, Zenon
  <2>5. ASSUME b # 0, y # -1
        PROVE  \E k \in {Quotient(x - Signed(v, w), y)} : DivideOK(x, y, k, Signed(v, w))
    <3> HIDE DEF v, r, q
    <3>1. q \in -h .. h - 1 /\ r \in -h .. h - 1 /\ DivideOK(x, y, q, r) /\ x - r = q * y
      BY <1>7, <2>5, Zenon
    <3>2. Signed(v, w) = r
      BY <1>4, <2>3, <2>5, <3>1, Zenon
    <3>3. q \in Int /\ y \in Int \ {0}
      BY <1>1, <1>2, <1>6, <2>5, <3>1
    <3>4. Quotient(q * y, y) = q
      BY <3>3, QuotientExact
    <3> QED BY <3>1, <3>2, <3>4, Zenon
  <2> HIDE DEF v
  <2>6. DivisionOK(w, op, a, b, v)
    BY <2>1, <2>2, <2>4, <2>5, Zenon
  <2> QED BY <2>6 DEF v
<1>10. CASE op = "DIVU"
  <2>1. v = IF b = 0 THEN m - 1 ELSE a \div b
    BY <1>10, Zenon DEF division, m
  <2>2. \A u : DivisionOK(w, op, a, b, u) <=> IF b = 0 THEN u = m - 1 ELSE (u * b) <= a /\ a - (u * b) < b
    BY <1>10, Zenon DEF DivisionOK, m
  <2> DEFINE u == a \div b
  <2>3. b # 0 => u * b <= a /\ a - (u * b) < b
    <3>1. ASSUME b # 0
          PROVE  u \in Int /\ a % b \in 0 .. b - 1 /\ a = (b * u) + (a % b)
      BY <1>1, <1>3, <3>1, ModDef
    <3> DEFINE t == a % b
    <3> HIDE DEF u, t
    <3> QED BY <1>1, <1>3, <3>1 DEF t
  <2> HIDE DEF v, u
  <2>4. DivisionOK(w, op, a, b, v)
    BY <2>1, <2>2, <2>3, Zenon DEF u
  <2> QED BY <2>4 DEF v
<1>11. CASE op = "REMU"
  <2>1. v = IF b = 0 THEN a ELSE a % b
    BY <1>11, Zenon DEF division
  <2>2. \A u : DivisionOK(w, op, a, b, u) <=> IF b = 0 THEN u = a ELSE u < b /\ (a - u) % b = 0 /\ u <= a
    BY <1>11, Zenon DEF DivisionOK
  <2> DEFINE u == a % b
             t == a \div b
             d == a - u
  <2>3. ASSUME b # 0
        PROVE  u < b /\ d % b = 0 /\ u <= a
    <3>1. b \in Nat \ {0} /\ u \in 0 .. b - 1 /\ t \in Int /\ a = (b * t) + u
      BY <1>1, <1>3, <2>3, ModDef
    <3> HIDE DEF u, t
    <3>2. d \in Int /\ 0 \in 0 .. b - 1 /\ d = (t * b) + 0
      BY <1>1, <1>3, <3>1
    <3> HIDE DEF d
    <3>3. d % b = 0
      BY <3>1, <3>2, ModUnique
    <3>4. t >= 0
      <4>1. t < 0 => b * t <= -b
        BY <3>1
      <4> QED BY <1>1, <1>3, <3>1, <4>1
    <3>5. b * t >= 0
      BY <3>1, <3>4
    <3> QED BY <1>1, <1>3, <3>1, <3>3, <3>5
  <2> HIDE DEF v, u
  <2>4. DivisionOK(w, op, a, b, v)
    BY <2>1, <2>2, <2>3, Zenon DEF u
  <2> QED BY <2>4 DEF v
<1> QED BY <1>8, <1>9, <1>10, <1>11 DEF DivOps

---------------------------------------------------------------------------
(* The vector unit's element arithmetic. *)

\* A sum that wraps, below twice the modulus.
LEMMA WrappedSum ==
  ASSUME NEW m \in Nat \ {0}, NEW s \in 0 .. (2 * m) - 1
  PROVE  s % m = IF s >= m THEN s - m ELSE s
<1>1. CASE s >= m
  <2> DEFINE r == s - m
             j == 1
  <2>1. s \in Int /\ r \in 0 .. m - 1 /\ j \in Int /\ s = (j * m) + r
    BY <1>1
  <2> HIDE DEF r, j
  <2>2. s % m = r
    BY <2>1, ModUnique
  <2> QED BY <1>1, <2>2 DEF r
<1>2. CASE s < m
  BY <1>2, ModSmall
<1> QED BY <1>1, <1>2

\* The comparisons that the code makes after a sum has wrapped, or before a difference is taken,
\* find the carry and the borrow, for every element width and both carries in.
\* (VectorHelpers.hpp: calc_carry_out, calc_borrow_out)
THEOREM CarriesExact ==
  ASSUME NEW M \in Nat \ {0}, NEW val2 \in 0 .. M - 1, NEW val1 \in 0 .. M - 1, NEW c \in BOOLEAN
  PROVE  LET n == IF c THEN 1 ELSE 0
         IN /\ calc_carry_out(M, val2, val1, c) <=> val2 + val1 + n >= M
            /\ calc_borrow_out(M, val2, val1, c) <=> val2 - val1 - n < 0
<1> DEFINE n == IF c THEN 1 ELSE 0
           s == val2 + val1 + n
<1>1. s \in 0 .. (2 * M) - 1
  OBVIOUS
<1>2. CarrySum(M, val2, val1, c) = s % M
  BY Zenon DEF CarrySum
<1>3. s = val2 + val1 + n
  OBVIOUS
<1> HIDE DEF s
<1>4. CarrySum(M, val2, val1, c) = IF s >= M THEN s - M ELSE s
  BY <1>1, <1>2, WrappedSum
<1>5. calc_carry_out(M, val2, val1, c) <=> s >= M
  BY <1>1, <1>3, <1>4 DEF calc_carry_out
<1>6. calc_borrow_out(M, val2, val1, c) <=> val2 - val1 - n < 0
  BY DEF calc_borrow_out
<1> QED BY <1>3, <1>5, <1>6

\* Unsigned saturation, which the code recognises by the wrapped sum or by comparison, is the
\* exact result clipped to the range of the element. (sat_add_unsigned, sat_sub_unsigned)
THEOREM SaturatesExact ==
  ASSUME NEW M \in Nat \ {0}, NEW a \in 0 .. M - 1, NEW b \in 0 .. M - 1
  PROVE  /\ sat_add_unsigned(M, a, b) = Clip(a + b, 0, M - 1)
         /\ sat_sub_unsigned(M, a, b) = Clip(a - b, 0, M - 1)
<1> DEFINE s == a + b
           t == s % M
<1>1. s \in 0 .. (2 * M) - 1 /\ s = a + b
  OBVIOUS
<1>2. sat_add_unsigned(M, a, b) = IF t < a THEN [val |-> M - 1, sat |-> TRUE] ELSE [val |-> t, sat |-> FALSE]
  BY Zenon DEF sat_add_unsigned
<1>3. Clip(a + b, 0, M - 1) =
        [val |-> IF s < 0 THEN 0 ELSE IF s > M - 1 THEN M - 1 ELSE s, sat |-> s < 0 \/ s > M - 1]
  BY Zenon DEF Clip
<1> HIDE DEF s
<1>4. t = IF s >= M THEN s - M ELSE s
  BY <1>1, WrappedSum
<1> HIDE DEF t
<1>5. sat_add_unsigned(M, a, b) = Clip(a + b, 0, M - 1)
  <2>1. CASE s >= M
    <3>1. t < a /\ ~(s < 0) /\ s > M - 1
      BY <1>1, <1>4, <2>1
    <3> QED BY <1>2, <1>3, <3>1, Zenon
  <2>2. CASE ~(s >= M)
    <3>1. t = s /\ ~(t < a) /\ ~(s < 0) /\ ~(s > M - 1)
      BY <1>1, <1>4, <2>2
    <3> QED BY <1>2, <1>3, <3>1, Zenon
  <2> QED BY <2>1, <2>2, Zenon
<1>6. sat_sub_unsigned(M, a, b) = Clip(a - b, 0, M - 1)
  <2> DEFINE e == a - b
  <2>1. e = a - b /\ e \in Int /\ ~(e > M - 1) /\ (e < 0 <=> a < b)
    OBVIOUS
  <2>2. Clip(a - b, 0, M - 1) =
          [val |-> IF e < 0 THEN 0 ELSE IF e > M - 1 THEN M - 1 ELSE e, sat |-> e < 0 \/ e > M - 1]
    BY Zenon DEF Clip
  <2>3. sat_sub_unsigned(M, a, b) = IF a < b THEN [val |-> 0, sat |-> TRUE] ELSE [val |-> e, sat |-> FALSE]
    BY Zenon DEF sat_sub_unsigned
  <2> HIDE DEF e
  <2>4. CASE a < b
    BY <2>1, <2>2, <2>3, <2>4, Zenon
  <2>5. CASE ~(a < b)
    BY <2>1, <2>2, <2>3, <2>5, Zenon
  <2> QED BY <2>4, <2>5, Zenon
<1> QED BY <1>5, <1>6

---------------------------------------------------------------------------
(* Rounding. *)

LEMMA PowerMono ==
  ASSUME NEW m \in Nat, NEW n \in Nat, m <= n
  PROVE  2^m <= 2^n
<1> DEFINE k == n - m
<1>1. k \in Nat /\ n = m + k
  OBVIOUS
<1> HIDE DEF k
<1>2. 2^n = 2^m * 2^k /\ 2^m \in Nat \ {0} /\ 2^k \in Nat \ {0}
  BY <1>1, PowerAdd, PowerType
<1> DEFINE a == 2^m
           b == 2^k
<1>3. a * b >= a
  <2>1. a \in Nat \ {0} /\ b \in Nat \ {0}
    BY <1>2
  <2> HIDE DEF a, b
  <2> QED BY <2>1
<1> QED BY <1>2, <1>3

\* What a shift by d keeps and what it shifts out: the highest bit t and the others u.
LEMMA ShiftParts ==
  ASSUME NEW v \in Int, NEW d \in Nat \ {0}
  PROVE  LET g == 2^d
             h == 2^(d - 1)
             t == BitAt(v, d - 1)
         IN /\ h \in Nat \ {0} /\ g = 2 * h
            /\ v \div g \in Int /\ t \in {0, 1} /\ v % h \in 0 .. h - 1
            /\ v % g = (t * h) + (v % h)
            /\ (v + h) \div g = (v \div g) + t
<1> DEFINE g == 2^d
           h == 2^(d - 1)
           q == v \div g
           f == v % g
           t == IF f >= h THEN 1 ELSE 0
           u == f - (t * h)
           k == (2 * q) + t
           x == v + h
           y == IF f >= h THEN f - h ELSE f + h
<1>1. g \in Nat \ {0} /\ h \in Nat \ {0} /\ g = 2 * h
  BY Width
<1>2. BitAt(v, d - 1) = (v \div h) % 2
  BY Zenon DEF BitAt
<1> HIDE DEF g, h
<1>3. q \in Int /\ f \in 0 .. g - 1 /\ v = (g * q) + f
  BY <1>1, ModDef
<1> HIDE DEF q, f
<1>4. t \in {0, 1} /\ u \in 0 .. h - 1 /\ k \in Int /\ f = (t * h) + u
  BY <1>1, <1>3
<1>5. v = (k * h) + u
  BY <1>1, <1>3
<1>6. y \in 0 .. g - 1 /\ x \in Int /\ q + t \in Int /\ x = ((q + t) * g) + y
  BY <1>1, <1>3
<1>7. k = (q * 2) + t /\ t \in 0 .. 2 - 1 /\ 2 \in Nat \ {0}
  BY <1>3, <1>4
<1> HIDE DEF t, u, k, x, y
<1>8. v \div h = k /\ v % h = u
  BY <1>1, <1>4, <1>5, DivUnique, ModUnique
<1>9. k % 2 = t
  BY <1>3, <1>4, <1>7, ModUnique
<1>10. x \div g = q + t
  <2> DEFINE p == q + t
  <2> HIDE DEF p
  <2>1. p \in Int /\ x = (p * g) + y
    BY <1>6 DEF p
  <2>2. x \div g = p
    BY <1>1, <1>6, <2>1, DivUnique
  <2> QED BY <2>2 DEF p
<1>11. BitAt(v, d - 1) = t
  BY <1>2, <1>8, <1>9
<1> QED BY <1>1, <1>3, <1>4, <1>8, <1>10, <1>11, Zenon DEF g, h, q, f, x

\* The width of the type that v + round_bit is computed in, and does the sum fit it?
TypeBits(w) == IF w < IntBits THEN IntBits ELSE w
BiasFits(v, d, w, sg) == v + 2^(d - 1) <= LimitMax(TypeBits(w), sg)

LEMMA BiasedFact ==
  ASSUME NEW w \in Nat \ {0}, NEW d \in 1 .. w, NEW sg \in BOOLEAN, NEW v \in LimitMin(w, sg) .. LimitMax(w, sg)
  PROVE  /\ v \in Int /\ TypeBits(w) \in Nat \ {0} /\ w <= TypeBits(w)
         /\ BiasFits(v, d, w, sg) => Biased(v, d, w, sg) = v + 2^(d - 1)
         /\ ~BiasFits(v, d, w, sg) => Biased(v, d, w, sg) = v + 2^(d - 1) - 2^TypeBits(w)
         /\ w < IntBits => BiasFits(v, d, w, sg)
<1> DEFINE b == TypeBits(w)
           B == 2^b
           H == 2^(b - 1)
           W == 2^w
           V == 2^(w - 1)
           h == 2^(d - 1)
           x == v + h
<1>1. b \in Nat \ {0} /\ w <= b /\ (w < IntBits => w <= b - 1 /\ b - 1 \in Nat)
  BY FixedPointAssumption DEF TypeBits
<1>2. /\ BiasFits(v, d, w, sg) <=> x <= LimitMax(b, sg)
      /\ Biased(v, d, w, sg) = IF sg THEN Signed(x % B, b) ELSE x % B
  BY Zenon DEF BiasFits, Biased, TypeBits
<1> HIDE DEF b
<1>3. /\ B \in Nat \ {0} /\ H \in Nat \ {0} /\ B = 2 * H
      /\ W \in Nat \ {0} /\ V \in Nat \ {0} /\ W = 2 * V
      /\ h \in Nat \ {0}
  BY <1>1, Width, PowerType
<1>4. h <= V /\ W <= B /\ (w < IntBits => W <= H)
  BY <1>1, PowerMono
<1>5. V <= H
  BY <1>3, <1>4
<1>6. x % B = Unsigned(x, b) /\ \A u : Signed(u, b) = IF u >= H THEN u - B ELSE u
  BY DEF Unsigned, Signed
<1>7. CASE sg
  <2>1. v \in -V .. V - 1 /\ LimitMax(b, sg) = H - 1
    BY <1>7 DEF LimitMin, LimitMax
  <2>2. Biased(v, d, w, sg) = Signed(x % B, b)
    BY <1>2, <1>7, Zenon
  <2>3. x \in Int /\ x >= -H /\ x < B /\ (w < IntBits => x <= H - 1)
    <3> HIDE DEF B, H, W, V, h
    <3> QED BY <1>3, <1>4, <1>5, <2>1
  <2>4. x <= H - 1 => Signed(x % B, b) = x
    <3>1. x <= H - 1 => x \in -H .. H - 1
      BY <1>3, <2>3
    <3> HIDE DEF x
    <3> QED BY <1>1, <1>6, <3>1, SignedUnsigned
  <2>5. ~(x <= H - 1) => Signed(x % B, b) = x - B
    <3> HIDE DEF x, B, H
    <3>1. ~(x <= H - 1) => x \in 0 .. B - 1 /\ x >= H
      BY <1>3, <2>3
    <3>2. ~(x <= H - 1) => x % B = x
      BY <1>3, <3>1, ModSmall
    <3> QED BY <1>6, <3>1, <3>2
  <2> HIDE DEF B, H, W, V
  <2>6. v \in Int
    BY <1>3, <2>1
  <2> HIDE DEF x, h
  <2>7. /\ BiasFits(v, d, w, sg) => Biased(v, d, w, sg) = x
        /\ ~BiasFits(v, d, w, sg) => Biased(v, d, w, sg) = x - B
        /\ w < IntBits => BiasFits(v, d, w, sg)
    BY <1>2, <2>1, <2>2, <2>3, <2>4, <2>5
  <2> QED BY <1>1, <2>6, <2>7 DEF b, x, h, B
<1>8. CASE ~sg
  <2>1. v \in 0 .. W - 1 /\ LimitMax(b, sg) = B - 1
    BY <1>8 DEF LimitMin, LimitMax
  <2>2. Biased(v, d, w, sg) = x % B
    BY <1>2, <1>8, Zenon
  <2> HIDE DEF B, H, W, V, h
  <2>3. x \in 0 .. (2 * B) - 1 /\ (w < IntBits => x <= B - 1)
    BY <1>3, <1>4, <1>5, <2>1
  <2>4. v \in Int
    BY <1>3, <2>1
  <2> HIDE DEF x
  <2>5. x % B = IF x >= B THEN x - B ELSE x
    BY <1>3, <2>3, WrappedSum
  <2>6. /\ BiasFits(v, d, w, sg) => Biased(v, d, w, sg) = x
        /\ ~BiasFits(v, d, w, sg) => Biased(v, d, w, sg) = x - B
        /\ w < IntBits => BiasFits(v, d, w, sg)
    BY <1>2, <1>3, <2>1, <2>2, <2>3, <2>5
  <2> QED BY <1>1, <2>4, <2>6 DEF b, x, h, B
<1> QED BY <1>7, <1>8, Zenon

\* A rounded shift is the architecture's, for every width, amount, signedness and rounding mode,
\* when the sum of the value and the rounding bit fits the type it is computed in; it always does
\* in types narrower than int, which are promoted; where it does not fit, rounding to nearest-up
\* is wrong. (VectorHelpers.hpp: the rounding of round_and_clip)
THEOREM RoundsExact ==
  ASSUME NEW w \in Nat \ {0}, NEW d \in 0 .. w, NEW sg \in BOOLEAN, NEW vxrm \in 0 .. 3,
         NEW v \in LimitMin(w, sg) .. LimitMax(w, sg)
  PROVE  /\ d = 0 \/ vxrm \in {2, 3} \/ BiasFits(v, d, w, sg) \/ w < IntBits
              => Rounded(v, d, vxrm, w, sg) = RoundReference(v, d, vxrm)
         /\ d # 0 /\ vxrm = 0 /\ ~BiasFits(v, d, w, sg)
              => Rounded(v, d, vxrm, w, sg) # RoundReference(v, d, vxrm)
<1>1. CASE d = 0
  <2>0. ~(d > 0)
    BY <1>1
  <2>1. Rounded(v, d, vxrm, w, sg) = v
    BY <1>1, <2>0, Zenon DEF Rounded
  <2>2. RoundReference(v, d, vxrm) = (v \div 2^0) + 0
    <3>1. Increment(v, d, vxrm) = 0
      BY <1>1, <2>0, Zenon DEF Increment
    <3> QED BY <1>1, <3>1, Zenon DEF RoundReference
  <2>3. v \in Int
    <3>1. 2^w \in Int /\ 2^(w - 1) \in Int
      BY Width
    <3> QED BY <3>1 DEF LimitMin, LimitMax
  <2>4. (v \div 2^0) + 0 = v
    BY <2>3
  <2> QED BY <1>1, <2>1, <2>2, <2>4
<1>2. CASE d # 0
  <2> DEFINE g == 2^d
             h == 2^(d - 1)
             q == v \div g
             f == v % g
             t == BitAt(v, d - 1)
             u == v % h
             c == BitAt(v, d)
             x == Biased(v, d, w, sg)
             up == x \div g
             R == Rounded(v, d, vxrm, w, sg)
             I == Increment(v, d, vxrm)
  <2>1. d \in 1 .. w /\ d \in Nat \ {0} /\ d > 0
    BY <1>2
  <2>2. v \in Int
    BY <2>1, BiasedFact
  <2>3. /\ h \in Nat \ {0} /\ g = 2 * h
        /\ q \in Int /\ t \in {0, 1} /\ u \in 0 .. h - 1
        /\ f = (t * h) + u
        /\ (v + h) \div g = q + t
    BY <2>1, <2>2, ShiftParts
  <2>4. c = q % 2
    BY Zenon DEF BitAt
  <2>5. c \in {0, 1}
    BY <2>3, <2>4
  <2>6. RoundReference(v, d, vxrm) = q + I
    BY Zenon DEF RoundReference
  <2>7. (BiasFits(v, d, w, sg) \/ w < IntBits) => x = v + h
    BY <2>1, BiasedFact
  <2>8. (BiasFits(v, d, w, sg) \/ w < IntBits) => up = q + t
    <3> HIDE DEF x, q, t
    <3> QED BY <2>3, <2>7
  <2>9. CASE vxrm = 0
    <3>1. vxrm # 1 /\ vxrm # 2 /\ vxrm # 3 /\ vxrm \notin {2, 3}
      BY <2>9
    <3>2. R = up
      BY <1>2, <2>1, <2>9, <3>1, Zenon DEF Rounded
    <3>3. I = t
      BY <1>2, <2>1, <2>9, <3>1, Zenon DEF Increment
    <3>4. ~BiasFits(v, d, w, sg) => up # q + t
      <4> DEFINE b == TypeBits(w)
                 B == 2^b
                 e == b - d
                 E == 2^e
                 y == v + h
                 k == -E
      <4>1. b \in Nat \ {0} /\ w <= b /\ (~BiasFits(v, d, w, sg) => x = y - B)
        BY <2>1, BiasedFact
      <4> HIDE DEF b
      <4>2. e \in Nat /\ b = e + d
        BY <2>1, <4>1
      <4> HIDE DEF e
      <4>3. B = E * g /\ E \in Nat \ {0} /\ g \in Nat \ {0}
        BY <2>1, <4>2, PowerAdd, PowerType
      <4> HIDE DEF B, E, g, h, x, y
      <4>4. y \in Int /\ k \in Int /\ y - B = y + (k * g)
        BY <2>2, <2>3, <4>3 DEF y
      <4> HIDE DEF k
      <4>5. (y + (k * g)) \div g = (y \div g) + k
        BY <4>3, <4>4, DivAdd
      <4>6. ~BiasFits(v, d, w, sg) => up = (y \div g) + k
        BY <4>1, <4>4, <4>5
      <4> HIDE DEF q, t, up
      <4> QED BY <2>3, <4>3, <4>6 DEF y, k
    <3> HIDE DEF R, I, up, q, t
    <3>5. (BiasFits(v, d, w, sg) \/ w < IntBits => R = q + I) /\ (~BiasFits(v, d, w, sg) => R # q + I)
      BY <2>8, <3>2, <3>3, <3>4, Zenon
    <3> QED BY <1>2, <2>6, <3>1, <3>5, Zenon DEF R
  <2>10. CASE vxrm = 1
    <3>1. vxrm # 0 /\ vxrm # 2 /\ vxrm # 3 /\ vxrm \notin {2, 3}
      BY <2>10
    <3>2. R = IF f = h THEN q + (q % 2) ELSE up
      BY <1>2, <2>1, <2>10, <3>1, Zenon DEF Rounded
    <3>3. I = IF t = 1 /\ (u # 0 \/ c = 1) THEN 1 ELSE 0
      BY <1>2, <2>1, <2>10, <3>1, Zenon DEF Increment
    <3> HIDE DEF R, I, up, q, t, f, u, c, h, g
    <3>4. CASE f = h
      <4>1. t = 1 /\ u = 0
        BY <2>3, <3>4
      <4>2. I = c
        BY <2>5, <3>3, <4>1
      <4>3. R = q + I
        BY <2>4, <3>2, <3>4, <4>2, Zenon
      <4> QED BY <2>6, <3>1, <4>3, Zenon DEF R
    <3>5. CASE f # h
      <4>1. t = 1 => u # 0
        BY <2>3, <3>5
      <4>2. I = t
        BY <2>3, <3>3, <4>1
      <4>3. BiasFits(v, d, w, sg) \/ w < IntBits => R = q + I
        BY <2>8, <3>2, <3>5, <4>2, Zenon
      <4> QED BY <1>2, <2>6, <3>1, <4>3, Zenon DEF R
    <3> QED BY <3>4, <3>5, Zenon
  <2>11. CASE vxrm = 2
    <3>1. vxrm # 0 /\ vxrm # 1 /\ vxrm # 3
      BY <2>11
    <3>2. R = q
      BY <1>2, <2>1, <2>11, <3>1, Zenon DEF Rounded
    <3>3. I = 0
      BY <1>2, <2>1, <2>11, <3>1, Zenon DEF Increment
    <3> HIDE DEF R, I, q
    <3>4. R = q + I
      BY <2>3, <3>2, <3>3
    <3> QED BY <2>6, <3>1, <3>4, Zenon DEF R
  <2>12. CASE vxrm = 3
    <3>1. vxrm # 0 /\ vxrm # 1 /\ vxrm # 2
      BY <2>12
    <3>2. R = IF f # 0 /\ q % 2 = 0 THEN q + 1 ELSE q
      BY <1>2, <2>1, <2>12, <3>1, Zenon DEF Rounded
    <3>3. I = IF c = 0 /\ f # 0 THEN 1 ELSE 0
      BY <1>2, <2>1, <2>12, <3>1, Zenon DEF Increment
    <3> HIDE DEF R, I, q, c, f
    <3>4. R = q + I
      BY <2>3, <2>4, <3>2, <3>3
    <3> QED BY <2>6, <3>1, <3>4, Zenon DEF R
  <2> QED BY <2>9, <2>10, <2>11, <2>12
<1> QED BY <1>1, <1>2

\* The fractional product of two elements is the architecture's, for every width and rounding
\* mode: the product of the wider type leaves room for the rounding bit. (execute_vsmul_element)
THEOREM SmulExact ==
  ASSUME NEW w \in Nat \ {0, 1}, NEW vxrm \in 0 .. 3,
         NEW a \in LimitMin(w, TRUE) .. LimitMax(w, TRUE), NEW b \in LimitMin(w, TRUE) .. LimitMax(w, TRUE)
  PROVE  execute_vsmul_element(w, a, b, vxrm) =
           Clip(RoundReference(a * b, w - 1, vxrm), LimitMin(w, TRUE), LimitMax(w, TRUE))
<1> DEFINE p == 2 * w
           d == w - 1
           V == 2^(w - 1)
           W == 2^(p - 1)
           h == 2^(d - 1)
           v == a * b
           T == 2^(TypeBits(p) - 1)
<1>1. /\ p \in Nat \ {0} /\ d \in 0 .. p /\ d \in Nat /\ d - 1 \in Nat /\ d + d + 1 = p - 1 /\ p - 1 \in Nat
      /\ d = (d - 1) + 1
  OBVIOUS
<1>2. V \in Nat \ {0} /\ h \in Nat \ {0} /\ V = 2 * h
  BY <1>1, Width
<1>3. W = 2 * (V * V)
  <2>1. d + d \in Nat
    BY <1>1
  <2>2. 2^(d + d) = 2^d * 2^d
    BY <1>1, PowerAdd
  <2>3. 2^((d + d) + 1) = 2 * 2^(d + d)
    BY <2>1, PowerNext
  <2> QED BY <1>1, <2>2, <2>3
<1>4. W <= T /\ TypeBits(p) - 1 \in Nat /\ TypeBits(p) >= p
  <2>1. TypeBits(p) - 1 \in Nat /\ p - 1 <= TypeBits(p) - 1 /\ TypeBits(p) >= p
    BY <1>1, FixedPointAssumption DEF TypeBits
  <2> DEFINE k == TypeBits(p) - 1
             j == p - 1
  <2>2. k \in Nat /\ j \in Nat /\ j <= k
    BY <1>1, <2>1
  <2> HIDE DEF k, j
  <2>3. 2^j <= 2^k
    BY <2>2, PowerMono
  <2> QED BY <2>1, <2>3 DEF k, j
<1>5. T \in Nat \ {0}
  BY <1>4, PowerType
<1>6. a \in -V .. V - 1 /\ b \in -V .. V - 1
  BY DEF LimitMin, LimitMax
<1>7. LimitMin(p, TRUE) = -W /\ LimitMax(p, TRUE) = W - 1 /\ LimitMax(TypeBits(p), TRUE) = T - 1
  BY Zenon DEF LimitMin, LimitMax
<1>8. execute_vsmul_element(w, a, b, vxrm) = Clip(Rounded(v, d, vxrm, p, TRUE), LimitMin(w, TRUE), LimitMax(w, TRUE))
  BY Zenon DEF execute_vsmul_element
<1>9. BiasFits(v, d, p, TRUE) <=> v + h <= LimitMax(TypeBits(p), TRUE)
  BY Zenon DEF BiasFits
<1> HIDE DEF p, d, V, W, h, T
<1>10. v \in Int /\ v <= V * V /\ v >= -(V * V)
  <2>1. a \in Int /\ b \in Int
    BY <1>2, <1>6
  <2> DEFINE aa == IF a < 0 THEN -a ELSE a
             ab == IF b < 0 THEN -b ELSE b
  <2>2. aa \in 0 .. V /\ ab \in 0 .. V
    BY <1>2, <1>6
  <2>3. v = aa * ab \/ v = -(aa * ab)
    BY <2>1
  <2> HIDE DEF aa, ab, v
  <2>4. aa * ab <= V * ab
    BY <1>2, <2>2
  <2>5. V * ab <= V * V
    BY <1>2, <2>2
  <2>6. aa * ab \in Nat /\ V * ab \in Int /\ V * V \in Int
    BY <1>2, <2>2
  <2> QED BY <2>3, <2>4, <2>5, <2>6
<1> HIDE DEF v
<1>11. V * V > h
  <2>1. V * V >= V * 1
    BY <1>2
  <2>2. V * V \in Int
    BY <1>2
  <2> QED BY <1>2, <2>1, <2>2
<1> DEFINE s == V * V
<1>12. s \in Int
  BY <1>2
<1>13. v \in LimitMin(p, TRUE) .. LimitMax(p, TRUE) /\ BiasFits(v, d, p, TRUE)
  <2>1. W = 2 * s /\ s > h /\ v <= s /\ v >= -s /\ v \in Int
    BY <1>3, <1>10, <1>11
  <2> HIDE DEF s
  <2>2. h \in Nat \ {0} /\ W \in Int /\ W <= T
    BY <1>2, <1>4, <1>12, <2>1
  <2>3. v \in -W .. W - 1 /\ v + h <= T - 1
    BY <1>5, <1>12, <2>1, <2>2
  <2> QED BY <1>7, <1>9, <2>3, Zenon
<1>14. Rounded(v, d, vxrm, p, TRUE) = RoundReference(v, d, vxrm)
  <2>1. TRUE \in BOOLEAN
    OBVIOUS
  <2> QED BY <1>1, <1>13, <2>1, RoundsExact, Zenon
<1> QED BY <1>8, <1>14, Zenon DEF v, d

---------------------------------------------------------------------------
(* A narrow hart in a wide build: registers hold sign-extended words. *)

LEMMA SextFact ==
  ASSUME NEW v \in 0 .. 2^RegBits - 1, Sext(v) = v
  PROVE  LET x == Signed(Low(v), IntBits)
         IN /\ Low(v) \in 0 .. 2^IntBits - 1
            /\ Signed(v, RegBits) = x
            /\ x \in -(2^(IntBits - 1)) .. 2^(IntBits - 1) - 1
            /\ v = IF x < 0 THEN x + 2^RegBits ELSE x
            /\ Low(v) = IF x < 0 THEN x + 2^IntBits ELSE x
<1> DEFINE u == Low(v)
           x == Signed(u, IntBits)
           h == 2^(IntBits - 1)
           H == 2^(RegBits - 1)
           m == 2^RegBits
           b == 2^IntBits
<1>1. IntBits \in Nat \ {0} /\ RegBits \in Nat \ {0} /\ IntBits - 1 \in Nat /\ RegBits - 1 \in Nat
      /\ IntBits - 1 <= RegBits - 1
  BY RegWidth DEF RegBits
<1>2. u \in 0 .. b - 1
  BY Halves
<1> HIDE DEF u
<1>3. x \in -h .. h - 1 /\ (x < 0 => x = u - b) /\ (x >= 0 => x = u)
  BY <1>1, <1>2, SignedFact
<1>4. h <= H
  <2> DEFINE i == IntBits - 1
             j == RegBits - 1
  <2>1. i \in Nat /\ j \in Nat /\ i <= j
    BY <1>1
  <2> HIDE DEF i, j
  <2>2. 2^i <= 2^j
    BY <2>1, PowerMono
  <2> QED BY <2>2 DEF i, j
<1>5. h \in Nat \ {0} /\ H \in Nat \ {0} /\ m \in Nat \ {0} /\ b \in Nat \ {0}
  BY <1>1, Width
<1>6. v = Unsigned(x, RegBits)
  BY Zenon DEF Sext, u
<1> HIDE DEF x
<1>7. x \in -H .. H - 1
  <2> HIDE DEF h, H
  <2> QED BY <1>3, <1>4, <1>5
<1>8. Signed(v, RegBits) = x
  BY <1>1, <1>6, <1>7, SignedUnsigned
<1>9. v = IF x < 0 THEN x + m ELSE x
  <2>1. (Signed(v, RegBits) < 0 => Signed(v, RegBits) = v - m) /\ (Signed(v, RegBits) >= 0 => Signed(v, RegBits) = v)
    BY <1>1, SignedFact
  <2> HIDE DEF m, H
  <2>2. v \in Int /\ x \in Int
    BY <1>5, <1>7 DEF m
  <2> QED BY <1>5, <1>8, <2>1, <2>2
<1>10. u = IF x < 0 THEN x + b ELSE x
  <2> HIDE DEF b, h
  <2> QED BY <1>2, <1>3, <1>5
<1> QED BY <1>2, <1>3, <1>8, <1>9, <1>10, Zenon DEF u, x, h, m, b

\* On a narrow hart the fast path may compute with whole registers: its branches are decided as
\* the stages decide them from the low words, signed and unsigned, and its sums and differences,
\* sign-extended again, are those of the words.
\* (CPU::execute_cached_branch, execute_cached_op_fast; branchTaken, aluInt32)
THEOREM NarrowAgrees ==
  ASSUME NEW a \in 0 .. 2^RegBits - 1, NEW b \in 0 .. 2^RegBits - 1, Sext(a) = a, Sext(b) = b
  PROVE  /\ \A op \in BranchOps : cachedTaken(op, a, b) = branchTaken(a, b, op, IntBits)
         /\ (a < b) = (Low(a) < Low(b))
         /\ Sext((a + b) % 2^RegBits) = Sext((Low(a) + Low(b)) % 2^IntBits)
         /\ Sext((a - b) % 2^RegBits) = Sext((Low(a) - Low(b)) % 2^IntBits)
<1> DEFINE u1 == Low(a)
           u2 == Low(b)
           x == Signed(u1, IntBits)
           y == Signed(u2, IntBits)
           m == 2^RegBits
           n == 2^IntBits
           h == 2^(IntBits - 1)
<1>1. /\ u1 \in 0 .. n - 1 /\ Signed(a, RegBits) = x /\ x \in -h .. h - 1
      /\ a = (IF x < 0 THEN x + m ELSE x) /\ u1 = IF x < 0 THEN x + n ELSE x
  BY SextFact
<1>2. /\ u2 \in 0 .. n - 1 /\ Signed(b, RegBits) = y /\ y \in -h .. h - 1
      /\ b = (IF y < 0 THEN y + m ELSE y) /\ u2 = IF y < 0 THEN y + n ELSE y
  BY SextFact
<1>3. m \in Nat \ {0} /\ n \in Nat \ {0} /\ h \in Nat \ {0} /\ n = 2 * h /\ m = n * n
  BY RegWidth, Width, PowerType
<1>4. n <= m
  <2> HIDE DEF m, n, h
  <2>1. n * n >= n
    BY <1>3
  <2> QED BY <1>3, <2>1
<1>5. a % n = u1 /\ b % n = u2
  BY Zenon DEF Low
<1> HIDE DEF m, n, h, u1, u2, x, y
<1>6. x \in Int /\ y \in Int
  BY <1>1, <1>2, <1>3
<1>7. (a = b <=> u1 = u2) /\ (a # b <=> u1 # u2)
  BY <1>1, <1>2, <1>3, <1>4, <1>6
<1>8. (a < b) = (u1 < u2) /\ (a >= b) = (u1 >= u2)
  BY <1>1, <1>2, <1>3, <1>4, <1>6
<1>9. ASSUME NEW op \in BranchOps
      PROVE  cachedTaken(op, a, b) = branchTaken(a, b, op, IntBits)
  <2>1. CASE op = "BEQ"
    BY <1>5, <1>7, <2>1, Zenon DEF cachedTaken, branchTaken, n
  <2>2. CASE op = "BNE"
    BY <1>5, <1>7, <2>2, Zenon DEF cachedTaken, branchTaken, n
  <2>3. CASE op = "BLT"
    BY <1>1, <1>2, <1>5, <2>3, Zenon DEF cachedTaken, branchTaken, n, x, y
  <2>4. CASE op = "BGE"
    BY <1>1, <1>2, <1>5, <2>4, Zenon DEF cachedTaken, branchTaken, n, x, y
  <2>5. CASE op = "BLTU"
    <3>1. cachedTaken(op, a, b) = (a < b)
      BY <2>5, Zenon DEF cachedTaken
    <3>2. branchTaken(a, b, op, IntBits) = (u1 < u2)
      BY <1>5, <2>5, Zenon DEF branchTaken, n
    <3> QED BY <1>8, <3>1, <3>2, Zenon
  <2>6. CASE op = "BGEU"
    <3>1. cachedTaken(op, a, b) = (a >= b)
      BY <2>6, Zenon DEF cachedTaken
    <3>2. branchTaken(a, b, op, IntBits) = (u1 >= u2)
      BY <1>5, <2>6, Zenon DEF branchTaken, n
    <3> QED BY <1>8, <3>1, <3>2, Zenon
  <2> QED BY <2>1, <2>2, <2>3, <2>4, <2>5, <2>6 DEF BranchOps
<1>10. ASSUME NEW s \in Int, NEW t \in Int, s % n = t % n
       PROVE  Sext(s % m) = Sext(t % n)
  <2>1. (s % m) % n = s % n
    BY <1>3, ModNested
  <2>2. t % n \in 0 .. n - 1
    BY <1>3, ModDef
  <2>3. (t % n) % n = t % n
    BY <1>3, <2>2, ModSmall
  <2>4. Low(s % m) = Low(t % n)
    BY <1>10, <2>1, <2>3, Zenon DEF Low, n
  <2> QED BY <2>4, Zenon DEF Sext
<1>11. a \in Int /\ b \in Int /\ u1 \in Int /\ u2 \in Int
  BY <1>1, <1>2, <1>3, <1>6
<1>12. (a + b) % n = (u1 + u2) % n
  <2>1. ((a % n) + b) % n = (a + b) % n
    BY <1>3, <1>11, ModInner, Zenon
  <2>2. ((b % n) + u1) % n = (b + u1) % n
    BY <1>3, <1>11, ModInner, Zenon
  <2>3. u1 + b = b + u1 /\ u2 + u1 = u1 + u2
    BY <1>11
  <2> QED BY <1>5, <2>1, <2>2, <2>3, Zenon
<1>13. (a - b) % n = (u1 - u2) % n
  <2> DEFINE p == a \div n
             q == b \div n
             k == p - q
             d == u1 - u2
             e == a - b
  <2>1. p \in Int /\ a = (n * p) + u1 /\ q \in Int /\ b = (n * q) + u2
    BY <1>3, <1>5, <1>11, ModDef
  <2> HIDE DEF p, q
  <2>2. k \in Int /\ d \in Int /\ e = d + (k * n)
    BY <1>3, <1>11, <2>1
  <2> HIDE DEF k, d, e
  <2>3. e % n = d % n
    BY <1>3, <2>2, ModAdd
  <2> QED BY <2>3 DEF e, d
<1>14. Sext((a + b) % m) = Sext((u1 + u2) % n)
  <2>1. a + b \in Int /\ u1 + u2 \in Int
    BY <1>11
  <2> QED BY <1>10, <1>12, <2>1, Zenon
<1>15. Sext((a - b) % m) = Sext((u1 - u2) % n)
  <2>1. a - b \in Int /\ u1 - u2 \in Int
    BY <1>11
  <2> QED BY <1>10, <1>13, <2>1, Zenon
<1> QED BY <1>8, <1>9, <1>14, <1>15, Zenon DEF u1, u2, m, n
=============================================================================
