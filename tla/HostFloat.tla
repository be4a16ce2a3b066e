----------------------------- MODULE HostFloat -----------------------------
(***************************************************************************)
(* The floating-point arithmetic of the host the simulator runs on, as the *)
(* execution unit uses it: IEEE 754 with tininess detected after rounding, *)
(* NaNs propagated from the first operand, and a negative default NaN.  A  *)
(* number is the bit pattern of its format, a result the pattern and the   *)
(* set of flags raised.  Nothing here is code of the repository.           *)
(***************************************************************************)
EXTENDS Integers, FiniteSets

CONSTANTS Single, Double       \* a format: e exponent bits, m fraction bits

ASSUME FormatAssumption ==
  \A f \in {Single, Double} : f.e \in 2 .. 8 /\ f.m \in 2 .. 6

Width(f)   == 1 + f.e + f.m
SignOf(f, x) == x \div 2^(f.e + f.m)
ExpOf(f, x)  == (x \div 2^f.m) % 2^f.e
FracOf(f, x) == x % 2^f.m
ExpMax(f)    == 2^f.e - 1
Bias(f)      == 2^(f.e - 1) - 1

IsNan(f, x)  == ExpOf(f, x) = ExpMax(f) /\ FracOf(f, x) # 0
IsSnan(f, x) == IsNan(f, x) /\ FracOf(f, x) < 2^(f.m - 1)
IsInf(f, x)  == ExpOf(f, x) = ExpMax(f) /\ FracOf(f, x) = 0
IsZero(f, x) == ExpOf(f, x) = 0 /\ FracOf(f, x) = 0

Inf(f, s)    == s * 2^(f.e + f.m) + ExpMax(f) * 2^f.m
Zero(f, s)   == s * 2^(f.e + f.m)
HostNegate(f, x)  == (x + 2^(f.e + f.m)) % 2^Width(f)
\* What the host makes of an invalid operation, and of NaN operands.
DefaultNan(f)  == Inf(f, 1) + 2^(f.m - 1)
Quiet(f, x)    == IF IsSnan(f, x) THEN x + 2^(f.m - 1) ELSE x

Res(bits, flags) == [bits |-> bits, flags |-> flags]
Invalid(f)       == Res(DefaultNan(f), {"NV"})
\* xs are the operands, in order.
Propagate(f, xs) ==
  Res(Quiet(f, xs[CHOOSE i \in DOMAIN xs : IsNan(f, xs[i]) /\ \A j \in 1 .. i - 1 : ~IsNan(f, xs[j])]),
      IF \E i \in DOMAIN xs : IsSnan(f, xs[i]) THEN {"NV"} ELSE {})

-----------------------------------------------------------------------------
(* Exact values: (-1)^s * (m + t) * 2^p where 0 < t < 1 if sticky and t = 0    *)
(* otherwise.                                                                  *)

Exact(s, m, p, sticky) == [s |-> s, m |-> m, p |-> p, sticky |-> sticky]
ExactValue(f, x) ==
  Exact(SignOf(f, x), IF ExpOf(f, x) = 0 THEN FracOf(f, x) ELSE FracOf(f, x) + 2^f.m,
        (IF ExpOf(f, x) = 0 THEN 1 ELSE ExpOf(f, x)) - Bias(f) - f.m, FALSE)

Length(m) == CHOOSE n \in 0 .. 30 : m < 2^n /\ (n = 0 \/ m >= 2^(n - 1))

\* m / 2^shift as an integer, and whether that is exact. shift is at most 30.
Cut(mode, v, shift) ==
  LET k == v.m \div 2^shift
      rest == v.m % 2^shift
      half == 2^(shift - 1)
      inexact == rest # 0 \/ v.sticky
      up == CASE mode = "RNE" -> rest > half \/ (rest = half /\ (v.sticky \/ k % 2 = 1))
              [] mode = "RMM" -> rest >= half
              [] mode = "RTZ" -> FALSE
              [] mode = "RDN" -> inexact /\ v.s = 1
              [] mode = "RUP" -> inexact /\ v.s = 0
  IN IF shift <= 0 THEN [int |-> v.m * 2^(-shift), inexact |-> FALSE]
     ELSE [int |-> IF up THEN k + 1 ELSE k, inexact |-> inexact]

\* v.m is not zero, and v has more bits than the format when it is sticky.
Round(f, mode, v) ==
  LET top    == v.p + Length(v.m) - 1
      emin   == 1 - Bias(f)
      q      == IF top >= emin THEN top - f.m ELSE emin - f.m
      cut    == Cut(mode, v, IF q - v.p > 30 THEN 30 ELSE q - v.p)
      free   == Cut(mode, v, top - f.m - v.p)
      tiny   == top < emin /\ ~(top = emin - 1 /\ free.int = 2^(f.m + 1))
      bits   == (q + f.m + Bias(f) - 1) * 2^f.m + cut.int
      away   == mode \in {"RNE", "RMM"} \/ (mode = "RDN" /\ v.s = 1) \/ (mode = "RUP" /\ v.s = 0)
  IN IF bits >= Inf(f, 0)
     THEN Res((IF away THEN Inf(f, 0) ELSE Inf(f, 0) - 1) + Zero(f, v.s), {"OF", "NX"})
     ELSE Res(bits + Zero(f, v.s), (IF cut.inexact THEN {"NX"} ELSE {}) \cup (IF tiny /\ cut.inexact THEN {"UF"} ELSE {}))

\* Distances between exponents beyond which only the fact of a remainder matters.
Gap == 14
Align(v, p) ==
  IF v.p >= p THEN v.m * 2^(v.p - p) ELSE IF p - v.p > 30 THEN 0 ELSE v.m \div 2^(p - v.p)
Lost(v, p) == v.p < p /\ (p - v.p > 30 \/ v.m % 2^(p - v.p) # 0)

\* The sum of two exact values, rounded once.
RoundedSum(f, mode, x, y) ==
  LET p  == LET hi == IF x.p > y.p THEN x.p ELSE y.p  lo == IF x.p > y.p THEN y.p ELSE x.p
            IN IF hi - lo > Gap THEN hi - Gap ELSE lo
      mx == Align(x, p)  my == Align(y, p)
      lost == Lost(x, p) \/ Lost(y, p)
      big   == IF mx >= my THEN x ELSE y
      diff  == IF mx >= my THEN mx - my ELSE my - mx
  IN CASE x.m = 0 /\ y.m = 0 -> Res(Zero(f, IF x.s = y.s THEN x.s ELSE IF mode = "RDN" THEN 1 ELSE 0), {})
       [] x.m = 0 /\ y.m # 0 -> Round(f, mode, y)
       [] x.m # 0 /\ y.m = 0 -> Round(f, mode, x)
       [] x.m # 0 /\ y.m # 0 /\ x.s = y.s -> Round(f, mode, Exact(x.s, mx + my, p, lost))
       [] x.m # 0 /\ y.m # 0 /\ x.s # y.s ->
            IF diff = 0 /\ ~lost THEN Res(Zero(f, IF mode = "RDN" THEN 1 ELSE 0), {})
            ELSE Round(f, mode, Exact(big.s, IF lost THEN diff - 1 ELSE diff, p, lost))

-----------------------------------------------------------------------------
HostFma(f, mode, a, b, c) ==
  LET s == (SignOf(f, a) + SignOf(f, b)) % 2
      va == ExactValue(f, a)  vb == ExactValue(f, b)
      product_inf == IsInf(f, a) \/ IsInf(f, b)
      product_invalid == (IsInf(f, a) /\ IsZero(f, b)) \/ (IsZero(f, a) /\ IsInf(f, b))
  IN CASE \E x \in {a, b, c} : IsNan(f, x) -> Propagate(f, <<a, b, c>>)
       [] ~(\E x \in {a, b, c} : IsNan(f, x)) /\ product_invalid -> Invalid(f)
       [] OTHER ->
            CASE product_inf /\ IsInf(f, c) -> IF SignOf(f, c) = s THEN Res(c, {}) ELSE Invalid(f)
              [] product_inf /\ ~IsInf(f, c) -> Res(Inf(f, s), {})
              [] ~product_inf /\ IsInf(f, c) -> Res(c, {})
              [] OTHER -> RoundedSum(f, mode, Exact(s, va.m * vb.m, va.p + vb.p, FALSE), ExactValue(f, c))

One(f) == Bias(f) * 2^f.m
HostAdd(f, mode, a, b) == IF IsNan(f, a) \/ IsNan(f, b) THEN Propagate(f, <<a, b>>) ELSE HostFma(f, mode, a, One(f), b)
HostSub(f, mode, a, b) == IF IsNan(f, a) \/ IsNan(f, b) THEN Propagate(f, <<a, b>>) ELSE HostAdd(f, mode, a, HostNegate(f, b))

HostMul(f, mode, a, b) ==
  LET s == (SignOf(f, a) + SignOf(f, b)) % 2
      m == ExactValue(f, a).m * ExactValue(f, b).m
  IN CASE IsNan(f, a) \/ IsNan(f, b) -> Propagate(f, <<a, b>>)
       [] ~IsNan(f, a) /\ ~IsNan(f, b) /\ (IsInf(f, a) \/ IsInf(f, b)) ->
            IF IsZero(f, a) \/ IsZero(f, b) THEN Invalid(f) ELSE Res(Inf(f, s), {})
       [] OTHER -> IF m = 0 THEN Res(Zero(f, s), {}) ELSE Round(f, mode, Exact(s, m, ExactValue(f, a).p + ExactValue(f, b).p, FALSE))

HostDiv(f, mode, a, b) ==
  LET s == (SignOf(f, a) + SignOf(f, b)) % 2
      va == ExactValue(f, a)  vb == ExactValue(f, b)
      n  == va.m * 2^(2 * f.m + 4)
  IN CASE IsNan(f, a) \/ IsNan(f, b) -> Propagate(f, <<a, b>>)
       [] (IsInf(f, a) /\ IsInf(f, b)) \/ (IsZero(f, a) /\ IsZero(f, b)) -> Invalid(f)
       [] IsInf(f, a) /\ ~IsNan(f, b) /\ ~IsInf(f, b) -> Res(Inf(f, s), {})
       [] ~IsNan(f, a) /\ ~IsInf(f, a) /\ IsInf(f, b) -> Res(Zero(f, s), {})
       [] IsZero(f, b) /\ ~IsZero(f, a) /\ ~IsNan(f, a) /\ ~IsInf(f, a) -> Res(Inf(f, s), {"DZ"})
       [] OTHER -> IF va.m = 0 THEN Res(Zero(f, s), {})
                   ELSE Round(f, mode, Exact(s, n \div vb.m, va.p - vb.p - (2 * f.m + 4), n % vb.m # 0))

HostSqrt(f, mode, a) ==
  LET v == ExactValue(f, a)
      \* an even exponent
      n == v.m * 2^(2 * f.m + 6 + ((v.p) % 2))
      r == CHOOSE i \in 0 .. 2^(f.m + 8) : i * i <= n /\ (i + 1) * (i + 1) > n
  IN CASE IsNan(f, a) -> Propagate(f, <<a>>)
       [] IsZero(f, a) -> Res(a, {})
       [] ~IsNan(f, a) /\ ~IsZero(f, a) /\ SignOf(f, a) = 1 -> Invalid(f)
       [] IsInf(f, a) /\ SignOf(f, a) = 0 -> Res(a, {})
       [] OTHER -> Round(f, mode, Exact(0, r, (v.p - (v.p % 2)) \div 2 - (f.m + 3), r * r # n))

\* From format f to format g.
HostConvert(f, g, mode, a) ==
  CASE IsNan(f, a) -> Res(Quiet(g, Inf(g, SignOf(f, a)) + (IF IsSnan(f, a) THEN 1 ELSE 2^(g.m - 1))), IF IsSnan(f, a) THEN {"NV"} ELSE {})
    [] IsInf(f, a) -> Res(Inf(g, SignOf(f, a)), {})
    [] IsZero(f, a) -> Res(Zero(g, SignOf(f, a)), {})
    [] OTHER -> Round(g, mode, ExactValue(f, a))

HostFromInt(f, mode, n) ==
  IF n = 0 THEN Res(Zero(f, 0), {}) ELSE Round(f, mode, Exact(IF n < 0 THEN 1 ELSE 0, IF n < 0 THEN -n ELSE n, 0, FALSE))

\* trunc, floor, ceil, round and rint of a finite number, as an integer.
HostToInt(f, mode, a) ==
  LET v == ExactValue(f, a)
      c == Cut(mode, v, IF -v.p > 30 THEN 30 ELSE -v.p)
  IN [int |-> IF v.s = 1 THEN -c.int ELSE c.int, inexact |-> c.inexact]

\* The order of two numbers that are not NaN: less, equal. Zeros are equal.
HostKey(f, x)     == IF SignOf(f, x) = 1 THEN -(x % 2^(f.e + f.m)) ELSE x
HostLess(f, a, b) == HostKey(f, a) < HostKey(f, b)
HostEq(f, a, b)   == HostKey(f, a) = HostKey(f, b)
=============================================================================
