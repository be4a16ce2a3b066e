--------------------------- MODULE FloatReference ---------------------------
(***************************************************************************)
(* What the instructions of F and D are defined to do: each rounds an      *)
(* exact result once, in the mode in force, and raises the flags of that   *)
(* rounding.                                                               *)
(***************************************************************************)
EXTENDS FloatUnit

Boxed(reg)    == reg >= Boxer
FpOperand(f, r) == IF f = Single THEN (IF Boxed(r) THEN r - Boxer ELSE Qnan(f)) ELSE r
NvIf(b)       == IF b THEN {"NV"} ELSE {}
AnySnan(f, S) == \E x \in S : IsSnan(f, x)

\* The integer nearest to a in the mode, as the manual's table of bounds has it.
IntegerOf(f, a, mode, rm) ==
  LET w   == IF mode >= 2 THEN DoubleBits ELSE WordBits
      range == IF mode % 2 = 1 THEN 0 .. 2^w - 1 ELSE -(2^(w - 1)) .. 2^(w - 1) - 1
      r   == HostToInt(f, rm, a)
      top == IF mode % 2 = 1 THEN 2^w - 1 ELSE 2^(w - 1) - 1
      bottom == IF mode % 2 = 1 THEN 0 ELSE -(2^(w - 1))
  IN CASE IsNan(f, a) \/ (IsInf(f, a) /\ SignOf(f, a) = 0) -> [int |-> top, flags |-> {"NV"}]
       [] IsInf(f, a) /\ SignOf(f, a) = 1                  -> [int |-> bottom, flags |-> {"NV"}]
       [] OTHER -> IF r.int \in range THEN [int |-> r.int, flags |-> IF r.inexact THEN {"NX"} ELSE {}]
                   ELSE [int |-> IF r.int > 0 THEN top ELSE bottom, flags |-> {"NV"}]

\* An int in a long register is sign-extended, also the unsigned one.
InRegister(n, mode) == IF mode >= 2 THEN n % 2^DoubleBits ELSE SignedInt(n % 2^WordBits, WordBits) % 2^DoubleBits

IntSource(x, mode) ==
  CASE mode = 0 -> SignedInt(Lower(x), WordBits)
    [] mode = 1 -> Lower(x)
    [] mode = 2 -> SignedInt(x, DoubleBits)
    [] mode = 3 -> x

\* The rounding of the fused operation is that of -(a*b) - c and -(a*b) + c.
FusedReference(f, op, rm, a, b, c) ==
  HostFma(f, rm, IF op \in {"FNMADD", "FNMSUB"} THEN HostNegate(f, a) ELSE a, b,
                 IF op \in {"FMSUB", "FNMADD"} THEN HostNegate(f, c) ELSE c)

\* The number nearest among operands that are not NaN; -0 is less than +0.
MinMaxReference(f, max, a, b) ==
  LET less(x, y) == HostLess(f, x, y) \/ (HostEq(f, x, y) /\ SignOf(f, x) > SignOf(f, y))
  IN CASE IsNan(f, a) /\ IsNan(f, b) -> Qnan(f)
       [] IsNan(f, a) /\ ~IsNan(f, b) -> b
       [] ~IsNan(f, a) /\ IsNan(f, b) -> a
       [] OTHER -> IF less(a, b) = max THEN b ELSE a

Canon(f, bits) == IF IsNan(f, bits) THEN Qnan(f) ELSE bits
FromFp(f, r)   == [fp |-> IF f = Single THEN Boxer + Canon(f, r.bits) ELSE Canon(f, r.bits), int |-> None, flags |-> r.flags]
FromInt(n, fl) == [fp |-> None, int |-> n, flags |-> fl]
Bare(f, bits)  == [fp |-> IF f = Single THEN Boxer + bits ELSE bits, int |-> None, flags |-> {}]

FloatExpected(i, r, rm) ==
  LET f == i.f
      g == IF f = Single THEN Double ELSE Single
      a == FpOperand(f, r[1])  b == FpOperand(f, r[2])
      Sgn(s) == Bare(f, (a % 2^(Width(f) - 1)) + s * 2^(Width(f) - 1))
      Cmp(holds, quiet) ==
        IF IsNan(f, a) \/ IsNan(f, b) THEN FromInt(0, NvIf(~quiet \/ AnySnan(f, {a, b}))) ELSE FromInt(IF holds THEN 1 ELSE 0, {})
      Class(k) ==
        CASE k = 0 -> a = Inf(f, 1)
          [] k = 1 -> a > Zero(f, 1) + 2^f.m - 1 /\ a < Inf(f, 1)
          [] k = 2 -> a > Zero(f, 1) /\ a < Zero(f, 1) + 2^f.m
          [] k = 3 -> a = Zero(f, 1)
          [] k = 4 -> a = 0
          [] k = 5 -> a \in 1 .. 2^f.m - 1
          [] k = 6 -> a \in 2^f.m .. Inf(f, 0) - 1
          [] k = 7 -> a = Inf(f, 0)
          [] k = 8 -> IsSnan(f, a)
          [] k = 9 -> IsNan(f, a) /\ ~IsSnan(f, a)
  IN CASE i.op = "FADD"   -> FromFp(f, HostAdd(f, rm, a, b))
       [] i.op = "FSUB"   -> FromFp(f, HostSub(f, rm, a, b))
       [] i.op = "FMUL"   -> FromFp(f, HostMul(f, rm, a, b))
       [] i.op = "FDIV"   -> FromFp(f, HostDiv(f, rm, a, b))
       [] i.op = "FSQRT"  -> FromFp(f, HostSqrt(f, rm, a))
       [] i.op \in FusedOps -> FromFp(f, FusedReference(f, i.op, rm, a, b, FpOperand(f, r[3])))
       [] i.op = "FSGNJ"  -> Sgn(SignOf(f, b))
       [] i.op = "FSGNJN" -> Sgn(1 - SignOf(f, b))
       [] i.op = "FSGNJX" -> Sgn((SignOf(f, a) + SignOf(f, b)) % 2)
       [] i.op \in {"FMIN", "FMAX"} ->
            [Bare(f, MinMaxReference(f, i.op = "FMAX", a, b)) EXCEPT !.flags = NvIf(AnySnan(f, {a, b}))]
       [] i.op = "FEQ"    -> Cmp(HostEq(f, a, b), TRUE)
       [] i.op = "FLT"    -> Cmp(HostLess(f, a, b), FALSE)
       [] i.op = "FLE"    -> Cmp(HostLess(f, a, b) \/ HostEq(f, a, b), FALSE)
       [] i.op = "FCLASS" -> FromInt(2^(CHOOSE k \in 0 .. 9 : Class(k)), {})
       [] i.op = "FCVT_F_F" -> FromFp(f, HostConvert(g, f, rm, FpOperand(g, r[1])))
       [] i.op = "FCVT_I_F" -> LET n == IntegerOf(f, a, i.mode, rm) IN FromInt(InRegister(n.int, i.mode), n.flags)
       [] i.op = "FCVT_F_I" -> FromFp(f, HostFromInt(f, rm, IntSource(r[1], i.mode)))
       [] i.op = "FMV_X_F"  -> FromInt(IF f = Double THEN r[1] ELSE InRegister(Lower(r[1]), 0), {})
       [] i.op \in {"FMV_F_X", "FL"} -> Bare(f, IF f = Double THEN r[1] ELSE Lower(r[1]))
       [] i.op = "FS"       -> FromInt(IF f = Double THEN r[1] ELSE Lower(r[1]), {})

\* Where the unit departs from the definition: ties away from zero are rounded to even
\* (documented), the negated fused operations round before they negate, a conversion that
\* saturates also raises NX, and a long becomes a single by way of a double.
FloatDeviates(i, r, rm) ==
  \/ rm = "RMM" /\ i.op # "FCVT_I_F"
  \/ i.op \in {"FNMADD", "FNMSUB"} /\ LET f == i.f  p == FusedReference(f, i.op, rm, FpOperand(f, r[1]), FpOperand(f, r[2]), FpOperand(f, r[3]))
                                      IN IsZero(f, p.bits) \/ ("NX" \in p.flags /\ rm \in {"RDN", "RUP"})
  \/ i.op = "FCVT_F_I" /\ i.f = Single /\ i.mode >= 2
  \/ i.op = "FCVT_I_F" /\ ~IsNan(i.f, FpOperand(i.f, r[1])) /\ ~IsInf(i.f, FpOperand(i.f, r[1]))
       /\ IntegerOf(i.f, FpOperand(i.f, r[1]), i.mode, rm).flags = {"NV"}

\* Every instruction of F and D writes what its definition says, boxed and with NaNs canonical,
\* adds the flags of one rounding to those already raised, refuses a reserved rounding mode
\* without effect, and marks the unit's state dirty when it changed. (opFp, fusedFp, execute_fp)
FloatExact ==
  \A r \in DOMAIN fpResults :
    LET i == fpRow  out == fpResults[r]
        rm == IF i.rm = "DYN" THEN i.frm ELSE i.rm
        e  == FloatExpected(i, r, rm)
    IN IF rm = "reserved" THEN out.illegal /\ out.fp = None /\ out.int = None /\ out.fcsr.fflags = i.fflags
       ELSE \/ FloatDeviates(i, r, rm)
            \/ /\ ~out.illegal /\ out.fp = e.fp /\ out.int = e.int
               /\ out.fcsr = [frm |-> i.frm, fflags |-> i.fflags \cup e.flags]
               /\ (out.fcsr.fflags # i.fflags \/ out.fp # None) => out.dirty

=============================================================================
