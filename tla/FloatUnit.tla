----------------------------- MODULE FloatUnit -----------------------------
(***************************************************************************)
(* The floating-point execution unit: how the instructions of F and D are  *)
(* made of the host's arithmetic.  A register holds a double, or a single  *)
(* boxed in ones; the formats are scaled down, and an int and a long have  *)
(* as many bits as a single and a double.  The code has one copy of almost *)
(* every function for each format; here the format is a parameter.         *)
(*                                                                         *)
(* An instruction is run on a whole row of operands at once.               *)
(***************************************************************************)
EXTENDS HostFloat

CONSTANTS
  FpInstructions,     \* instructions, with their rounding mode and the state of fcsr and FS
  FloatValues,   \* register contents of the unary and binary instructions
  FusedValues    \* and of those with three operands

VARIABLES
  fpRow,         \* the instruction executed, or NoFpRow
  fpResults      \* what it did on each tuple of operands

fpVars == <<fpRow, fpResults>>

WordBits   == Width(Single)
DoubleBits == Width(Double)

Qnan(f)  == Inf(f, 0) + 2^(f.m - 1)
Boxer    == 2^DoubleBits - 2^WordBits
Lower(r) == r % 2^WordBits
SignedInt(n, w) == IF n >= 2^(w - 1) THEN n - 2^w ELSE n

\* read_f32: a register that is not boxed reads as the canonical NaN.
read(f, reg) ==
  CASE f = Double -> reg
    [] f = Single -> IF reg - Lower(reg) = Boxer THEN Lower(reg) ELSE Qnan(Single)

write_boxed(f, bits) == IF f = Single THEN Boxer + bits ELSE bits

fclass(f, x) ==
  LET neg == SignOf(f, x) = 1 IN
  CASE ExpOf(f, x) = ExpMax(f) ->
         IF FracOf(f, x) = 0 THEN (IF neg THEN 2^0 ELSE 2^7) ELSE IF FracOf(f, x) >= 2^(f.m - 1) THEN 2^9 ELSE 2^8
    [] ExpOf(f, x) = 0 ->
         IF FracOf(f, x) = 0 THEN (IF neg THEN 2^3 ELSE 2^4) ELSE IF neg THEN 2^2 ELSE 2^5
    [] OTHER -> IF neg THEN 2^1 ELSE 2^6

\* Mutant: two zeros compare equal and the first operand is taken.
fminmax_riscv_zeros(f, max, a, b) ==
  LET nv == IF IsSnan(f, a) \/ IsSnan(f, b) THEN {"NV"} ELSE {}
  IN CASE IsNan(f, a) /\ IsNan(f, b)  -> Res(Qnan(f), nv)
       [] IsNan(f, a) /\ ~IsNan(f, b) -> Res(b, nv)
       [] ~IsNan(f, a) /\ IsNan(f, b) -> Res(a, nv)
       [] OTHER -> Res(IF HostLess(f, b, a) THEN (IF max THEN a ELSE b) ELSE (IF max THEN b ELSE a), nv)

\* fmin32_riscv, fmax32_riscv, fmin64_riscv and fmax64_riscv.
fminmax_riscv(f, max, a, b) ==
  LET nv == IF IsSnan(f, a) \/ IsSnan(f, b) THEN {"NV"} ELSE {}
      neg_zero == IF max THEN SignOf(f, a) = 1 /\ SignOf(f, b) = 1 ELSE SignOf(f, a) = 1 \/ SignOf(f, b) = 1
  IN CASE IsNan(f, a) /\ IsNan(f, b)  -> Res(Qnan(f), nv)
       [] IsNan(f, a) /\ ~IsNan(f, b) -> Res(b, nv)
       [] ~IsNan(f, a) /\ IsNan(f, b) -> Res(a, nv)
       [] IsZero(f, a) /\ IsZero(f, b) -> Res(Zero(f, IF neg_zero THEN 1 ELSE 0), nv)
       [] OTHER -> Res(IF HostLess(f, a, b) THEN (IF max THEN b ELSE a) ELSE (IF max THEN a ELSE b), nv)

-----------------------------------------------------------------------------
(* fcsr: the rounding mode and the flags. *)

accumulate_fp_flags(fcsr, raised) == [fcsr EXCEPT !.fflags = @ \cup raised]

effective(rm, fcsr) == IF rm = "DYN" THEN fcsr.frm ELSE rm

\* The host has no rounding to nearest with ties away from zero.
rm_to_fe_round(rm, fcsr) ==
  LET e == effective(rm, fcsr) IN IF e \in {"RTZ", "RDN", "RUP"} THEN e ELSE "RNE"

\* op_mode: 0 and 1 are the signed and unsigned int, 2 and 3 the long.
fcvt_to_int(x, op_mode, rm) ==
  LET w == IF op_mode >= 2 THEN DoubleBits ELSE WordBits
      low  == IF op_mode % 2 = 1 THEN 0 ELSE -(2^(w - 1))
      high == IF op_mode % 2 = 1 THEN 2^w - 1 ELSE 2^(w - 1) - 1
      rounded == HostToInt(Double, rm, x)
      nx == IF rounded.inexact THEN {"NX"} ELSE {}
      \* cast to int and widened, so that an unsigned int is sign-extended too
      Reg(n) == SignedInt(n % 2^w, w) % 2^DoubleBits
  IN CASE IsNan(Double, x) -> [int |-> Reg(high), flags |-> {"NV"}]
       [] IsInf(Double, x) -> [int |-> Reg(IF SignOf(Double, x) = 0 THEN high ELSE low), flags |-> {"NV"}]
       [] OTHER -> CASE rounded.int < low  -> [int |-> Reg(low), flags |-> {"NV"} \cup nx]
                     [] rounded.int > high -> [int |-> Reg(high), flags |-> {"NV"} \cup nx]
                     [] OTHER -> [int |-> Reg(rounded.int), flags |-> nx]

-----------------------------------------------------------------------------
(* An execution's result: the data for a floating-point register, the data for  *)
(* an integer register (None if there is none), and fcsr.                       *)

None == -1
FpResult(f, r, fcsr)  == [fp |-> write_boxed(f, r.bits), int |-> None, fcsr |-> accumulate_fp_flags(fcsr, r.flags)]
IntResult(r, fcsr)    == [fp |-> None, int |-> r.int, fcsr |-> accumulate_fp_flags(fcsr, r.flags)]

\* NaN results are replaced by the canonical NaN.
Canonical(f, r) == IF IsNan(f, r.bits) THEN [r EXCEPT !.bits = Qnan(f)] ELSE r

\* The negated forms negate the rounded result.
fusedFp(f, op, r1, r2, r3, rm, fcsr) ==
  LET a == read(f, r1)  b == read(f, r2)  c == read(f, r3)
      mode == rm_to_fe_round(rm, fcsr)
      sum  == HostFma(f, mode, a, b, IF op \in {"FMSUB", "FNMSUB"} THEN HostNegate(f, c) ELSE c)
      value == IF op \in {"FNMADD", "FNMSUB"} THEN [sum EXCEPT !.bits = HostNegate(f, @)] ELSE sum
  IN FpResult(f, Canonical(f, value), fcsr)

fp_exec_add_sub(f, op, r1, r2, rm, fcsr) ==
  LET mode == rm_to_fe_round(rm, fcsr)
      r == IF op = "FADD" THEN HostAdd(f, mode, read(f, r1), read(f, r2)) ELSE HostSub(f, mode, read(f, r1), read(f, r2))
  IN FpResult(f, Canonical(f, r), fcsr)

fp_exec_mul_div_sqrt(f, op, r1, r2, rm, fcsr) ==
  LET mode == rm_to_fe_round(rm, fcsr)
      r == CASE op = "FMUL"  -> HostMul(f, mode, read(f, r1), read(f, r2))
             [] op = "FDIV"  -> HostDiv(f, mode, read(f, r1), read(f, r2))
             [] op = "FSQRT" -> HostSqrt(f, mode, read(f, r1))
  IN FpResult(f, Canonical(f, r), fcsr)

fp_exec_sgnj_minmax(f, op, r1, r2, fcsr) ==
  LET a == read(f, r1)  b == read(f, r2)
      magnitude == a % 2^(Width(f) - 1)
      sign == CASE op = "FSGNJ"  -> SignOf(f, b)
                [] op = "FSGNJN" -> 1 - SignOf(f, b)
                [] op = "FSGNJX" -> (SignOf(f, a) + SignOf(f, b)) % 2
  IN IF op \in {"FSGNJ", "FSGNJN", "FSGNJX"}
     THEN [fp |-> write_boxed(f, magnitude + Zero(f, sign)), int |-> None, fcsr |-> fcsr]
     ELSE FpResult(f, fminmax_riscv(f, op = "FMAX", a, b), fcsr)

\* Conversions: f is the format of the floating-point operand or result, mode the
\* integer type; FCVT_D_S and FCVT_S_D are between the formats.
fp_exec_cvt(f, op, r1, x, mode, rm, fcsr) ==
  LET fe == rm_to_fe_round(rm, fcsr)
      g  == IF f = Single THEN Double ELSE Single
      src == read(g, r1)
      \* the value of the integer register, in its type
      n == CASE mode = 0 -> SignedInt(Lower(x), WordBits)
             [] mode = 1 -> Lower(x)
             [] mode = 2 -> SignedInt(x, DoubleBits)
             [] mode = 3 -> x
      widened == IF f = Single THEN HostConvert(Single, Double, fe, read(Single, r1)) ELSE Res(r1, {})
      val   == HostFromInt(Double, fe, n)
      final == IF f = Double THEN val ELSE HostConvert(Double, Single, fe, val.bits)
  IN CASE op = "FCVT_F_F" ->
            IF IsNan(g, src) THEN FpResult(f, Res(Qnan(f), IF IsSnan(g, src) THEN {"NV"} ELSE {}), fcsr)
            ELSE FpResult(f, HostConvert(g, f, fe, src), fcsr)
       [] op = "FCVT_I_F" ->
            LET r == fcvt_to_int(widened.bits, mode, effective(rm, fcsr))
            IN IntResult([r EXCEPT !.flags = @ \cup widened.flags], fcsr)
       [] op = "FCVT_F_I" -> FpResult(f, [final EXCEPT !.flags = @ \cup val.flags], fcsr)

fp_exec_cmp(f, op, r1, r2, fcsr) ==
  LET a == read(f, r1)  b == read(f, r2)
      nv == op # "FEQ" \/ IsSnan(f, a) \/ IsSnan(f, b)
      holds == CASE op = "FEQ" -> HostEq(f, a, b)
                 [] op = "FLT" -> HostLess(f, a, b)
                 [] op = "FLE" -> ~HostLess(f, b, a)
  IN IF IsNan(f, a) \/ IsNan(f, b) THEN IntResult([int |-> 0, flags |-> IF nv THEN {"NV"} ELSE {}], fcsr)
     ELSE IntResult([int |-> IF holds THEN 1 ELSE 0, flags |-> {}], fcsr)

\* Moves take the bits as they are, boxed or not.
fp_exec_mv_class(f, op, r1, x, fcsr) ==
  CASE op = "FMV_X_F" -> IntResult([int |-> IF f = Double THEN r1 ELSE SignedInt(Lower(r1), WordBits) % 2^DoubleBits, flags |-> {}], fcsr)
    [] op = "FCLASS"  -> IntResult([int |-> fclass(f, read(f, r1)), flags |-> {}], fcsr)
    [] op = "FMV_F_X" -> [fp |-> IF f = Double THEN x ELSE Boxer + Lower(x), int |-> None, fcsr |-> fcsr]

\* loadFp: FLW boxes what it reads; storeFp: FSW takes the low half of the register.
loadFp(f, data, fcsr)  == [fp |-> IF f = Double THEN data ELSE Boxer + Lower(data), int |-> None, fcsr |-> fcsr]
storeFp(f, reg, fcsr)  == [fp |-> None, int |-> IF f = Double THEN reg ELSE Lower(reg), fcsr |-> fcsr]

FusedOps == {"FMADD", "FMSUB", "FNMADD", "FNMSUB"}

opFp(i, r1, r2, fcsr) ==
  CASE i.op \in {"FADD", "FSUB"}                              -> fp_exec_add_sub(i.f, i.op, r1, r2, i.rm, fcsr)
    [] i.op \in {"FMUL", "FDIV", "FSQRT"}                     -> fp_exec_mul_div_sqrt(i.f, i.op, r1, r2, i.rm, fcsr)
    [] i.op \in {"FSGNJ", "FSGNJN", "FSGNJX", "FMIN", "FMAX"} -> fp_exec_sgnj_minmax(i.f, i.op, r1, r2, fcsr)
    [] i.op \in {"FCVT_F_F", "FCVT_I_F", "FCVT_F_I"}          -> fp_exec_cvt(i.f, i.op, r1, r1, i.mode, i.rm, fcsr)
    [] i.op \in {"FEQ", "FLT", "FLE"}                         -> fp_exec_cmp(i.f, i.op, r1, r2, fcsr)
    [] i.op \in {"FMV_X_F", "FCLASS", "FMV_F_X"}              -> fp_exec_mv_class(i.f, i.op, r1, r1, fcsr)
    [] i.op = "FL"                                            -> loadFp(i.f, r1, fcsr)
    [] i.op = "FS"                                            -> storeFp(i.f, r1, fcsr)

IllegalFp(fcsr) == [fp |-> None, int |-> None, fcsr |-> fcsr, illegal |-> TRUE, dirty |-> FALSE]

\* The rounding modes 5 and 6 are reserved, in the instruction and in frm. FS becomes
\* dirty when fcsr changes or, in the writeback stage, a floating-point register is written.
execute_fp(i, r) ==
  LET fcsr == [frm |-> i.frm, fflags |-> i.fflags]
      out  == IF i.op \in FusedOps THEN fusedFp(i.f, i.op, r[1], r[2], r[3], i.rm, fcsr) ELSE opFp(i, r[1], r[2], fcsr)
  IN IF effective(i.rm, fcsr) = "reserved" THEN IllegalFp(fcsr)
     ELSE [fp |-> out.fp, int |-> out.int, fcsr |-> out.fcsr, illegal |-> FALSE,
           dirty |-> out.fcsr # fcsr \/ out.fp # None]

-----------------------------------------------------------------------------
NoFpRow == [op |-> "none"]
UnaryFp == {"FSQRT", "FCVT_F_F", "FCVT_I_F", "FCVT_F_I", "FMV_X_F", "FCLASS", "FMV_F_X", "FL", "FS"}
Tuples(i) ==
  CASE i.op \in FusedOps -> FusedValues \X FusedValues \X FusedValues
    [] i.op \in UnaryFp  -> FloatValues \X {0}
    [] OTHER             -> FloatValues \X FloatValues

FloatInit == fpRow = NoFpRow /\ fpResults = <<>>

run_row(i) == fpRow' = i /\ fpResults' = [r \in Tuples(i) |-> execute_fp(i, r)]
=============================================================================
