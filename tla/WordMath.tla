------------------------------ MODULE WordMath ------------------------------
(***************************************************************************)
(* The arithmetic of words and registers behind the integer unit that is   *)
(* not plain: sign extension, comparisons in both execution paths,         *)
(* products and quotients, as Math.hpp and ExecuteUnitInt.cpp make them    *)
(* of an arithmetic that is no wider than a register.  An int has IntBits  *)
(* bits, a register RegBits.                                               *)
(***************************************************************************)
EXTENDS FixedPoint

RegBits == 2 * IntBits
Low(v)  == v % 2^IntBits
\* static_cast<Register>(static_cast<int64_t>(res32))
Sext(v) == Unsigned(Signed(Low(v), IntBits), RegBits)

\* C++ division truncates towards zero.
Quotient(x, y) == LET q == (IF x < 0 THEN -x ELSE x) \div (IF y < 0 THEN -y ELSE y)
                  IN IF (x < 0) # (y < 0) THEN -q ELSE q

-----------------------------------------------------------------------------
(* Branches, in the stages and in the cached fast path. *)

BranchOps == {"BEQ", "BNE", "BLT", "BGE", "BLTU", "BGEU"}

branchTaken(in1, in2, op, xlen) ==
  LET u1 == in1 % 2^xlen  u2 == in2 % 2^xlen  s1 == Signed(u1, xlen)  s2 == Signed(u2, xlen) IN
  CASE op = "BEQ"  -> u1 = u2
    [] op = "BNE"  -> u1 # u2
    [] op = "BLT"  -> s1 < s2
    [] op = "BGE"  -> s1 >= s2
    [] op = "BLTU" -> u1 < u2
    [] op = "BGEU" -> u1 >= u2

\* Mutant: a signed compare for the unsigned branches.
cachedTaken_signed(op, a, b) ==
  LET sa == Signed(a, RegBits)  sb == Signed(b, RegBits) IN
  CASE op = "BEQ"  -> a = b
    [] op = "BNE"  -> a # b
    [] op \in {"BLT", "BLTU"} -> sa < sb
    [] op \in {"BGE", "BGEU"} -> sa >= sb

\* The comparisons are those of whole registers, whatever the hart's width.
cachedTaken(op, a, b) ==
  LET sa == Signed(a, RegBits)  sb == Signed(b, RegBits) IN
  CASE op = "BEQ"  -> a = b
    [] op = "BNE"  -> a # b
    [] op = "BLT"  -> sa < sb
    [] op = "BGE"  -> sa >= sb
    [] op = "BLTU" -> a < b
    [] op = "BGEU" -> a >= b

-----------------------------------------------------------------------------
(* Products of registers, without a type twice as wide. *)

mul_low(lhs, rhs) == (lhs * Low(rhs) + Low(lhs * (rhs \div 2^IntBits)) * 2^IntBits) % 2^RegBits

\* The portable variant, by 32-bit halves; a compiler with 128-bit integers takes theirs instead.
mul_high_unsigned64(lhs, rhs) ==
  LET p0 == Low(lhs) * Low(rhs)
      p1 == Low(lhs) * (rhs \div 2^IntBits)
      p2 == (lhs \div 2^IntBits) * Low(rhs)
      p3 == (lhs \div 2^IntBits) * (rhs \div 2^IntBits)
      carry == (p0 \div 2^IntBits + Low(p1) + Low(p2)) \div 2^IntBits
  IN p3 + p1 \div 2^IntBits + p2 \div 2^IntBits + carry

unsigned_abs(v) == IF Signed(v, RegBits) < 0 THEN 2^RegBits - v ELSE v

\* Mutant: the high half is negated without the carry out of the low half.
negate_high_low_nocarry(high, low) == 2^RegBits - 1 - high

negate_high_low(high, low) == (2^RegBits - 1 - high + (IF low = 0 THEN 1 ELSE 0)) % 2^RegBits

mul_high_signed(lhs, rhs) ==
  LET low  == mul_low(unsigned_abs(lhs), unsigned_abs(rhs))
      high == mul_high_unsigned64(unsigned_abs(lhs), unsigned_abs(rhs))
  IN IF (Signed(lhs, RegBits) < 0) # (Signed(rhs, RegBits) < 0) THEN negate_high_low(high, low) ELSE high

mul_high_signed_unsigned(lhs, rhs) ==
  LET low  == mul_low(unsigned_abs(lhs), rhs)
      high == mul_high_unsigned64(unsigned_abs(lhs), rhs)
  IN IF Signed(lhs, RegBits) < 0 THEN negate_high_low(high, low) ELSE high

-----------------------------------------------------------------------------
(* The instructions. *)

MulOps == {"MUL", "MULH", "MULHSU", "MULHU"}
DivOps == {"DIV", "DIVU", "REM", "REMU"}

multiply32(op, u1, u2) ==
  LET s1 == Signed(u1, IntBits)  s2 == Signed(u2, IntBits) IN
  CASE op = "MUL"    -> Low(u1 * u2)
    [] op = "MULH"   -> Low((s1 * s2) \div 2^IntBits)
    [] op = "MULHSU" -> Low((s1 * u2) \div 2^IntBits)
    [] op = "MULHU"  -> Low((u1 * u2) \div 2^IntBits)

multiply64(op, in1, in2) ==
  CASE op = "MUL"    -> mul_low(in1, in2)
    [] op = "MULH"   -> mul_high_signed(in1, in2)
    [] op = "MULHSU" -> mul_high_signed_unsigned(in1, in2)
    [] op = "MULHU"  -> mul_high_unsigned64(in1, in2)

division(w, op, a, b) ==
  LET sa == Signed(a, w)  sb == Signed(b, w)  overflow == a = 2^(w - 1) /\ b = 2^w - 1 IN
  CASE op = "DIV"  -> IF b = 0 THEN 2^w - 1 ELSE IF overflow THEN a ELSE Unsigned(Quotient(sa, sb), w)
    [] op = "DIVU" -> IF b = 0 THEN 2^w - 1 ELSE a \div b
    [] op = "REM"  -> IF b = 0 THEN a ELSE IF overflow THEN 0 ELSE Unsigned(sa - sb * Quotient(sa, sb), w)
    [] op = "REMU" -> IF b = 0 THEN a ELSE a % b

-----------------------------------------------------------------------------
(* What the manual asks of them. *)

\* The remainder has the dividend's sign and is smaller than the divisor.
DivideOK(x, y, q, r) ==
  /\ x = q * y + r
  /\ (IF r < 0 THEN -r ELSE r) < (IF y < 0 THEN -y ELSE y)
  /\ r # 0 => (r < 0) = (x < 0)

\* Bits of a product of w-bit numbers from w up, of operands read as signed or not.
HighPart(w, a, b, sa, sb) ==
  LET x == Signed(a, w)  y == Signed(b, w) IN
  ((x * y) \div 2^w + (IF ~sa /\ x < 0 THEN y ELSE 0) + (IF ~sb /\ y < 0 THEN x ELSE 0)) % 2^w

MultiplicationOK(w, op, a, b, v) ==
  CASE op = "MUL"    -> v = (Signed(a, w) * Signed(b, w)) % 2^w
    [] op = "MULH"   -> v = HighPart(w, a, b, TRUE, TRUE)
    [] op = "MULHSU" -> v = HighPart(w, a, b, TRUE, FALSE)
    [] op = "MULHU"  -> v = HighPart(w, a, b, FALSE, FALSE)

DivisionOK(w, op, a, b, v) ==
  LET x == Signed(a, w)  y == Signed(b, w) IN
  CASE op = "DIV"  -> IF b = 0 THEN v = 2^w - 1
                      ELSE IF x = -(2^(w - 1)) /\ y = -1 THEN v = a
                      ELSE DivideOK(x, y, Signed(v, w), x - Signed(v, w) * y)
    [] op = "DIVU" -> IF b = 0 THEN v = 2^w - 1 ELSE v * b <= a /\ a - v * b < b
    [] op = "REM"  -> IF b = 0 THEN v = a
                      ELSE IF y = -1 THEN v = 0
                      ELSE \E q \in {Quotient(x - Signed(v, w), y)} : DivideOK(x, y, q, Signed(v, w))
    [] op = "REMU" -> IF b = 0 THEN v = a ELSE v < b /\ (a - v) % b = 0 /\ v <= a
=============================================================================
