----------------------------- MODULE FixedPoint -----------------------------
(***************************************************************************)
(* The element arithmetic of the vector unit that has a carry, a           *)
(* saturation or a rounding: VectorHelpers.hpp and the head of             *)
(* VectorInteger.cpp.  An element of width w is a number below 2^w;        *)
(* signed operations see it through Signed.  M stands for 2^w where the    *)
(* code only needs the range of the type.                                  *)
(***************************************************************************)
EXTENDS Integers

CONSTANT IntBits       \* width of int: narrower operands are promoted to it

ASSUME FixedPointAssumption == IntBits \in Nat \ {0}

Signed(v, w)    == IF v >= 2^(w - 1) THEN v - 2^w ELSE v
Unsigned(x, w)  == x % 2^w
Cast(v, w, sg)  == IF sg THEN Signed(v, w) ELSE v

LimitMin(w, sg) == IF sg THEN -(2^(w - 1)) ELSE 0
LimitMax(w, sg) == IF sg THEN 2^(w - 1) - 1 ELSE 2^w - 1

-----------------------------------------------------------------------------
(* Carry and borrow.                                                       *)

CarrySum(M, val2, val1, carry_in) == (val2 + val1 + (IF carry_in THEN 1 ELSE 0)) % M

calc_carry_out(M, val2, val1, carry_in) ==
  IF carry_in THEN CarrySum(M, val2, val1, carry_in) <= val2
              ELSE CarrySum(M, val2, val1, carry_in) < val2

calc_borrow_out(M, val2, val1, borrow_in) ==
  IF borrow_in THEN val2 <= val1 ELSE val2 < val1

-----------------------------------------------------------------------------
(* Saturation: the result and whether it was clipped.                      *)

Clip(x, lo, hi) ==
  [val |-> IF x < lo THEN lo ELSE IF x > hi THEN hi ELSE x, sat |-> x < lo \/ x > hi]

sat_add_signed(w, a, b) == Clip(a + b, LimitMin(w, TRUE), LimitMax(w, TRUE))
sat_sub_signed(w, a, b) == Clip(a - b, LimitMin(w, TRUE), LimitMax(w, TRUE))

\* The sum wraps first and the wrap is recognised by comparison.
sat_add_unsigned(M, a, b) ==
  LET res == (a + b) % M IN
  IF res < a THEN [val |-> M - 1, sat |-> TRUE] ELSE [val |-> res, sat |-> FALSE]

sat_sub_unsigned(M, a, b) ==
  IF a < b THEN [val |-> 0, sat |-> TRUE] ELSE [val |-> a - b, sat |-> FALSE]

-----------------------------------------------------------------------------
(* Rounding: vxrm is 0 rnu, 1 rne, 2 rdown, 3 rod.                         *)

\* v + round_bit in the type of v, or in int when that is wider.
Biased(v, d, w, sg) ==
  LET x == v + 2^(d - 1)  b == IF w < IntBits THEN IntBits ELSE w IN
  IF sg THEN Signed(x % 2^b, b) ELSE x % 2^b

Rounded(v, d, vxrm, w, sg) ==
  LET down == v \div 2^d
      fractional == v % 2^d
      up == Biased(v, d, w, sg) \div 2^d
  IN CASE d = 0    -> v
       [] vxrm = 0 /\ d > 0 -> up
       [] vxrm = 1 /\ d > 0 -> IF fractional = 2^(d - 1) THEN down + (down % 2) ELSE up
       [] vxrm = 2 /\ d > 0 -> down
       [] vxrm = 3 /\ d > 0 -> IF fractional # 0 /\ down % 2 = 0 THEN down + 1 ELSE down

\* Source of width w and signedness sg, destination of width dw and signedness dsg.
round_and_clip(v, d, vxrm, w, sg, dw, dsg) ==
  Clip(Rounded(v, d, vxrm, w, sg), LimitMin(dw, dsg), LimitMax(dw, dsg))

execute_vsmul_element(w, vs2, vs1, vxrm) ==
  Clip(Rounded(vs2 * vs1, w - 1, vxrm, 2 * w, TRUE), LimitMin(w, TRUE), LimitMax(w, TRUE))

-----------------------------------------------------------------------------
(* What the architecture asks of a rounded right shift: the shifted value  *)
(* plus an increment read off the bits shifted out.                        *)
BitAt(v, k) == (v \div 2^k) % 2

Increment(v, d, vxrm) ==
  CASE d = 0    -> 0
    [] vxrm = 0 /\ d > 0 -> BitAt(v, d - 1)
    [] vxrm = 1 /\ d > 0 -> IF BitAt(v, d - 1) = 1 /\ (v % 2^(d - 1) # 0 \/ BitAt(v, d) = 1) THEN 1 ELSE 0
    [] vxrm = 2 /\ d > 0 -> 0
    [] vxrm = 3 /\ d > 0 -> IF BitAt(v, d) = 0 /\ v % 2^d # 0 THEN 1 ELSE 0

RoundReference(v, d, vxrm) == v \div 2^d + Increment(v, d, vxrm)
=============================================================================
