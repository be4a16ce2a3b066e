------------------------------ MODULE VectorAlu ------------------------------
(***************************************************************************)
(* The element functions of the vector unit's integer instructions: the    *)
(* lambdas of VectorInteger.cpp.  a is the element of vs2 and b that of    *)
(* vs1 (or the scalar, or the immediate), both below 2^w.                  *)
(***************************************************************************)
EXTENDS WordMath, FiniteSets, FiniteSetsExt, Bitwise

CONSTANT ByteBits      \* bits of a byte: 8

ASSUME VectorAluAssumption == ByteBits \in Nat \ {0}

\* The number whose bit k is set exactly when P(k), k < w.
Gather(w, P(_)) == MapThenSumSet(LAMBDA k : 2^k, {k \in 0 .. w - 1 : P(k)})

-----------------------------------------------------------------------------
bit_reverse(w, v) == Gather(w, LAMBDA k : BitAt(v, w - 1 - k) = 1)

bit_reverse_bytes(w, v) ==
  MapThenSumSet(LAMBDA y : 2^(y * ByteBits) * bit_reverse(ByteBits, (v \div 2^(y * ByteBits)) % 2^ByteBits),
                0 .. w \div ByteBits - 1)

byteswap_element(w, v) ==
  MapThenSumSet(LAMBDA y : 2^(w - (y + 1) * ByteBits) * ((v \div 2^(y * ByteBits)) % 2^ByteBits),
                0 .. w \div ByteBits - 1)

clmul_low(w, u2, u1) ==
  FoldSet(LAMBDA i, res : res ^^ ((u2 * 2^i) % 2^w), 0, {i \in 0 .. w - 1 : BitAt(u1, i) = 1})

clmul_high(w, u2, u1) ==
  FoldSet(LAMBDA i, res : res ^^ (u2 \div 2^(w - i)), 0, {i \in 1 .. w - 1 : BitAt(u1, i) = 1})

rotl(w, v, shift) == LET s == shift % w IN ((v * 2^s) % 2^w) + v \div 2^(w - s)
rotr(w, v, shift) == rotl(w, v, w - (shift % w))

-----------------------------------------------------------------------------
vdiv(w, a, b) ==
  IF b = 0 THEN 2^w - 1
  ELSE IF a = 2^(w - 1) /\ b = 2^w - 1 THEN a
  ELSE Unsigned(Quotient(Signed(a, w), Signed(b, w)), w)

int_arith(op, w, a, b) ==
  LET sa == Signed(a, w)  sb == Signed(b, w) IN
  CASE op = "vadd"  -> (a + b) % 2^w
    [] op = "vsub"  -> (a - b) % 2^w
    [] op = "vmul"  -> (a * b) % 2^w
    [] op = "vdiv"  -> vdiv(w, a, b)
    [] op = "vdivu" -> IF b = 0 THEN 2^w - 1 ELSE a \div b
    [] op = "vminu" -> IF b < a THEN b ELSE a
    [] op = "vmin"  -> IF sb < sa THEN b ELSE a
    [] op = "vmaxu" -> IF a < b THEN b ELSE a
    [] op = "vmax"  -> IF sa < sb THEN b ELSE a

int_logic_shifts(op, w, a, b) ==
  LET s == b % w IN
  CASE op = "vand"    -> a & b
    [] op = "vor"     -> a | b
    [] op = "vxor"    -> a ^^ b
    [] op = "vandn"   -> a & (2^w - 1 - b)
    [] op = "vsll"    -> (a * 2^s) % 2^w
    [] op = "vsrl"    -> a \div 2^s
    [] op = "vsra"    -> Unsigned(Signed(a, w) \div 2^s, w)
    [] op = "vrol"    -> rotl(w, a, b)
    [] op = "vror"    -> rotr(w, a, b)
    [] op = "vclmul"  -> clmul_low(w, a, b)
    [] op = "vclmulh" -> clmul_high(w, a, b)

int_cmp(op, w, a, b) ==
  LET sa == Signed(a, w)  sb == Signed(b, w) IN
  CASE op = "vmseq"  -> a = b
    [] op = "vmsne"  -> a # b
    [] op = "vmslt"  -> sa < sb
    [] op = "vmsltu" -> a < b
    [] op = "vmsle"  -> sa <= sb
    [] op = "vmsleu" -> a <= b
    [] op = "vmsgt"  -> sa > sb
    [] op = "vmsgtu" -> a > b

mask_logical(op, bit2, bit1) ==
  CASE op = "vmand"  -> bit2 /\ bit1
    [] op = "vmnand" -> ~(bit2 /\ bit1)
    [] op = "vmandn" -> bit2 /\ ~bit1
    [] op = "vmxor"  -> bit2 # bit1
    [] op = "vmor"   -> bit2 \/ bit1
    [] op = "vmnor"  -> ~(bit2 \/ bit1)
    [] op = "vmorn"  -> bit2 \/ ~bit1
    [] op = "vmxnor" -> bit2 = bit1

\* vclz, vctz, vcpop and the three reversals.
unary(op, w, a) ==
  CASE op = "vclz"   -> IF a = 0 THEN w ELSE w - 1 - Max({k \in 0 .. w - 1 : BitAt(a, k) = 1})
    [] op = "vctz"   -> IF a = 0 THEN w ELSE Min({k \in 0 .. w - 1 : BitAt(a, k) = 1})
    [] op = "vcpop"  -> Cardinality({k \in 0 .. w - 1 : BitAt(a, k) = 1})
    [] op = "vbrev"  -> bit_reverse(w, a)
    [] op = "vbrev8" -> bit_reverse_bytes(w, a)
    [] op = "vrev8"  -> byteswap_element(w, a)

\* dest is the old element of vd; both products are taken modulo 2^w.
mac(op, w, val2, val1, dest) ==
  CASE op = "vmacc"  -> (dest + val1 * val2) % 2^w
    [] op = "vnmsac" -> (dest - val1 * val2) % 2^w
    [] op = "vmadd"  -> (val2 + val1 * dest) % 2^w
    [] op = "vnmsub" -> (val2 - val1 * dest) % 2^w
=============================================================================
