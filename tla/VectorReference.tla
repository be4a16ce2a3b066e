--------------------------- MODULE VectorReference ---------------------------
(***************************************************************************)
(* What the vector architecture asks of one instruction, as a function of  *)
(* the register file before it: every source is read first, the active     *)
(* elements of the body get their value, everything else is undisturbed.   *)
(* Arithmetic is given by its meaning (a sum and its carry, a polynomial   *)
(* product, a quotient), not by the loops of the code.                     *)
(***************************************************************************)
EXTENDS VectorUnit

WideOps     == WAddOps \cup WMulOps \cup WMacOps \cup {"vwsll"}
MaskDestOps == CmpOps \cup {"vmadc", "vmsbc"} \cup FirstOps \cup LogicalOps
MaskSrcOps  == FirstOps \cup LogicalOps \cup {"viota", "vfirst", "vcpop_m"}
WideSrcOps  == NarrowOps \cup {"vnclip", "vnclipu"}
MaskFreeOps == CarryOps \cup LogicalOps \cup {"vmerge", "vmv_v"}
NoOverlap   == FirstOps \cup {"viota", "vslideup", "vslide1up", "vcompress"}
WholeOps    == {"vmv1r", "vmv2r"}

DestWidth(ins) ==
  IF ins.op \in MaskDestOps THEN 1
  ELSE IF ins.op \in WideOps \cup {"vwredsum", "vwredsumu"} THEN 2 * sew ELSE sew

Src2Width(ins) ==
  IF ins.op \in MaskSrcOps THEN 1
  ELSE IF ins.op \in WideSrcOps \/ ins.form \in {"wv", "wx", "wi"} THEN 2 * sew
  ELSE IF ins.op \in ExtOps THEN sew \div Factor(ins) ELSE sew

Src1Width(ins) ==
  IF ins.op \in LogicalOps \cup {"vcompress"} THEN 1
  ELSE IF ins.op \in {"vwredsum", "vwredsumu"} THEN 2 * sew ELSE sew

\* Registers of a group with elements of width w; one for a mask or a scalar.
GroupRegs(w) == LET n == (Vlmax(vtype) * w) \div Vlen IN IF w = 1 \/ n < 1 THEN 1 ELSE n
Group(base, n) == base .. base + n - 1

DestRegs(ins) == IF ins.op \in RedOps \cup {"vmv_s_x", "vmv1r"} THEN 1
                 ELSE IF ins.op = "vmv2r" THEN 2 ELSE GroupRegs(DestWidth(ins))

\* Sources: base register, registers, width.
Sources(ins) ==
  (IF ins.op \in {"vid", "vmv_s_x"} \/ (ins.op = "vmv_v") THEN {}
   ELSE {<<ins.rs2, IF ins.op \in WholeOps THEN DestRegs(ins) ELSE GroupRegs(Src2Width(ins)), Src2Width(ins)>>})
  \cup (IF ins.form \in {"vv", "wv", "vvm", "mm", "vs", "vm"}
        THEN {<<ins.rs1, IF ins.op \in RedOps THEN 1 ELSE GroupRegs(Src1Width(ins)), Src1Width(ins)>>} ELSE {})

\* A destination may share registers with a source of its own width, with the
\* lowest part of a wider one, with the highest part of a narrower one.
OverlapAllowed(ins, src) ==
  LET dw == DestWidth(ins)  n == DestRegs(ins)
      meet == Group(ins.rd, n) \cap Group(src[1], src[2]) # {}
  IN \/ ~meet
     \/ ins.op \in RedOps
     \/ /\ ins.op \notin NoOverlap
        /\ \/ dw <= src[3] /\ ins.rd = src[1]
           \/ dw > src[3] /\ Vlmax(vtype) * src[3] >= Vlen /\ ins.rd + n = src[1] + src[2]

\* An instruction the architecture does not reserve.
Legal(ins) ==
  /\ vtype # Vill \/ ins.op \in WholeOps
  /\ DestWidth(ins) <= Elen /\ Src2Width(ins) <= Elen
  /\ ins.op \in ExtOps => sew >= Factor(ins) * ByteBits
  /\ \A g \in {<<ins.rd, DestRegs(ins)>>} \cup {<<s[1], s[2]>> : s \in Sources(ins)} :
       g[2] <= 8 /\ g[1] % g[2] = 0 /\ g[1] + g[2] <= NRegs
  /\ \A s \in Sources(ins) : OverlapAllowed(ins, s)
  /\ \A s, t \in Sources(ins) : s[3] # t[3] => Group(s[1], s[2]) \cap Group(t[1], t[2]) = {}
  /\ (~ins.vm \/ ins.op \in {"vadc", "vsbc", "vmerge"}) =>
        /\ ins.op \in MaskDestOps \cup RedOps \cup ScalarOps \/ 0 \notin Group(ins.rd, DestRegs(ins))
        /\ \A s \in Sources(ins) : s[3] # 1 => 0 \notin Group(s[1], s[2])

-----------------------------------------------------------------------------
(* Element values.                                                         *)

Old2(ins, i, w) == get_group_element(vreg, ins.rs2, i, w)
Old1(ins, i)    == Operand(vreg, ins, i, sew)
OldD(ins, i, w) == get_group_element(vreg, ins.rd, i, w)

Parity(S) == Cardinality(S) % 2 = 1

\* q with x = q * y + r, |r| < |y|, r of the sign of x.
DivReference(w, x, y) ==
  CHOOSE q \in -(2^w) .. 2^w :
    LET r == x - q * y IN
    /\ (IF r < 0 THEN -r ELSE r) < (IF y < 0 THEN -y ELSE y)
    /\ r = 0 \/ ((r < 0) = (x < 0))

ArithReference(op, w, a, b) ==
  LET s == b % w IN
  CASE op = "vdiv" -> IF b = 0 THEN 2^w - 1 ELSE DivReference(w, Signed(a, w), Signed(b, w)) % 2^w
    [] op = "vsll" -> Gather(w, LAMBDA k : k >= s /\ BitAt(a, k - s) = 1)
    [] op = "vsrl" -> Gather(w, LAMBDA k : k + s < w /\ BitAt(a, k + s) = 1)
    [] op = "vsra" -> Gather(w, LAMBDA k : BitAt(a, IF k + s < w THEN k + s ELSE w - 1) = 1)
    [] op = "vrol" -> Gather(w, LAMBDA k : BitAt(a, (k - s) % w) = 1)
    [] op = "vror" -> Gather(w, LAMBDA k : BitAt(a, (k + s) % w) = 1)
    [] op = "vclmul"  -> Gather(w, LAMBDA k : Parity({j \in 0 .. k : BitAt(b, j) = 1 /\ BitAt(a, k - j) = 1}))
    [] op = "vclmulh" -> Gather(w, LAMBDA k :
                           Parity({j \in k + 1 .. w - 1 : BitAt(b, j) = 1 /\ BitAt(a, w + k - j) = 1}))
    [] op \in ArithOps \ {"vdiv"} -> int_arith(op, w, a, b)
    [] op \in {"vand", "vor", "vxor", "vandn"} -> int_logic_shifts(op, w, a, b)

UnaryReference(op, w, a) ==
  CASE op = "vclz" -> Cardinality({k \in 0 .. w - 1 : a < 2^k})
    [] op = "vctz" -> Cardinality({k \in 1 .. w : a % 2^k = 0})
    [] op = "vcpop" -> MapThenSumSet(LAMBDA k : BitAt(a, k), 0 .. w - 1)
    [] op = "vbrev" -> Gather(w, LAMBDA k : BitAt(a, w - 1 - k) = 1)
    [] op = "vbrev8" -> Gather(w, LAMBDA k : BitAt(a, (k \div ByteBits) * ByteBits + ByteBits - 1 - (k % ByteBits)) = 1)
    [] op = "vrev8" -> Gather(w, LAMBDA k : BitAt(a, w - ByteBits - (k \div ByteBits) * ByteBits + (k % ByteBits)) = 1)

FixedReference(ins, i) ==
  LET w == sew  a == Old2(ins, i, w)  b == Old1(ins, i)
      sa == Signed(a, w)  sb == Signed(b, w)  wide == Old2(ins, i, 2 * w)
      lo == LimitMin(w, TRUE)  hi == LimitMax(w, TRUE)
  IN CASE ins.op = "vsadd"  -> Clip(sa + sb, lo, hi)
       [] ins.op = "vsaddu" -> Clip(a + b, 0, 2^w - 1)
       [] ins.op = "vssub"  -> Clip(sa - sb, lo, hi)
       [] ins.op = "vssubu" -> Clip(a - b, 0, 2^w - 1)
       [] ins.op = "vsmul"  -> Clip(RoundReference(sa * sb, w - 1, vxrm), lo, hi)
       [] ins.op = "vssra"  -> [val |-> RoundReference(sa, b % w, vxrm), sat |-> FALSE]
       [] ins.op = "vssrl"  -> [val |-> RoundReference(a, b % w, vxrm), sat |-> FALSE]
       [] ins.op = "vnclip" -> Clip(RoundReference(Signed(wide, 2 * w), b % (2 * w), vxrm), lo, hi)
       [] ins.op = "vnclipu" -> Clip(RoundReference(wide, b % (2 * w), vxrm), 0, 2^w - 1)

\* Sign-extended when the operand is signed; both operands of a widening form.
Wide2(ins, i, sg) == IF Src2Width(ins) = 2 * sew THEN Old2(ins, i, 2 * sew) ELSE Cast(Old2(ins, i, sew), sew, sg)
Wide1(ins, i, sg) == Cast(Old1(ins, i), sew, sg)
ShiftAmount(ins, i) == IF ins.form \in {"vi", "wi"} THEN ins.x % 2^ImmBits ELSE Old1(ins, i)

Before(ins, i) == {j \in vstart .. i - 1 : is_element_active(vreg, j, ins.vm) /\ get_mask_bit(vreg, ins.rs2, j)}

SlideReference(ins, i) ==
  LET o == Uimm(ins) IN
  CASE ins.op = "vslideup" -> IF i >= o THEN Old2(ins, i - o, sew) ELSE OldD(ins, i, sew)
    [] ins.op = "vslidedown" -> IF i + o < Vlmax(vtype) THEN Old2(ins, i + o, sew) ELSE 0
    [] ins.op = "vslide1up" -> IF i = 0 THEN ins.x % 2^sew ELSE Old2(ins, i - 1, sew)
    [] ins.op = "vslide1down" -> IF i = vl - 1 THEN ins.x % 2^sew ELSE Old2(ins, i + 1, sew)

\* The number written to element i, or the bit when the destination is a mask.
Value(ins, i) ==
  LET op == ins.op  a == Old2(ins, i, sew)  b == Old1(ins, i)  W == 2^(2 * sew)
      cin == IF get_mask_bit(vreg, 0, i) THEN 1 ELSE 0
      mcin == IF ins.vm THEN 0 ELSE cin
  IN CASE op \in ArithOps \cup LogicOps -> ArithReference(op, sew, a, b)
       [] op = "vrsub"    -> (b - a) % 2^sew
       [] op \in CmpOps   -> int_cmp(op, sew, a, b)
       [] op = "vnsrl" -> (Old2(ins, i, 2 * sew) \div 2^(ShiftAmount(ins, i) % (2 * sew))) % 2^sew
       [] op = "vnsra" -> (Signed(Old2(ins, i, 2 * sew), 2 * sew) \div 2^(ShiftAmount(ins, i) % (2 * sew))) % 2^sew
       [] op \in MacOps   -> mac(op, sew, a, b, OldD(ins, i, sew))
       [] op = "vwmaccu"  -> (OldD(ins, i, 2 * sew) + b * a) % W
       [] op = "vwmacc"   -> (OldD(ins, i, 2 * sew) + Signed(b, sew) * Signed(a, sew)) % W
       [] op = "vwmaccus" -> (OldD(ins, i, 2 * sew) + b * Signed(a, sew)) % W
       [] op = "vwmaccsu" -> (OldD(ins, i, 2 * sew) + Signed(b, sew) * a) % W
       [] op \in {"vwadd", "vwaddu"} -> (Wide2(ins, i, op = "vwadd") + Wide1(ins, i, op = "vwadd")) % W
       [] op \in {"vwsub", "vwsubu"} -> (Wide2(ins, i, op = "vwsub") - Wide1(ins, i, op = "vwsub")) % W
       [] op = "vwmul"    -> (Signed(a, sew) * Signed(b, sew)) % W
       [] op = "vwmulu"   -> (a * b) % W
       [] op = "vwmulsu"  -> (Signed(a, sew) * b) % W
       [] op = "vwsll"    -> (a * 2^(ShiftAmount(ins, i) % (2 * sew))) % W
       [] op = "vadc"     -> (a + b + cin) % 2^sew
       [] op = "vsbc"     -> (a - b - cin) % 2^sew
       [] op = "vmadc"    -> a + b + mcin >= 2^sew
       [] op = "vmsbc"    -> a - b - mcin < 0
       [] op \in ExtOps   -> Cast(Old2(ins, i, sew \div Factor(ins)), sew \div Factor(ins), op \in SignExtOps) % 2^sew
       [] op = "vmsbf"    -> Before(ins, i) = {} /\ ~get_mask_bit(vreg, ins.rs2, i)
       [] op = "vmsif"    -> Before(ins, i) = {}
       [] op = "vmsof"    -> Before(ins, i) = {} /\ get_mask_bit(vreg, ins.rs2, i)
       [] op = "viota"    -> Cardinality(Before(ins, i)) % 2^sew
       [] op \in LogicalOps -> mask_logical(op, get_mask_bit(vreg, ins.rs2, i), get_mask_bit(vreg, ins.rs1, i))
       [] op \in UnaryOps -> UnaryReference(op, sew, a)
       [] op \in SlideOps -> SlideReference(ins, i)
       [] op = "vmerge"   -> IF cin = 1 THEN b ELSE a
       [] op = "vmv_v"    -> b
       [] op = "vid"      -> i % 2^sew
       [] op = "vmv_s_x"  -> ins.x % 2^sew
       [] op \in FixedOps -> FixedReference(ins, i).val % 2^sew
       [] op = "vcompress" -> Old2(ins, CHOOSE j \in 0 .. vl - 1 :
                                /\ get_mask_bit(vreg, ins.rs1, j)
                                /\ Cardinality({k \in 0 .. j - 1 : get_mask_bit(vreg, ins.rs1, k)}) = i, sew)
       [] op \in RedOps   ->
            ( get_group_element(vreg, ins.rs1, 0, DestWidth(ins))
              + MapThenSumSet(LAMBDA j : Cast(Old2(ins, j, sew), sew, op = "vwredsum"),
                              {j \in 0 .. vl - 1 : is_element_active(vreg, j, ins.vm)}) ) % 2^DestWidth(ins)

\* The elements an instruction writes.
Body(ins) ==
  CASE ins.op \in RedOps \cup {"vmv_s_x"} -> IF vstart < vl THEN {0} ELSE {}
    [] ins.op = "vcompress" -> 0 .. Cardinality({j \in 0 .. vl - 1 : get_mask_bit(vreg, ins.rs1, j)}) - 1
    [] ins.op = "vslideup" -> {i \in vstart .. vl - 1 : i >= Uimm(ins) /\ is_element_active(vreg, i, ins.vm)}
    [] ins.op \in MaskFreeOps -> vstart .. vl - 1
    [] ins.op \notin RedOps \cup {"vmv_s_x", "vcompress", "vslideup"} \cup MaskFreeOps ->
         {i \in vstart .. vl - 1 : is_element_active(vreg, i, ins.vm)}

ExpectedMask(ins) ==
  LET body == Body(ins) IN
  [j \in 0 .. NBytes - 1 |->
     IF j \div VlenBytes # ins.rd THEN vreg[j]
     ELSE Gather(ByteBits, LAMBDA k :
            LET i == (j % VlenBytes) * ByteBits + k IN
            IF i \in body THEN Value(ins, i) ELSE BitAt(vreg[j], k) = 1)]

ExpectedElements(ins) ==
  LET n == DestWidth(ins) \div ByteBits
      val == [i \in Body(ins) |-> Value(ins, i)]
  IN [j \in 0 .. NBytes - 1 |->
        LET at == j - ins.rd * VlenBytes  i == at \div n IN
        IF at >= 0 /\ i \in DOMAIN val THEN (val[i] \div 2^(ByteBits * (at % n))) % 2^ByteBits ELSE vreg[j]]

ExpectedWhole(ins) ==
  [j \in 0 .. NBytes - 1 |->
     LET at == j - ins.rd * VlenBytes IN
     IF at >= vstart * (sew \div ByteBits) /\ at < DestRegs(ins) * VlenBytes
     THEN vreg[ins.rs2 * VlenBytes + at] ELSE vreg[j]]

Expected(ins) ==
  IF ins.op \in WholeOps THEN ExpectedWhole(ins)
  ELSE IF ins.op \in ScalarOps THEN vreg
  ELSE IF ins.op \in MaskDestOps THEN ExpectedMask(ins) ELSE ExpectedElements(ins)

ExpectedScalar(ins) ==
  LET S == {i \in 0 .. vl - 1 : is_element_active(vreg, i, ins.vm) /\ get_mask_bit(vreg, ins.rs2, i)} IN
  CASE ins.op = "vcpop_m" -> Cardinality(S)
    [] ins.op = "vfirst"  -> IF S = {} THEN -1 ELSE CHOOSE i \in S : \A j \in S : i <= j
    [] ins.op = "vmv_x_s" -> Signed(Old2(ins, 0, sew), sew)
    [] ins.op \notin ScalarOps -> xrd

-----------------------------------------------------------------------------
(* Where the code is known to leave the architecture.                      *)

\* Saturating rounding whose biased value leaves the arithmetic type.
BiasOverflows(ins) ==
  \/ ins.op \in {"vssra", "vssrl"} /\ sew >= IntBits
  \/ ins.op \in {"vnclip", "vnclipu", "vsmul"} /\ 2 * sew >= IntBits

KnownDeviation(ins) ==
  \/ ins.op = "vrsub" /\ Body(ins) # {}                         \* Decoder.cpp:1108: decoded, never executed
  \/ ins.op \in {"vwmulu", "vwmulsu"} /\ sew = 4 * ByteBits     \* VectorInteger.cpp:1561, 1570, 1580, 1588
  \/ ins.op \in RedOps \cup {"vmv_s_x"} /\ vstart >= vl         \* written although the body is empty
  \/ ins.op = "vslidedown" /\ vl < Vlmax(vtype)                 \* VectorPermute.cpp:73: vl, not VLMAX
  \/ ins.op = "vslidedown" /\ Uimm(ins) + vl > 2^IntBits        \* VectorPermute.cpp:73: i + offset wraps
  \/ ins.op = "vslideup" /\ Uimm(ins) >= 2^IntBits              \* VectorPermute.cpp: the offset is cut to 32 bits
  \/ ins.op = "vnclipu"                                         \* VectorFixedPoint.cpp:384: the source is signed
  \/ BiasOverflows(ins) /\ vxrm \in {0, 1}                      \* VectorHelpers.hpp:336

Executed == last = NoInstr /\ last' # NoInstr /\ ~trapped'

\* The state after an instruction is the architecture's: reading and writing in place, with
\* destination and sources sharing registers in every way that is not reserved, equals reading
\* all the sources first; inactive, prestart and tail elements are undisturbed; vxsat is sticky
\* and records exactly the saturation of the active elements; and vstart is 0, so that the next
\* instruction starts with its first element.
VectorExact ==
  [][Executed /\ Legal(last') /\ ~KnownDeviation(last') =>
       /\ vreg' = Expected(last') /\ xrd' = ExpectedScalar(last')
       /\ vxsat' = (vxsat \/ (last'.op \in FixedOps
                               /\ \E i \in Body(last') : FixedReference(last', i).sat))
       /\ vstart' = 0]_vecVars
=============================================================================
