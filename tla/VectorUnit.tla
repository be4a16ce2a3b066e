----------------------------- MODULE VectorUnit -----------------------------
(***************************************************************************)
(* The vector unit: the register file, vsetvl, and the element loops of    *)
(* the integer, fixed-point and permutation instructions.  An instruction  *)
(* writes its destination element by element while it reads its sources    *)
(* from the same register file; the properties compare that with the       *)
(* architecture, where all sources are read first.                         *)
(*                                                                         *)
(* The register file is one array of bytes: register r is the bytes        *)
(* r * VlenBytes .. , and a group continues into the next register, which  *)
(* wraps at the last one as the & 0x1F of the code does.                   *)
(***************************************************************************)
EXTENDS VectorAlu, Sequences

CONSTANTS NRegs,        \* vector registers: 32
          VlenBytes,    \* bytes of a register
          ImmBits,      \* bits of the immediate field: 5
          Patterns,     \* bound: contents of the register file the guest loads
          Instructions, \* bound: instructions the guest issues
          Settings      \* bound: operands of vsetvl

VARIABLES vreg,         \* the register file
          vl, vtype,    \* vtype: [sew, num, den], LMUL = num / den; or Vill
          vstart, vxrm, vxsat,
          xrd,          \* scalar result of vmv.x.s, vfirst and vcpop
          last,         \* the instruction just executed, or NoInstr
          trapped       \* it raised IllegalInstruction

vecVars == <<vreg, vl, vtype, vstart, vxrm, vxsat, xrd, last, trapped>>

NBytes  == NRegs * VlenBytes
Vlen    == VlenBytes * ByteBits
Elen    == 8 * ByteBits
NoInstr == [op |-> "none"]
Vill    == [sew |-> ByteBits, num |-> 0, den |-> 1]

sew == vtype.sew

-----------------------------------------------------------------------------
(* Elements and mask bits of the register file r.                          *)

get_group_element(r, base, i, w) ==
  LET n == w \div ByteBits  at == base * VlenBytes + i * n IN
  MapThenSumSet(LAMBDA k : r[(at + k) % NBytes] * 2^(ByteBits * k), 0 .. n - 1)

set_group_element(r, base, i, w, val) ==
  LET n == w \div ByteBits  at == base * VlenBytes + i * n IN
  [j \in 0 .. NBytes - 1 |->
     LET k == (j - at) % NBytes IN
     IF k < n THEN (val \div 2^(ByteBits * k)) % 2^ByteBits ELSE r[j]]

get_mask_bit(r, reg, i) ==
  BitAt(r[reg * VlenBytes + i \div ByteBits], i % ByteBits) = 1

set_mask_bit(r, reg, i, val) ==
  LET j == reg * VlenBytes + i \div ByteBits
      old == BitAt(r[j], i % ByteBits)
  IN [r EXCEPT ![j] = @ + 2^(i % ByteBits) * ((IF val THEN 1 ELSE 0) - old)]

is_element_active(r, i, vm) == vm \/ get_mask_bit(r, 0, i)

\* The operand of vs1, the scalar (the low w bits of the register) or the immediate.
Operand(r, ins, i, w) ==
  IF ins.form \in {"vv", "wv", "vvm", "mm"} THEN get_group_element(r, ins.rs1, i, w) ELSE ins.x % 2^w

\* Shift amount of a vi form that masks the immediate with 0x1F first.
Uimm(ins) == IF ins.form \in {"vi", "wi"} THEN ins.x % 2^ImmBits ELSE ins.x

-----------------------------------------------------------------------------
(* The loop every instruction runs: i from vstart to vl - 1.               *)

For(first, end, st0, Step(_, _)) ==
  LET loop[i \in (first - 1) .. (end - 1)] == IF i < first THEN st0 ELSE Step(loop[i - 1], i)
  IN  IF first < end THEN loop[end - 1] ELSE st0

\* One element of width w per active index, from the registers as they are then.
Elements(ins, w, Val(_, _)) ==
  For(vstart, vl, vreg, LAMBDA r, i :
        IF is_element_active(r, i, ins.vm) THEN set_group_element(r, ins.rd, i, w, Val(r, i)) ELSE r)

\* The same with no mask: v0 is data.
Unmasked(ins, w, Val(_, _)) ==
  For(vstart, vl, vreg, LAMBDA r, i : set_group_element(r, ins.rd, i, w, Val(r, i)))

\* perform_vv, perform_vx, perform_vi.
perform(ins, Op(_, _)) ==
  Elements(ins, sew, LAMBDA r, i : Op(get_group_element(r, ins.rs2, i, sew), Operand(r, ins, i, sew)))

perform_compare(ins, Op(_, _)) ==
  For(vstart, vl, vreg, LAMBDA r, i :
        IF is_element_active(r, i, ins.vm)
        THEN set_mask_bit(r, ins.rd, i, Op(get_group_element(r, ins.rs2, i, sew), Operand(r, ins, i, sew)))
        ELSE r)

-----------------------------------------------------------------------------
(* Widening and narrowing.  A w form reads vs2 at twice the width.         *)

WideVal2(r, ins, i, sg) ==
  IF ins.form \in {"wv", "wx"} THEN get_group_element(r, ins.rs2, i, 2 * sew)
  ELSE Cast(get_group_element(r, ins.rs2, i, sew), sew, sg)

execute_vwadd(ins, sg) ==
  Elements(ins, 2 * sew, LAMBDA r, i :
    (WideVal2(r, ins, i, sg) + Cast(Operand(r, ins, i, sew), sew, sg)) % 2^(2 * sew))

execute_vwsub(ins, sg) ==
  Elements(ins, 2 * sew, LAMBDA r, i :
    (WideVal2(r, ins, i, sg) - Cast(Operand(r, ins, i, sew), sew, sg)) % 2^(2 * sew))

execute_vwmul(ins, sg) ==
  Elements(ins, 2 * sew, LAMBDA r, i :
    (WideVal2(r, ins, i, sg) * Cast(Operand(r, ins, i, sew), sew, sg)) % 2^(2 * sew))

\* vs2 signed, vs1 unsigned.
execute_vwmulsu(ins) ==
  Elements(ins, 2 * sew, LAMBDA r, i :
    (WideVal2(r, ins, i, TRUE) * Operand(r, ins, i, sew)) % 2^(2 * sew))

\* val1 of signedness sg1, val2 of signedness sg2, added to the old element of vd.
perform_widening_mac(ins, sg1, sg2) ==
  Elements(ins, 2 * sew, LAMBDA r, i :
    ( get_group_element(r, ins.rd, i, 2 * sew)
      + Cast(Operand(r, ins, i, sew), sew, sg1) * Cast(get_group_element(r, ins.rs2, i, sew), sew, sg2)
    ) % 2^(2 * sew))

\* vnsrl and vnsra: vs2 of twice the width, shifted by the low bits of vs1.
execute_vnsr(ins, sg) ==
  Elements(ins, sew, LAMBDA r, i :
    LET s == (IF ins.form = "wv" THEN get_group_element(r, ins.rs1, i, sew) ELSE Uimm(ins)) % (2 * sew)
    IN  (Cast(get_group_element(r, ins.rs2, i, 2 * sew), 2 * sew, sg) \div 2^s) % 2^sew)

\* vsext and vzext read all their sources before the first write.
execute_vsext(ins, factor, sg) ==
  Elements(ins, sew, LAMBDA r, i :
    Cast(get_group_element(vreg, ins.rs2, i, sew \div factor), sew \div factor, sg) % 2^sew)

\* vwsll does too.
execute_vwsll(ins) ==
  Elements(ins, 2 * sew, LAMBDA r, i :
    LET s == (IF ins.form = "vv" THEN get_group_element(vreg, ins.rs1, i, sew) ELSE Uimm(ins)) % (2 * sew)
    IN  (get_group_element(vreg, ins.rs2, i, sew) * 2^s) % 2^(2 * sew))

-----------------------------------------------------------------------------
(* Carries: v0 is the carry in of every element.                           *)

CarryIn(r, ins, i) == ~ins.vm /\ get_mask_bit(r, 0, i)

execute_vadc(ins) ==
  Unmasked(ins, sew, LAMBDA r, i :
    CarrySum(2^sew, get_group_element(r, ins.rs2, i, sew), Operand(r, ins, i, sew), get_mask_bit(r, 0, i)))

execute_vsbc(ins) ==
  Unmasked(ins, sew, LAMBDA r, i :
    ( get_group_element(r, ins.rs2, i, sew) - Operand(r, ins, i, sew)
      - (IF get_mask_bit(r, 0, i) THEN 1 ELSE 0) ) % 2^sew)

execute_vmadc(ins) ==
  For(vstart, vl, vreg, LAMBDA r, i :
    set_mask_bit(r, ins.rd, i,
      calc_carry_out(2^sew, get_group_element(r, ins.rs2, i, sew), Operand(r, ins, i, sew), CarryIn(r, ins, i))))

execute_vmsbc(ins) ==
  For(vstart, vl, vreg, LAMBDA r, i :
    set_mask_bit(r, ins.rd, i,
      calc_borrow_out(2^sew, get_group_element(r, ins.rs2, i, sew), Operand(r, ins, i, sew), CarryIn(r, ins, i))))

-----------------------------------------------------------------------------
(* Reductions, masks and permutations.                                     *)

\* vredsum (the sum keeps the width) and vwredsum (vs1 and the sum are wide).
execute_vredsum(ins, dw, sg) ==
  LET sum == For(vstart, vl, get_group_element(vreg, ins.rs1, 0, dw), LAMBDA s, i :
               IF is_element_active(vreg, i, ins.vm)
               THEN (s + Cast(get_group_element(vreg, ins.rs2, i, sew), sew, sg)) % 2^dw ELSE s)
  IN  set_group_element(vreg, ins.rd, 0, dw, sum)

\* vmsbf, vmsif and vmsof: one pass with the flag found_first.
execute_vmsf(ins) ==
  For(vstart, vl, [r |-> vreg, found |-> FALSE], LAMBDA st, i :
    LET bit == get_mask_bit(st.r, ins.rs2, i)
        res == CASE ins.op = "vmsbf" -> ~st.found /\ ~bit
                 [] ins.op = "vmsif" -> ~st.found
                 [] ins.op = "vmsof" -> ~st.found /\ bit
    IN  IF ~is_element_active(st.r, i, ins.vm) THEN st
        ELSE [r |-> set_mask_bit(st.r, ins.rd, i, res), found |-> st.found \/ bit]).r

execute_viota(ins) ==
  For(vstart, vl, [r |-> vreg, count |-> 0], LAMBDA st, i :
    IF ~is_element_active(st.r, i, ins.vm) THEN st
    ELSE LET q == set_group_element(st.r, ins.rd, i, sew, st.count) IN
         [r |-> q, count |-> (st.count + (IF get_mask_bit(q, ins.rs2, i) THEN 1 ELSE 0)) % 2^sew]).r

execute_mask_logical(ins) ==
  For(vstart, vl, vreg, LAMBDA r, i :
    set_mask_bit(r, ins.rd, i, mask_logical(ins.op, get_mask_bit(r, ins.rs2, i), get_mask_bit(r, ins.rs1, i))))

ActiveSet(ins) == {i \in vstart .. vl - 1 : is_element_active(vreg, i, ins.vm) /\ get_mask_bit(vreg, ins.rs2, i)}

execute_vfirst(ins) == IF ActiveSet(ins) = {} THEN -1 ELSE Min(ActiveSet(ins))
execute_vcpop(ins)  == Cardinality(ActiveSet(ins))

\* Mutant: the index of the destination advances with every element, not with the picked ones.
execute_vcompress_unpacked(ins) ==
  For(vstart, vl, vreg, LAMBDA r, i :
    IF get_mask_bit(vreg, ins.rs1, i) THEN set_group_element(r, ins.rd, i, sew, get_group_element(vreg, ins.rs2, i, sew)) ELSE r)

\* Sources first, then packed from element 0.
execute_vcompress(ins) ==
  LET picked == For(vstart, vl, <<>>, LAMBDA s, i :
                  IF get_mask_bit(vreg, ins.rs1, i) THEN Append(s, get_group_element(vreg, ins.rs2, i, sew)) ELSE s)
  IN  For(0, Len(picked), vreg, LAMBDA r, i : set_group_element(r, ins.rd, i, sew, picked[i + 1]))

\* The slides copy vs2 (elements 0 .. vl - 1) first; offsets are 32-bit (IntBits here).
Offset(ins) == Uimm(ins) % 2^IntBits

execute_vslideup(ins) ==
  For(IF Offset(ins) > vstart THEN Offset(ins) ELSE vstart, vl, vreg, LAMBDA r, i :
    IF is_element_active(r, i, ins.vm)
    THEN set_group_element(r, ins.rd, i, sew, get_group_element(vreg, ins.rs2, i - Offset(ins), sew)) ELSE r)

execute_vslidedown(ins) ==
  Elements(ins, sew, LAMBDA r, i :
    LET j == (i + Offset(ins)) % 2^IntBits IN
    IF j < vl THEN get_group_element(vreg, ins.rs2, j, sew) ELSE 0)

execute_vslide1down(ins) ==
  Elements(ins, sew, LAMBDA r, i :
    IF i + 1 < vl THEN get_group_element(vreg, ins.rs2, i + 1, sew) ELSE ins.x % 2^sew)

execute_vslide1up(ins) ==
  Elements(ins, sew, LAMBDA r, i :
    IF i > 0 THEN get_group_element(vreg, ins.rs2, i - 1, sew) ELSE ins.x % 2^sew)

execute_vmerge(ins) ==
  Unmasked(ins, sew, LAMBDA r, i :
    IF get_mask_bit(r, 0, i) THEN Operand(r, ins, i, sew) ELSE get_group_element(r, ins.rs2, i, sew))

execute_vid(ins) == Elements(ins, sew, LAMBDA r, i : i % 2^sew)

\* vmv<n>r.v: byte by byte, from byte vstart * (sew / 8).
execute_vmv_whole(ins, nr) ==
  For(vstart * (sew \div ByteBits), nr * VlenBytes, vreg, LAMBDA r, k :
    [r EXCEPT ![(ins.rd * VlenBytes + k) % NBytes] = r[(ins.rs2 * VlenBytes + k) % NBytes]])

-----------------------------------------------------------------------------
(* Fixed point: every active element may set vxsat.                        *)

\* The value of one element and whether it saturates.
saturating_element(op, w, a, b) ==
  CASE op = "vsadd"  -> sat_add_signed(w, Signed(a, w), Signed(b, w))
    [] op = "vsaddu" -> sat_add_unsigned(2^w, a, b)
    [] op = "vssub"  -> sat_sub_signed(w, Signed(a, w), Signed(b, w))
    [] op = "vssubu" -> sat_sub_unsigned(2^w, a, b)

rounding_element(op, w, a, b, wide) ==
  LET s == b % w  sa == Signed(a, w) IN
  CASE op = "vsmul" -> execute_vsmul_element(w, sa, Signed(b, w), vxrm)
    [] op = "vssra" -> [round_and_clip(sa, s, vxrm, w, TRUE, w, TRUE) EXCEPT !.sat = FALSE]
    [] op = "vssrl" -> [round_and_clip(a, s, vxrm, w, FALSE, w, FALSE) EXCEPT !.sat = FALSE]
    [] op \in {"vnclip", "vnclipu"} ->
         round_and_clip(Signed(wide, 2 * w), b % (2 * w), vxrm, 2 * w, TRUE, w, op = "vnclip")

fixed_point_element(ins, r, i) ==
  LET a == get_group_element(r, ins.rs2, i, sew)
      b == Operand(r, ins, i, sew)
  IN  IF ins.op \in {"vsadd", "vsaddu", "vssub", "vssubu"} THEN saturating_element(ins.op, sew, a, b)
      ELSE rounding_element(ins.op, sew, a, b, get_group_element(r, ins.rs2, i, 2 * sew))

execute_vector_fixed_point(ins) ==
  For(vstart, vl, [r |-> vreg, sat |-> FALSE], LAMBDA st, i :
    IF ~is_element_active(st.r, i, ins.vm) THEN st
    ELSE LET e == fixed_point_element(ins, st.r, i) IN
         [r |-> set_group_element(st.r, ins.rd, i, sew, e.val % 2^sew), sat |-> st.sat \/ e.sat])

-----------------------------------------------------------------------------
(* Which loop an operation runs: the switch statements.                    *)

ArithOps  == {"vadd", "vsub", "vmul", "vdiv", "vdivu", "vminu", "vmin", "vmaxu", "vmax"}
LogicOps  == {"vand", "vor", "vxor", "vandn", "vsll", "vsrl", "vsra", "vrol", "vror", "vclmul", "vclmulh"}
CmpOps    == {"vmseq", "vmsne", "vmslt", "vmsltu", "vmsle", "vmsleu", "vmsgt", "vmsgtu"}
NarrowOps == {"vnsrl", "vnsra"}
MacOps    == {"vmacc", "vmadd", "vnmsac", "vnmsub"}
WMacOps   == {"vwmaccu", "vwmacc", "vwmaccus", "vwmaccsu"}
WAddOps   == {"vwadd", "vwaddu", "vwsub", "vwsubu"}
WMulOps   == {"vwmul", "vwmulu", "vwmulsu"}
RedOps    == {"vredsum", "vwredsum", "vwredsumu"}
CarryOps  == {"vadc", "vsbc", "vmadc", "vmsbc"}
ExtOps    == {"vsext2", "vzext2", "vsext4", "vzext4", "vsext8", "vzext8"}
SignExtOps == {"vsext2", "vsext4", "vsext8"}
FirstOps  == {"vmsbf", "vmsif", "vmsof"}
LogicalOps == {"vmand", "vmnand", "vmandn", "vmxor", "vmor", "vmnor", "vmorn", "vmxnor"}
UnaryOps  == {"vclz", "vctz", "vcpop", "vbrev", "vbrev8", "vrev8"}
FixedOps  == {"vsadd", "vsaddu", "vssub", "vssubu", "vsmul", "vssra", "vssrl", "vnclip", "vnclipu"}
SlideOps  == {"vslideup", "vslidedown", "vslide1up", "vslide1down"}

execute_vector_int_arith(ins) == perform(ins, LAMBDA a, b : int_arith(ins.op, sew, a, b))
execute_vector_int_logic_shifts(ins) == perform(ins, LAMBDA a, b : int_logic_shifts(ins.op, sew, a, b))
execute_vector_int_cmp(ins) == perform_compare(ins, LAMBDA a, b : int_cmp(ins.op, sew, a, b))
execute_vector_int_narrow_shifts(ins) == execute_vnsr(ins, ins.op = "vnsra")

perform_mac(ins) ==
  Elements(ins, sew, LAMBDA r, i :
    mac(ins.op, sew, get_group_element(r, ins.rs2, i, sew), Operand(r, ins, i, sew),
        get_group_element(r, ins.rd, i, sew)))

\* The scalar or vs1 is val1.
execute_vector_int_mac(ins) ==
  CASE ins.op \in MacOps     -> perform_mac(ins)
    [] ins.op = "vwmaccu"  -> perform_widening_mac(ins, FALSE, FALSE)
    [] ins.op = "vwmacc"   -> perform_widening_mac(ins, TRUE, TRUE)
    [] ins.op = "vwmaccus" -> perform_widening_mac(ins, FALSE, TRUE)
    [] ins.op = "vwmaccsu" -> perform_widening_mac(ins, TRUE, FALSE)

WideningAddSub(ins) ==
  IF ins.op \in {"vwadd", "vwaddu"} THEN execute_vwadd(ins, ins.op = "vwadd")
                                    ELSE execute_vwsub(ins, ins.op = "vwsub")

\* vwmulu and vwmulsu have a branch for 8, 16 and 64 and none for 32.
WideningMul(ins) ==
  CASE ins.op = "vwmul" -> execute_vwmul(ins, TRUE)
    [] ins.op # "vwmul" /\ sew = 4 * ByteBits -> vreg
    [] ins.op = "vwmulu"  /\ sew # 4 * ByteBits -> execute_vwmul(ins, FALSE)
    [] ins.op = "vwmulsu" /\ sew # 4 * ByteBits -> execute_vwmulsu(ins)

Reduction(ins) ==
  CASE ins.op = "vredsum"   -> execute_vredsum(ins, sew, FALSE)
    [] ins.op = "vwredsum"  -> execute_vredsum(ins, 2 * sew, TRUE)
    [] ins.op = "vwredsumu" -> execute_vredsum(ins, 2 * sew, FALSE)

Factor(ins) == CASE ins.op \in {"vsext2", "vzext2"} -> 2 [] ins.op \in {"vsext4", "vzext4"} -> 4 [] ins.op \in {"vsext8", "vzext8"} -> 8

\* An extension whose source would be narrower than a byte does nothing.
Extension(ins) ==
  IF sew >= Factor(ins) * ByteBits THEN execute_vsext(ins, Factor(ins), ins.op \in SignExtOps) ELSE vreg

execute_vector_int_carry_ext(ins) ==
  CASE ins.op = "vadc"  -> execute_vadc(ins)
    [] ins.op = "vsbc"  -> execute_vsbc(ins)
    [] ins.op = "vmadc" -> execute_vmadc(ins)
    [] ins.op = "vmsbc" -> execute_vmsbc(ins)
    [] ins.op \in ExtOps -> Extension(ins)

MaskOp(ins) ==
  CASE ins.op \in FirstOps -> execute_vmsf(ins)
    [] ins.op \in LogicalOps -> execute_mask_logical(ins)
    [] ins.op = "viota" -> execute_viota(ins)

Bitmanip(ins) ==
  IF ins.op = "vwsll" THEN execute_vwsll(ins)
  ELSE Elements(ins, sew, LAMBDA r, i : unary(ins.op, sew, get_group_element(r, ins.rs2, i, sew)))

Slide(ins) ==
  CASE ins.op = "vslideup"    -> execute_vslideup(ins)
    [] ins.op = "vslidedown"  -> execute_vslidedown(ins)
    [] ins.op = "vslide1up"   -> execute_vslide1up(ins)
    [] ins.op = "vslide1down" -> execute_vslide1down(ins)

\* vmv.v.* runs the element loop without a mask and returns the second operand.
Move(ins) ==
  CASE ins.op = "vmv_v"  -> Unmasked(ins, sew, LAMBDA r, i : Operand(r, ins, i, sew))
    [] ins.op = "vmv1r"  -> execute_vmv_whole(ins, 1)
    [] ins.op = "vmv2r"  -> execute_vmv_whole(ins, 2)
    [] ins.op = "vmv_s_x" -> set_group_element(vreg, ins.rd, 0, sew, ins.x % 2^sew)
    [] ins.op = "vmerge" -> execute_vmerge(ins)
    [] ins.op = "vid"    -> execute_vid(ins)
    [] ins.op = "vcompress" -> execute_vcompress(ins)

\* vrsub is decoded and has no case: the default of the integer switch leaves vd as it is.
NoCaseOps == {"vrsub"}
MoveOps   == {"vmv_v", "vmv1r", "vmv2r", "vmv_s_x", "vmerge", "vid", "vcompress"}
ScalarOps == {"vmv_x_s", "vfirst", "vcpop_m"}

Registers(ins) ==
  CASE ins.op \in ArithOps  -> execute_vector_int_arith(ins)
    [] ins.op \in LogicOps  -> execute_vector_int_logic_shifts(ins)
    [] ins.op \in CmpOps    -> execute_vector_int_cmp(ins)
    [] ins.op \in NarrowOps -> execute_vector_int_narrow_shifts(ins)
    [] ins.op \in MacOps \cup WMacOps -> execute_vector_int_mac(ins)
    [] ins.op \in WAddOps   -> WideningAddSub(ins)
    [] ins.op \in WMulOps   -> WideningMul(ins)
    [] ins.op \in RedOps    -> Reduction(ins)
    [] ins.op \in CarryOps \cup ExtOps -> execute_vector_int_carry_ext(ins)
    [] ins.op \in FirstOps \cup LogicalOps \cup {"viota"} -> MaskOp(ins)
    [] ins.op \in UnaryOps \cup {"vwsll"} -> Bitmanip(ins)
    [] ins.op \in SlideOps  -> Slide(ins)
    [] ins.op \in MoveOps   -> Move(ins)
    [] ins.op \in FixedOps  -> execute_vector_fixed_point(ins).r
    [] ins.op \in ScalarOps \cup NoCaseOps -> vreg

Scalar(ins) ==
  CASE ins.op = "vfirst"  -> execute_vfirst(ins)
    [] ins.op = "vcpop_m" -> execute_vcpop(ins)
    [] ins.op = "vmv_x_s" -> Signed(get_group_element(vreg, ins.rs2, 0, sew), sew)
    [] ins.op \notin ScalarOps -> xrd

requires_zero_vstart(op) ==
  op \in RedOps \cup FirstOps \cup {"vcpop_m", "vfirst", "viota", "vcompress"}

execute_vector(ins) ==
  /\ last = NoInstr
  /\ last' = ins
  /\ IF vstart # 0 /\ requires_zero_vstart(ins.op)
     THEN trapped' = TRUE /\ UNCHANGED <<vreg, vstart, vxsat, xrd>>
     ELSE /\ trapped' = FALSE
          /\ vreg' = Registers(ins) /\ xrd' = Scalar(ins)
          /\ vxsat' = (vxsat \/ (ins.op \in FixedOps /\ execute_vector_fixed_point(ins).sat))
          /\ vstart' = 0
  /\ UNCHANGED <<vl, vtype, vxrm>>

-----------------------------------------------------------------------------
(* vsetvli, vsetivli, vsetvl.                                              *)

Lmul(field) ==
  CASE field = 0 -> <<1, 1>> [] field = 1 -> <<2, 1>> [] field = 2 -> <<4, 1>> [] field = 3 -> <<8, 1>>
    [] field = 5 -> <<1, 8>> [] field = 6 -> <<1, 4>> [] field = 7 -> <<1, 2>> [] field = 4 -> <<1, 1>>

Vlmax(t) == (Vlen * t.num) \div (t.sew * t.den)

\* vtype of the requested fields, Vill when they are not supported.
NewVtype(s) ==
  LET l == Lmul(s.lmul)  w == ByteBits * 2^s.sew IN
  IF s.reserved \/ s.sew > 3 \/ s.lmul = 4 \/ l[1] * Elen < w * l[2] THEN Vill
  ELSE [sew |-> w, num |-> l[1], den |-> l[2]]

\* s.avl is the length asked for, -1 for rs1 = x0 with rd # x0, -2 for rs1 = rd = x0.
execute_vector_config(s) ==
  /\ last = NoInstr
  /\ vtype' = NewVtype(s)
  /\ vl' = IF vtype' = Vill THEN 0
           ELSE IF s.avl = -1 THEN Vlmax(vtype')
           ELSE Min({IF s.avl = -2 THEN vl ELSE s.avl % 2^IntBits, Vlmax(vtype')})
  /\ vstart' = 0
  /\ UNCHANGED <<vreg, vxrm, vxsat, xrd, last, trapped>>

\* CSR writes: vstart keeps the bits of an element index, vxrm two bits.
write_vstart(v) ==
  /\ last = NoInstr
  /\ vstart' = v % Vlen
  /\ UNCHANGED <<vreg, vl, vtype, vxrm, vxsat, xrd, last, trapped>>

write_vcsr(m, s) ==
  /\ last = NoInstr
  /\ vxrm' = m % 4 /\ vxsat' = s
  /\ UNCHANGED <<vreg, vl, vtype, vstart, xrd, last, trapped>>

\* The guest loads other operands and goes on to its next instruction.
Refill ==
  /\ last # NoInstr
  /\ vreg' \in Patterns
  /\ last' = NoInstr /\ trapped' = FALSE /\ xrd' = 0 /\ vxsat' = FALSE
  /\ vstart' = 0
  /\ UNCHANGED <<vl, vtype, vxrm>>

VecInit ==
  /\ vreg \in Patterns
  /\ vl = 0 /\ vtype = Vill /\ vstart = 0 /\ vxrm = 0 /\ vxsat = FALSE
  /\ xrd = 0 /\ last = NoInstr /\ trapped = FALSE
=============================================================================
