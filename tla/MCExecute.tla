------------------------------ MODULE MCExecute ------------------------------
(* The decode stage and the execution units, one at a time: unit is the part a *)
(* behaviour exercises.                                                        *)
EXTENDS VectorReference, VectorMemory, DecodeReference, IntegerReference, FloatReference, Reservation

CONSTANT Units         \* the parts of this run
VARIABLE unit          \* the part at work in this behaviour

-----------------------------------------------------------------------------
(* The vector unit on bytes of two bits: SEW 2, 4, 8 and 16 stand for 8, 16,   *)
(* 32 and 64, and a register holds sixteen bits.                               *)

Ins(op, form, regs, vm, x) ==
  [op |-> op, form |-> form, rd |-> regs[1], rs1 |-> regs[2], rs2 |-> regs[3], vm |-> vm, x |-> x]

\* Disjoint, destination equal to one source, both sources, a mask destination on v0.
Triples == {<<2, 4, 3>>, <<2, 3, 2>>, <<2, 2, 4>>, <<0, 3, 2>>}

Group1(ops, forms) ==
  {Ins(op, form, regs, vm, x) :
     op \in ops, form \in forms, regs \in Triples, vm \in BOOLEAN, x \in {0}}
Group2(ops, forms, xs) ==
  {Ins(op, form, regs, vm, x) :
     op \in ops, form \in forms, regs \in {<<2, 0, 4>>, <<2, 0, 2>>, <<0, 0, 2>>}, vm \in BOOLEAN, x \in xs}

SomeInstructions ==
  Group1(ArithOps \cup LogicOps \cup MacOps \cup WAddOps \cup WMulOps \cup WMacOps \cup (FixedOps \ {"vnclip", "vnclipu"})
           \cup (CmpOps \ {"vmsgt", "vmsgtu"}) \cup CarryOps \cup {"vwsll"}, {"vv"})
  \cup Group1(WAddOps \cup NarrowOps \cup {"vnclip", "vnclipu"}, {"wv"})
  \cup Group1(LogicalOps, {"mm"}) \cup Group1(RedOps, {"vs"}) \cup Group1({"vcompress"}, {"vm"}) \cup Group1({"vmerge"}, {"vvm"})
  \cup Group2({"vadd", "vrsub", "vdiv", "vmax", "vsra", "vclmulh", "vmsgt", "vmsgtu", "vmacc", "vwmul", "vadc", "vmadc", "vmsbc",
               "vslideup", "vslidedown", "vslide1up", "vslide1down", "vmerge", "vsmul", "vssubu"}, {"vx"}, {3, 141})
  \cup Group2({"vwadd", "vnclip", "vnsra"}, {"wx"}, {3, 141})
  \cup Group2({"vadd", "vrsub", "vslideup", "vslidedown", "vwsll", "vmseq", "vssra"}, {"vi"}, {-3, 2})
  \cup Group2({"vnsra", "vnclip"}, {"wi"}, {-3, 2})
  \cup Group2(ExtOps \cup FirstOps \cup UnaryOps \cup ScalarOps \cup {"viota", "vid", "vmv_s_x", "vmv1r", "vmv2r", "vmv_v"}, {"v"}, {141})

\* Register files that look random, with mask bits of every kind in v0.
Pattern(seed) == [j \in 0 .. NBytes - 1 |-> ((seed + 7 * j + j * j * (seed + 2)) \div 3) % 2^ByteBits]
SomePatterns  == {Pattern(1), Pattern(8)}

Setting(w, l, avl) == [sew |-> w, lmul |-> l, reserved |-> FALSE, avl |-> avl]
SomeSettings ==
  { Setting(0, 0, 7), Setting(0, 0, -1), Setting(1, 0, 3), Setting(1, 1, 9), Setting(2, 0, 2), Setting(2, 1, -2),
    Setting(0, 7, 4), Setting(1, 4, 3), Setting(3, 0, 3), [sew |-> 1, lmul |-> 0, reserved |-> TRUE, avl |-> 3] }


-----------------------------------------------------------------------------
MemIns(op, eew, nf, rd, rs2, vm, base, stride) ==
  [op |-> op, eew |-> eew, nf |-> nf, rd |-> rd, rs2 |-> rs2, vm |-> vm, base |-> base, stride |-> stride]

\* Unit stride and segments, strides of both signs and zero, indices that are overwritten,
\* whole registers; the last two cross pages.
SomeMemOps ==
  {MemIns(op, eew, nf, 2, 0, vm, 4, 0) : op \in {"vle", "vse"}, eew \in {2, 4}, nf \in {0, 1}, vm \in BOOLEAN}
  \cup {MemIns(op, 2, 0, 2, 0, vm, 12, s) : op \in {"vlse", "vsse"}, vm \in BOOLEAN, s \in {-1, 0, 3}}
  \cup {MemIns(op, w, 0, 2, rs2, vm, 8, 0) : op \in {"vluxei", "vsuxei"}, w \in {2, 4, 16}, rs2 \in {2, 4}, vm \in BOOLEAN}
  \cup {MemIns("vlre", 4, 1, 2, 0, TRUE, 2, 0), MemIns("vsr", 4, 1, 2, 0, TRUE, 2, 0)}
  \cup {MemIns("vse", 4, 0, 2, 0, TRUE, 5, 0), MemIns("vle", 4, 0, 2, 0, TRUE, 5, 0)}

MemSettings == {Setting(0, 0, 7), Setting(1, 0, 3), Setting(1, 1, 9), Setting(2, 0, 2)}

Configure ==
  /\ pending = NoMem /\ before = NoBefore /\ vreg \in Patterns
  /\ \/ \E s \in Settings : (unit = "vector" \/ s \in MemSettings) /\ execute_vector_config(s)
     \/ \E v \in {0, 1} : write_vstart(v)

\* The guest goes on with the operands it began with.
MemRefill ==
  /\ pending = NoMem /\ before # NoBefore
  /\ vreg' = before.r /\ mem' = before.m /\ before' = NoBefore
  /\ UNCHANGED <<vl, vtype, vstart, vxrm, vxsat, xrd, last, trapped, present, pending, tval>>

MCMemNext ==
  \/ \E ins \in MemOps : before = NoBefore /\ MemIssue(ins)
  \/ MemExecute
  \/ PageIn
  \/ MemRefill

-----------------------------------------------------------------------------
(* Decode: every halfword, and for each opcode every value of the fields that
   select an operation. *)

Full == {"I", "M", "A", "F", "D", "C", "B", "V", "S", "U"}
Hart(xlen, profile, misa, fs, vs) ==
  [xlen |-> xlen, profile |-> profile, misa |-> misa, fs |-> fs, vs |-> vs, compressed |-> FALSE]

Default(xlen) == Hart(xlen, "default", Full, 1, 1)
FieldWords(codes, f3s, f7s, rs2s, rs1s, rds) ==
  [opcode : codes, rd : rds, funct3 : f3s, rs1 : rs1s, rs2 : rs2s, funct7 : f7s]

HalfRows ==
  {[hart |-> [Default(x) EXCEPT !.compressed = TRUE], words |-> {8192 * f3 + 1024 * hi + 4 * lo + q : lo \in 0 .. 255}] :
     x \in {32, 64}, f3 \in 0 .. 7, hi \in 0 .. 7, q \in 0 .. 2}

Chunks == {16 * i .. 16 * i + 15 : i \in 0 .. 7}
WordSets ==
  {FieldWords({c}, {f3}, f7s, {0, 1, 2, 4, 5, 7, 24, 31}, {3}, {1}) : c \in {19, 27}, f3 \in {1, 5}, f7s \in Chunks}
  \cup {FieldWords({c}, 0 .. 7, f7s, {0, 3}, {3}, {1}) : c \in {51, 59, 47}, f7s \in Chunks}
  \cup {FieldWords({c}, 0 .. 7, {0, 64}, {0, 3}, {3}, {1}) : c \in {0, 3, 11, 15, 19, 23, 27, 35, 55, 99, 103, 111, 127}}
  \cup {FieldWords({83}, {f3}, f7s, 0 .. 4, {3}, {1}) : f3 \in 0 .. 7, f7s \in Chunks}
  \cup {FieldWords({67, 71, 75, 79}, {0}, f7s, {0}, {3}, {1}) : f7s \in Chunks}
  \cup {FieldWords({c}, {f3}, f7s, {0, 5, 8}, {3}, {1}) : c \in {7, 39}, f3 \in 0 .. 7, f7s \in Chunks}
  \cup {FieldWords({115}, {0}, f7s, 0 .. 5, {0, 1}, {0, 1}) : f7s \in Chunks} \cup {FieldWords({115}, 1 .. 7, {0}, {0}, {3}, {1})}
  \cup {FieldWords({87}, {f3}, f7s, {0, 3}, 0 .. 17, {1}) : f3 \in {1, 2, 3}, f7s \in Chunks}
  \cup {FieldWords({87}, {f3}, f7s, {0, 3}, {2}, {1}) : f3 \in {0, 4, 5, 6, 7}, f7s \in Chunks}

\* The profiles, and the units off, on words of each extension.
GatedSets ==
  {FieldWords({51, 47}, 0 .. 7, {0, 1, 5, 8}, {0}, {3}, {1}), FieldWords({83}, {0}, {0, 1, 32, 33}, {0, 1}, {3}, {1}),
   FieldWords({7, 39}, 0 .. 7, {1}, {0}, {3}, {1}), FieldWords({87}, 0 .. 7, {1, 49}, {0}, {3}, {1}), FieldWords({67}, {0}, {0, 1}, {0}, {3}, {1})}
GatedHarts ==
  {Hart(64, "I", {"I"}, 1, 1), Hart(64, "IMAC", {"I", "M", "A", "C"}, 1, 1), Hart(64, "GC", Full \ {"B", "V"}, 1, 1),
   Hart(64, "default", Full, 0, 1), Hart(64, "default", Full, 1, 0), Hart(32, "default", Full, 0, 0)}

SomeRows ==
  HalfRows \cup {[hart |-> Default(x), words |-> ws] : x \in {32, 64}, ws \in WordSets}
           \cup {[hart |-> h, words |-> ws] : h \in GatedHarts, ws \in GatedSets}


-----------------------------------------------------------------------------
(* Integers: boundary values of both widths. *)

SomeValues == {0, 1, 2, 3, 7, 9, 127, 128, 129, 255, 256, 4660, 32767, 32768, 32769, 42179, 65407, 65408, 65409, 65534, 65535}
SomePcs == {0, 4, 126, 32766, 65532}

IntRow(opcode, op, xlen) == [opcode |-> opcode, op |-> op, xlen |-> xlen, len |-> 4, c |-> TRUE, imm |-> 0, word |-> FALSE]
BOps == {"SH1ADD", "SH2ADD", "SH3ADD", "ANDN", "ORN", "XNOR", "CLZ", "CTZ", "CPOP", "MIN", "MAX", "MINU", "MAXU", "SEXT_B", "SEXT_H",
         "ROL", "ROR", "BSET", "BCLR", "BINV", "BEXT", "ORC_B", "REV8", "PACK", "CLMUL", "CLMULH", "CLMULR"}

\* Length and misa.C: without C every instruction has four bytes.
Formats == {<<2, TRUE>>, <<4, TRUE>>, <<4, FALSE>>}

SomeIntRows ==
  {IntRow("Op", op, x) : op \in BaseOps \cup MulOps \cup DivOps \cup BOps, x \in {8, 16}}
  \cup {IntRow("Op32", op, 16) : op \in DOMAIN WordOp \cup DOMAIN WordForm \cup DOMAIN WideForm \cup {"SLLI_UW"}}
  \cup {[IntRow("Amo", op, 16) EXCEPT !.word = w] : op \in DOMAIN AmoAs, w \in BOOLEAN}
  \cup {IntRow("System", op, 16) : op \in {"CSRRW", "CSRRS", "CSRRC"}}
  \cup {[IntRow(code, "", x) EXCEPT !.len = f[1], !.c = f[2]] : code \in {"Lui", "Auipc", "Jal", "Jalr"}, x \in {8, 16}, f \in Formats}
  \cup {[IntRow("Branch", op, x) EXCEPT !.len = f[1], !.c = f[2], !.imm = i] :
          op \in {"BEQ", "BNE", "BLT", "BGE", "BLTU", "BGEU"}, x \in {8, 16}, f \in Formats, i \in {6, 65532}}

-----------------------------------------------------------------------------
(* Floating point: singles of six bits and doubles of twelve, with zeros,      *)
(* subnormals, the largest and least numbers, infinities and both kinds of NaN *)
(* of either sign, and registers that are not boxed.                           *)

SingleFormat == [e |-> 3, m |-> 2]
DoubleFormat == [e |-> 5, m |-> 6]

FpRow(op, f, rm) == [op |-> op, f |-> f, rm |-> rm, frm |-> "RNE", fflags |-> {}, mode |-> 0]
Modes == {"RNE", "RTZ", "RDN", "RUP", "RMM"}
ModeOps  == {"FADD", "FSUB", "FMUL", "FDIV", "FSQRT", "FCVT_F_F"} \cup FusedOps
ExactOps == {"FSGNJ", "FSGNJN", "FSGNJX", "FMIN", "FMAX", "FEQ", "FLT", "FLE", "FMV_X_F", "FCLASS", "FMV_F_X", "FL", "FS"}

\* The dynamic mode, reserved modes, and flags that were raised before.
SomeFloatRows ==
  {FpRow(op, f, rm) : op \in ModeOps, f \in {Single, Double}, rm \in Modes}
  \cup {FpRow(op, f, "RNE") : op \in ExactOps, f \in {Single, Double}}
  \cup {[FpRow(op, f, rm) EXCEPT !.mode = mode] : op \in {"FCVT_I_F", "FCVT_F_I"}, f \in {Single, Double}, rm \in Modes, mode \in 0 .. 3}
  \cup {[FpRow(op, Single, "DYN") EXCEPT !.frm = frm, !.fflags = fl] :
          op \in {"FADD", "FMADD", "FCVT_I_F"}, frm \in {"RUP", "reserved"}, fl \in {{}, {"DZ", "NX"}}}
  \cup {FpRow("FMUL", Single, "reserved")}

Singles == {0, 1, 3, 4, 8, 12, 13, 17, 26, 27, 28, 29, 31}
SomeFloats ==
  {Boxer + x : x \in Singles \cup {x + 32 : x \in Singles}}
  \cup {5, 65, 992, 1000, 1024, 1100, 1300, 2016, 2017, 2047, 2048, 3040, 3041, 3072}
SomeFused == {Boxer + x : x \in {0, 1, 13, 27, 28, 33, 45, 60}} \cup {5, 63, 992, 1000, 3040, 2048}

-----------------------------------------------------------------------------
unitVars == <<unit, vecVars, memVars, decodeVars, intVars, resVars, fpVars>>

UnitInit ==
  /\ unit \in Units
  /\ VecInit /\ MemInit /\ DecodeInit /\ IntInit /\ ResInit /\ FloatInit
  /\ unit # "memory" => present = 0 .. Pages - 1
  /\ unit # "vector" => vreg = Pattern(8)
  /\ unit = "memory" => present \in {{}, {0, 2}}

OnVector(A)  == unit = "vector" /\ A /\ UNCHANGED <<unit, memVars, decodeVars, intVars, resVars, fpVars>>
OnMemory(A)  == unit = "memory" /\ A /\ UNCHANGED <<unit, decodeVars, intVars, resVars, fpVars>>
OnDecode(A)  == unit = "decode" /\ A /\ UNCHANGED <<unit, vecVars, memVars, intVars, resVars, fpVars>>
OnInteger(A) == unit = "integer" /\ A /\ UNCHANGED <<unit, vecVars, memVars, decodeVars, resVars, fpVars>>
OnFloat(A)   == unit = "float" /\ A /\ UNCHANGED <<unit, vecVars, memVars, decodeVars, intVars, resVars>>

\* Bounds: the rounding mode matters to the fixed-point instructions only, and the widest elements
\* are for the extensions (their products would leave TLC's integers).
UnitNext ==
  \/ \E ins \in Instructions : OnVector((vxrm = 0 \/ ins.op \in FixedOps) /\ (sew = Elen => ins.op \in ExtOps) /\ execute_vector(ins))
  \/ \E m \in 0 .. 3 : OnVector(write_vcsr(m, FALSE))
  \/ OnVector(Refill)
  \/ unit \in {"vector", "memory"} /\ Configure /\ UNCHANGED <<unit, memVars, decodeVars, intVars, resVars, fpVars>>
  \/ OnMemory(MCMemNext)
  \/ \E d \in DecodeRows : OnDecode(decoded = <<>> /\ run_decode_stage(d.hart, d.words))
  \/ OnDecode(decoded # <<>> /\ hart' = NoHart /\ decoded' = <<>>)
  \/ \E r \in IntRows : OnInteger(row = NoRow /\ execute_row(r))
  \/ OnInteger(row # NoRow /\ row' = NoRow /\ pipelined' = <<>> /\ cached' = <<>>)
  \/ \E i \in FpInstructions : OnFloat(fpRow = NoFpRow /\ run_row(i))
  \/ OnFloat(fpRow # NoFpRow /\ fpRow' = NoFpRow /\ fpResults' = <<>>)
  \/ unit = "reservation" /\ ResNext /\ UNCHANGED <<unit, vecVars, memVars, decodeVars, intVars, fpVars>>

\* The processor goes on executing and the guest's handler returns.
UnitSpec ==
  /\ UnitInit /\ [][UnitNext]_unitVars
  /\ WF_unitVars(OnMemory(MemExecute)) /\ WF_unitVars(OnMemory(PageIn))
=============================================================================
