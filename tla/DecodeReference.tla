--------------------------- MODULE DecodeReference ---------------------------
(* What the instruction set manual says an encoding means, arranged as the     *)
(* manual arranges it: one row per instruction with the values of the fields    *)
(* that fix it, and for a compressed instruction the bit of the immediate each  *)
(* bit of the encoding carries. Reserved encodings have no row.                 *)
EXTENDS Decode, FiniteSetsExt

All(n) == 0 .. 2^n - 1

Enc(op, code, f3s, f7s) ==
  [op |-> op, code |-> code, f3s |-> f3s, f7s |-> f7s, rs1s |-> All(5), rs2s |-> All(5), rds |-> All(5), ext |-> "I", xlens |-> {32, 64}]

\* A list of mnemonics by funct3; "" where the manual has none.
ByFunct3(names, code, f7s) == {Enc(names[i], code, {i - 1}, f7s) : i \in {j \in DOMAIN names : names[j] # ""}}
Of(ext, rows) == {[r EXCEPT !.ext = ext] : r \in rows}
Wide(rows)    == {[r EXCEPT !.xlens = {64}] : r \in rows}
Narrow(rows)  == {[r EXCEPT !.xlens = {32}] : r \in rows}
Imm12(op, code, f3, imm) == [Enc(op, code, {f3}, {imm \div 32}) EXCEPT !.rs2s = {imm % 32}]

BaseRows ==
  {Enc("LUI", 55, All(3), All(7)), Enc("AUIPC", 23, All(3), All(7)), Enc("JAL", 111, All(3), All(7)),
   Enc("JALR", 103, {0}, All(7)), Enc("FENCE", 15, {0}, All(7)), Enc("FENCE_I", 15, {1}, All(7)), Enc("VCHECK", 11, All(3), All(7))}
  \cup ByFunct3(<<"BEQ", "BNE", "", "", "BLT", "BGE", "BLTU", "BGEU">>, 99, All(7))
  \cup ByFunct3(<<"LB", "LH", "LW", "", "LBU", "LHU">>, 3, All(7)) \cup Wide(ByFunct3(<<"", "", "", "LD", "", "", "LWU">>, 3, All(7)))
  \cup ByFunct3(<<"SB", "SH", "SW">>, 35, All(7)) \cup Wide({Enc("SD", 35, {3}, All(7))})
  \cup ByFunct3(<<"ADDI", "", "SLTI", "SLTIU", "XORI", "", "ORI", "ANDI">>, 19, All(7))
  \cup {Enc("SLLI", 19, {1}, {0}), Enc("SRLI", 19, {5}, {0}), Enc("SRAI", 19, {5}, {32})}
  \cup Wide({Enc("SLLI", 19, {1}, {1}), Enc("SRLI", 19, {5}, {1}), Enc("SRAI", 19, {5}, {33}), Enc("ADDIW", 27, {0}, All(7)),
             Enc("SLLIW", 27, {1}, {0}), Enc("SRLIW", 27, {5}, {0}), Enc("SRAIW", 27, {5}, {32})})
  \cup ByFunct3(<<"ADD", "SLL", "SLT", "SLTU", "XOR", "SRL", "OR", "AND">>, 51, {0})
  \cup ByFunct3(<<"SUB", "", "", "", "", "SRA">>, 51, {32})
  \cup Wide(ByFunct3(<<"ADDW", "SLLW", "", "", "", "SRLW">>, 59, {0}) \cup ByFunct3(<<"SUBW", "", "", "", "", "SRAW">>, 59, {32}))
  \cup ByFunct3(<<"", "CSRRW", "CSRRS", "CSRRC", "", "CSRRWI", "CSRRSI", "CSRRCI">>, 115, All(7))
  \cup {[Imm12(p[1], 115, 0, p[2]) EXCEPT !.rs1s = {0}, !.rds = {0}] :
          p \in {<<"ECALL", 0>>, <<"EBREAK", 1>>, <<"SRET", 258>>, <<"MRET", 770>>, <<"WFI", 261>>}}
  \cup {[Enc("SFENCE_VMA", 115, {0}, {9}) EXCEPT !.rds = {0}]}

\* Zba, Zbb, Zbc and Zbs. A shift amount of six bits spans two values of funct7 on RV64.
BitRows ==
  ByFunct3(<<"", "", "SH1ADD", "", "SH2ADD", "", "SH3ADD">>, 51, {16})
  \cup ByFunct3(<<"", "", "", "", "XNOR", "", "ORN", "ANDN">>, 51, {32})
  \cup ByFunct3(<<"", "CLMUL", "CLMULR", "CLMULH", "MIN", "MINU", "MAX", "MAXU">>, 51, {5})
  \cup ByFunct3(<<"", "ROL", "", "", "", "ROR">>, 51, {48}) \cup {Enc("BSET", 51, {1}, {20})}
  \cup ByFunct3(<<"", "BCLR", "", "", "", "BEXT">>, 51, {36}) \cup {Enc("BINV", 51, {1}, {52})}
  \cup {Imm12("CLZ", 19, 1, 1536), Imm12("CTZ", 19, 1, 1537), Imm12("CPOP", 19, 1, 1538), Imm12("SEXT_B", 19, 1, 1540),
        Imm12("SEXT_H", 19, 1, 1541), Imm12("ORC_B", 19, 5, 647)}
  \cup {Enc("RORI", 19, {5}, {48}), Enc("BEXTI", 19, {5}, {36}), Enc("BCLRI", 19, {1}, {36}), Enc("BSETI", 19, {1}, {20}),
        Enc("BINVI", 19, {1}, {52})}
  \cup Wide({Enc("RORI", 19, {5}, {49}), Enc("BEXTI", 19, {5}, {37}), Enc("BCLRI", 19, {1}, {37}), Enc("BSETI", 19, {1}, {21}),
             Enc("BINVI", 19, {1}, {53}), Imm12("REV8", 19, 5, 1720), Imm12("CLZW", 27, 1, 1536), Imm12("CTZW", 27, 1, 1537),
             Imm12("CPOPW", 27, 1, 1538), Enc("SLLI_UW", 27, {1}, {4, 5}), Enc("RORIW", 27, {5}, {48}),
             Enc("ADD_UW", 59, {0}, {4})}
            \cup ByFunct3(<<"", "", "SH1ADD_UW", "", "SH2ADD_UW", "", "SH3ADD_UW">>, 59, {16})
            \cup ByFunct3(<<"", "ROLW", "", "", "", "RORW">>, 59, {48}))
  \cup Narrow({Imm12("REV8", 19, 5, 1688)})
  \* ZEXT.H: the pack of the low half with x0.
  \cup Narrow({[Enc("PACK", 51, {4}, {4}) EXCEPT !.rs2s = {0}]}) \cup Wide({[Enc("PACKW", 59, {4}, {4}) EXCEPT !.rs2s = {0}]})

MulRows ==
  ByFunct3(<<"MUL", "MULH", "MULHSU", "MULHU", "DIV", "DIVU", "REM", "REMU">>, 51, {1})
  \cup Wide(ByFunct3(<<"MULW", "", "", "", "DIVW", "DIVUW", "REMW", "REMUW">>, 59, {1}))

\* aq and rl are the two low bits of funct7.
AtomicRows ==
  UNION { LET w == [Enc(p[1] \o "_W", 47, {2}, {4 * p[2] + i : i \in 0 .. 3}) EXCEPT !.rs2s = IF p[1] = "LR" THEN {0} ELSE All(5)]
          IN {w} \cup Wide({[w EXCEPT !.op = p[1] \o "_D", !.f3s = {3}]}) :
          p \in {<<"AMOADD", 0>>, <<"AMOSWAP", 1>>, <<"LR", 2>>, <<"SC", 3>>, <<"AMOXOR", 4>>, <<"AMOOR", 8>>, <<"AMOAND", 12>>,
                 <<"AMOMIN", 16>>, <<"AMOMAX", 20>>, <<"AMOMINU", 24>>, <<"AMOMAXU", 28>>} }

\* One precision of F and D: fmt 0 is S, 1 is D. The rounding mode takes funct3 where it is not an opcode.
FloatRows(fmt) ==
  LET X  == IF fmt = 0 THEN "_S" ELSE "_D"
      f7(f5) == {4 * f5 + fmt}
      Rm == All(3) \ {5, 6}
      Arith(op, f5) == Enc(op \o X, 83, Rm, f7(f5))
      Sel(op, f5, f3) == Enc(op \o X, 83, {f3}, f7(f5))
      Conv(to, from, f5, n) == [Enc((("FCVT_" \o to) \o "_") \o from, 83, Rm, f7(f5)) EXCEPT !.rs2s = {n}]
      P  == IF fmt = 0 THEN "S" ELSE "D"
  IN {Arith("FADD", 0), Arith("FSUB", 1), Arith("FMUL", 2), Arith("FDIV", 3), [Arith("FSQRT", 11) EXCEPT !.rs2s = {0}]}
     \cup {Sel("FSGNJ", 4, 0), Sel("FSGNJN", 4, 1), Sel("FSGNJX", 4, 2), Sel("FMIN", 5, 0), Sel("FMAX", 5, 1),
           Sel("FLE", 20, 0), Sel("FLT", 20, 1), Sel("FEQ", 20, 2), [Sel("FCLASS", 28, 1) EXCEPT !.rs2s = {0}]}
     \cup {Conv("W", P, 24, 0), Conv("WU", P, 24, 1), Conv(P, "W", 26, 0), Conv(P, "WU", 26, 1)}
     \cup Wide({Conv("L", P, 24, 2), Conv("LU", P, 24, 3), Conv(P, "L", 26, 2), Conv(P, "LU", 26, 3)})
     \cup {Enc(p[2] \o X, p[1], Rm, {4 * r + fmt : r \in All(5)}) :
             p \in {<<67, "FMADD">>, <<71, "FMSUB">>, <<75, "FNMSUB">>, <<79, "FNMADD">>}}

FpMoves ==
  LET Move(op, f5, fmt) == [Enc(op, 83, {0}, {4 * f5 + fmt}) EXCEPT !.rs2s = {0}]
  IN Of("F", {Move("FMV_X_W", 28, 0), Move("FMV_W_X", 30, 0)}) \cup Of("D", Wide({Move("FMV_X_D", 28, 1), Move("FMV_D_X", 30, 1)}))

FpRows ==
  Of("F", FloatRows(0)) \cup Of("D", FloatRows(1)) \cup FpMoves
  \cup Of("D", {[Enc("FCVT_S_D", 83, All(3) \ {5, 6}, {32}) EXCEPT !.rs2s = {1}], [Enc("FCVT_D_S", 83, {0}, {33}) EXCEPT !.rs2s = {0}]})
  \cup Of("F", {Enc("FLW", 7, {2}, All(7)), Enc("FSW", 39, {2}, All(7))})
  \cup Of("D", {Enc("FLD", 7, {3}, All(7)), Enc("FSD", 39, {3}, All(7))})

-----------------------------------------------------------------------------
(* V: the mnemonic, funct6 and the operand forms it has. *)

VecEnc(name, f6, f3, vms) == Enc(name, 87, {f3}, {2 * f6 + vm : vm \in vms})
OpiF3(form) == CASE form \in {"VV", "WV", "VVM", "VS"} -> 0 [] form \in {"VI", "WI", "VIM"} -> 3 [] form \in {"VX", "WX", "VXM"} -> 4
OpmF3(form) == IF form \in {"VX", "WX"} THEN 6 ELSE 2

Opi(op, f6, forms, vms) == {VecEnc((op \o "_") \o form, f6, OpiF3(form), vms) : form \in forms}
Opm(op, f6, forms, vms) == {VecEnc((op \o "_") \o form, f6, OpmF3(form), vms) : form \in forms}
Opf(op, f6)             == {VecEnc(op \o "_VV", f6, 1, {0, 1}), VecEnc(op \o "_VF", f6, 5, {0, 1})}
OpmUnary(name, f6, vs1, vms) == {[VecEnc(name, f6, 2, vms) EXCEPT !.rs1s = {vs1}]}

XI  == {"VX", "VI"}
VX  == {"VV", "VX"}
VXI == {"VV", "VX", "VI"}
W3  == {"WV", "WX", "WI"}
Both == {0, 1}

OpiRows ==
  UNION ( {Opi(p[1], p[2], VXI, Both) :
             p \in {<<"VADD", 0>>, <<"VAND", 9>>, <<"VOR", 10>>, <<"VXOR", 11>>, <<"VROR", 20>>, <<"VMSEQ", 24>>, <<"VMSNE", 25>>,
                    <<"VMSLEU", 28>>, <<"VMSLE", 29>>, <<"VSADDU", 32>>, <<"VSADD", 33>>, <<"VSLL", 37>>, <<"VSRL", 40>>,
                    <<"VSRA", 41>>, <<"VSSRL", 42>>, <<"VSSRA", 43>>, <<"VWSLL", 53>>}}
     \cup {Opi(p[1], p[2], VX, Both) :
             p \in {<<"VANDN", 1>>, <<"VSUB", 2>>, <<"VMINU", 4>>, <<"VMIN", 5>>, <<"VMAXU", 6>>, <<"VMAX", 7>>, <<"VROL", 21>>,
                    <<"VMSLTU", 26>>, <<"VMSLT", 27>>, <<"VSSUBU", 34>>, <<"VSSUB", 35>>, <<"VSMUL", 39>>}}
     \cup {Opi(p[1], p[2], XI, Both) :
             p \in {<<"VRSUB", 3>>, <<"VSLIDEUP", 14>>, <<"VSLIDEDOWN", 15>>, <<"VMSGTU", 30>>, <<"VMSGT", 31>>}}
     \cup {Opi(p[1], p[2], W3, Both) : p \in {<<"VNSRL", 44>>, <<"VNSRA", 45>>, <<"VNCLIPU", 46>>, <<"VNCLIP", 47>>}}
     \cup {Opi("VADC", 16, {"VVM", "VXM", "VIM"}, {0}), Opi("VMADC", 17, {"VVM", "VXM", "VIM"}, {0}), Opi("VMADC", 17, VXI, {1}),
           Opi("VSBC", 18, {"VVM", "VXM"}, {0}), Opi("VMSBC", 19, {"VVM", "VXM"}, {0}), Opi("VMSBC", 19, VX, {1}),
           Opi("VMERGE", 23, {"VVM", "VXM", "VIM"}, {0}), Opi("VWREDSUMU", 48, {"VS"}, Both), Opi("VWREDSUM", 49, {"VS"}, Both)}
     \cup {{[VecEnc(p[1], 23, p[2], {1}) EXCEPT !.rs2s = {0}]} : p \in {<<"VMV_V_V", 0>>, <<"VMV_V_X", 4>>, <<"VMV_V_I", 3>>}}
     \cup {{[VecEnc(p[1], 39, 3, {1}) EXCEPT !.rs1s = {p[2]}]} :
             p \in {<<"VMV1R_V", 0>>, <<"VMV2R_V", 1>>, <<"VMV4R_V", 3>>, <<"VMV8R_V", 7>>}} )

OpmRows ==
  UNION ( {Opm(p[1], p[2], VX, Both) :
             p \in {<<"VCLMUL", 12>>, <<"VCLMULH", 13>>, <<"VDIVU", 32>>, <<"VDIV", 33>>, <<"VMUL", 37>>, <<"VMADD", 41>>,
                    <<"VMACC", 45>>, <<"VNMSAC", 47>>, <<"VWADDU", 48>>, <<"VWADD", 49>>, <<"VWSUBU", 50>>,
                    <<"VWSUB", 51>>, <<"VWMULU", 56>>, <<"VWMULSU", 58>>, <<"VWMUL", 59>>, <<"VWMACCU", 60>>, <<"VWMACC", 61>>,
                    <<"VWMACCSU", 63>>}}
     \* The manual's vnmsub.
     \cup {Opm("VNSUB", 43, VX, Both)}
     \cup {Opm(p[1], p[2], {"WV", "WX"}, Both) : p \in {<<"VWADDU", 52>>, <<"VWADD", 53>>, <<"VWSUBU", 54>>, <<"VWSUB", 55>>}}
     \cup {Opm("VWMACCUS", 62, {"VX"}, Both), Opm("VSLIDE1UP", 14, {"VX"}, Both), Opm("VSLIDE1DOWN", 15, {"VX"}, Both),
           Opm("VREDSUM", 0, {"VS"}, Both), Opm("VCOMPRESS", 23, {"VM"}, {1})}
     \cup {Opm(p[1], p[2], {"MM"}, {1}) :
             p \in {<<"VMANDN", 24>>, <<"VMAND", 25>>, <<"VMOR", 26>>, <<"VMXOR", 27>>, <<"VMORN", 28>>, <<"VMNAND", 29>>,
                    <<"VMNOR", 30>>, <<"VMXNOR", 31>>}}
     \cup {OpmUnary("VMV_X_S", 16, 0, {1}), OpmUnary("VCPOP_M", 16, 16, Both), OpmUnary("VFIRST_M", 16, 17, Both),
           OpmUnary("VMSBF_M", 20, 1, Both), OpmUnary("VMSOF_M", 20, 2, Both), OpmUnary("VMSIF_M", 20, 3, Both),
           OpmUnary("VIOTA_M", 20, 16, Both), {[r EXCEPT !.rs2s = {0}] : r \in OpmUnary("VID_V", 20, 17, Both)},
           {[VecEnc("VMV_S_X", 16, 6, {1}) EXCEPT !.rs2s = {0}]}}
     \cup {OpmUnary(p[1], 18, p[2], Both) :
             p \in {<<"VZEXT_VF8", 2>>, <<"VSEXT_VF8", 3>>, <<"VZEXT_VF4", 4>>, <<"VSEXT_VF4", 5>>, <<"VZEXT_VF2", 6>>,
                    <<"VSEXT_VF2", 7>>, <<"VBREV8_V", 8>>, <<"VREV8_V", 9>>, <<"VBREV_V", 10>>, <<"VCLZ_V", 12>>, <<"VCTZ_V", 13>>,
                    <<"VCPOP_V", 14>>}} )

OpfRows ==
  Opf("VFADD", 0) \cup Opf("VFMACC", 44) \cup {VecEnc("VFMERGE_VFM", 23, 5, {0})}
  \cup {[VecEnc("VFMV_F_S", 16, 1, {1}) EXCEPT !.rs1s = {0}], [VecEnc("VFMV_S_F", 16, 5, {1}) EXCEPT !.rs2s = {0}]}

\* nf in bits 31:29, mew in 28, mop in 27:26, vm in 25; lumop and sumop in rs2.
MemEnc(name, code, f3, nfs, mop, vms) == Enc(name, code, {f3}, {16 * nf + 2 * mop + vm : nf \in nfs, vm \in vms})
VecMemRows ==
  UNION {{[MemEnc((p[2] \o e[2]) \o "_V", p[1], e[1], All(3), p[3], Both) EXCEPT !.rs2s = IF p[3] = 0 THEN {0} ELSE All(5)] :
            e \in {<<0, "8">>, <<5, "16">>, <<6, "32">>, <<7, "64">>}} :
         p \in {<<7, "VLE", 0>>, <<7, "VLUXEI", 1>>, <<7, "VLSE", 2>>, <<7, "VLOXEI", 3>>,
                <<39, "VSE", 0>>, <<39, "VSUXEI", 1>>, <<39, "VSSE", 2>>, <<39, "VSOXEI", 3>>}}
  \cup {[MemEnc((("VL" \o n[2]) \o ("RE" \o e[2])) \o "_V", 7, e[1], {n[1]}, 0, {1}) EXCEPT !.rs2s = {8}] :
          n \in {<<0, "1">>, <<1, "2">>, <<3, "4">>, <<7, "8">>}, e \in {<<0, "8">>, <<5, "16">>, <<6, "32">>, <<7, "64">>}}
  \cup {[MemEnc(("VS" \o n[2]) \o "R_V", 39, 0, {n[1]}, 0, {1}) EXCEPT !.rs2s = {8}] :
          n \in {<<0, "1">>, <<1, "2">>, <<3, "4">>, <<7, "8">>}}

VecRows ==
  OpiRows \cup OpmRows \cup OpfRows \cup VecMemRows
  \cup {Enc("VSETVLI", 87, {7}, 0 .. 63), Enc("VSETIVLI", 87, {7}, 96 .. 127), Enc("VSETVL", 87, {7}, {64})}

Rows == BaseRows \cup Of("B", BitRows) \cup Of("M", MulRows) \cup Of("A", AtomicRows) \cup FpRows \cup Of("V", VecRows)

RowsOf == [k \in (All(7) \X All(3)) |-> {r \in Rows : r.code = k[1] /\ k[2] \in r.f3s}]

Fits(r, w) == w.funct7 \in r.f7s /\ w.rs1 \in r.rs1s /\ w.rs2 \in r.rs2s /\ w.rd \in r.rds

\* The instruction a word is on a hart of this width or, when it is none there, the one it is
\* on a hart of the other width.
Meanings(w, xlen) ==
  LET rows == {r \in RowsOf[<<w.opcode, w.funct3>>] : Fits(r, w)}
      here == {r \in rows : xlen \in r.xlens}
  IN IF here # {} THEN here ELSE rows

-----------------------------------------------------------------------------
(* C: quadrant and funct3, the instruction it expands to, its registers, the    *)
(* bits of the encoding that hold the immediate and the bit of it each carries. *)

At(q, f3, op, rd, rs1, rs2) ==
  [q |-> q, f3 |-> f3, op |-> op, rd |-> rd, rs1 |-> rs1, rs2 |-> rs2, from |-> <<>>, to |-> <<>>, signed |-> FALSE, imm |-> FALSE,
   nz |-> FALSE, fix |-> {}, rds |-> All(5), rs2s |-> All(5), xlens |-> {32, 64}]
Imm(r, from, to)  == [r EXCEPT !.imm = TRUE, !.from = from, !.to = to]
SImm(r, from, to) == [r EXCEPT !.imm = TRUE, !.from = from, !.to = to, !.signed = TRUE]
On(x, r)          == [r EXCEPT !.xlens = {x}]

CI == <<12, 6, 5, 4, 3, 2>>
CL == <<12, 11, 10, 6, 5>>
CSS == <<12, 11, 10, 9, 8, 7>>
CJ == <<12, 11, 10, 9, 8, 7, 6, 5, 4, 3, 2>>
Plain == <<5, 4, 3, 2, 1, 0>>
WordOff == <<5, 4, 3, 2, 6>>
DblOff  == <<5, 4, 3, 7, 6>>
WordSp  == <<5, 4, 3, 2, 7, 6>>
DblSp   == <<5, 4, 3, 8, 7, 6>>
JumpTo  == <<11, 4, 9, 8, 10, 6, 7, 3, 2, 1, 5>>

Quadrant0 ==
  LET Load(f3, op)  == At(0, f3, op, "rd'", "rs1'", "none")
      Store(f3, op) == At(0, f3, op, "none", "rs1'", "rd'")
  IN {[Imm(At(0, 0, "ADDI", "rd'", "x2", "none"), <<12, 11, 10, 9, 8, 7, 6, 5>>, <<5, 4, 9, 8, 7, 6, 2, 3>>) EXCEPT !.nz = TRUE],
      Imm(Load(1, "FLD"), CL, DblOff), Imm(Load(2, "LW"), CL, WordOff), On(64, Imm(Load(3, "LD"), CL, DblOff)),
      On(32, Imm(Load(3, "FLW"), CL, WordOff)), Imm(Store(5, "FSD"), CL, DblOff), Imm(Store(6, "SW"), CL, WordOff),
      On(64, Imm(Store(7, "SD"), CL, DblOff)), On(32, Imm(Store(7, "FSW"), CL, WordOff))}

Quadrant1 ==
  LET Arith(op, b12, b65) ==
        [At(1, 4, op, "rs1'", "rs1'", "rd'") EXCEPT !.fix = {<<11, 10, 3>>, <<12, 12, b12>>, <<6, 5, b65>>}]
      Shift(op, sub) == [Imm(At(1, 4, op, "rs1'", "rs1'", "none"), CI, Plain) EXCEPT !.fix = {<<11, 10, sub>>}]
      Branch(f3, op) == SImm(At(1, f3, op, "none", "rs1'", "x0"), <<12, 11, 10, 6, 5, 4, 3, 2>>, <<8, 4, 3, 7, 6, 2, 1, 5>>)
      Short(r) == On(32, [r EXCEPT !.fix = @ \cup {<<12, 12, 0>>}])
  IN {SImm(At(1, 0, "ADDI", "rd", "rd", "none"), CI, Plain), SImm(At(1, 2, "ADDI", "rd", "x0", "none"), CI, Plain),
      On(64, [SImm(At(1, 1, "ADDIW", "rd", "rd", "none"), CI, Plain) EXCEPT !.rds = @ \ {0}]),
      On(32, SImm(At(1, 1, "JAL", "x1", "none", "none"), CJ, JumpTo)), SImm(At(1, 5, "JAL", "x0", "none", "none"), CJ, JumpTo),
      [SImm(At(1, 3, "ADDI", "x2", "x2", "none"), CI, <<9, 4, 6, 8, 7, 5>>) EXCEPT !.rds = {2}, !.nz = TRUE],
      \* the immediate of LUI in units of 4096
      [SImm(At(1, 3, "LUI", "rd", "none", "none"), CI, Plain) EXCEPT !.rds = @ \ {2}, !.nz = TRUE],
      On(64, Shift("SRLI", 0)), On(64, Shift("SRAI", 1)), Short(Shift("SRLI", 0)), Short(Shift("SRAI", 1)),
      [SImm(At(1, 4, "ANDI", "rs1'", "rs1'", "none"), CI, Plain) EXCEPT !.fix = {<<11, 10, 2>>}],
      Arith("SUB", 0, 0), Arith("XOR", 0, 1), Arith("OR", 0, 2), Arith("AND", 0, 3),
      On(64, Arith("SUBW", 1, 0)), On(64, Arith("ADDW", 1, 1)), Branch(6, "BEQ"), Branch(7, "BNE")}

Quadrant2 ==
  LET Load(f3, op)  == At(2, f3, op, "rd", "x2", "none")
      Store(f3, op) == At(2, f3, op, "none", "x2", "rs2")
      Slli          == Imm(At(2, 0, "SLLI", "rd", "rd", "none"), CI, Plain)
      Reg(op, rd, rs1, rs2, b12, rds, rs2s) ==
        [At(2, 4, op, rd, rs1, rs2) EXCEPT !.fix = {<<12, 12, b12>>}, !.rds = rds, !.rs2s = rs2s]
      Nz == All(5) \ {0}
  IN {On(64, Slli), On(32, [Slli EXCEPT !.fix = {<<12, 12, 0>>}]), Imm(Load(1, "FLD"), CI, DblSp),
      [Imm(Load(2, "LW"), CI, WordSp) EXCEPT !.rds = Nz], On(64, [Imm(Load(3, "LD"), CI, DblSp) EXCEPT !.rds = Nz]),
      On(32, Imm(Load(3, "FLW"), CI, WordSp)), Imm(Store(5, "FSD"), CSS, DblSp), Imm(Store(6, "SW"), CSS, WordSp),
      On(64, Imm(Store(7, "SD"), CSS, DblSp)), On(32, Imm(Store(7, "FSW"), CSS, WordSp)),
      Imm(Reg("JALR", "x0", "rd", "none", 0, Nz, {0}), <<>>, <<>>), Reg("ADD", "rd", "x0", "rs2", 0, All(5), Nz),
      Reg("EBREAK", "none", "none", "none", 1, {0}, {0}), Imm(Reg("JALR", "x1", "rd", "none", 1, Nz, {0}), <<>>, <<>>),
      Reg("ADD", "rd", "rd", "rs2", 1, All(5), Nz)}

Compressed == Quadrant0 \cup Quadrant1 \cup Quadrant2
CompressedOf == [k \in (0 .. 2) \X All(3) |-> {r \in Compressed : <<r.q, r.f3>> = k}]

Register(kind, h) ==
  CASE kind = "rd"   -> Bits(h, 11, 7)
    [] kind = "rs2"  -> Bits(h, 6, 2)
    [] kind = "rs1'" -> 8 + Bits(h, 9, 7)
    [] kind = "rd'"  -> 8 + Bits(h, 4, 2)
    [] kind = "x0"   -> 0
    [] kind = "x1"   -> 1
    [] kind = "x2"   -> 2

GatherImm(h, from, to) == MapThenSumSet(LAMBDA i : Bits(h, from[i], from[i]) * 2^to[i], DOMAIN from)
ImmOf(r, h) == IF r.signed THEN SignExtend(GatherImm(h, r.from, r.to), r.to[1] + 1) ELSE GatherImm(h, r.from, r.to)

Expands(r, h, xlen) ==
  /\ xlen \in r.xlens /\ Bits(h, 11, 7) \in r.rds /\ Bits(h, 6, 2) \in r.rs2s
  /\ \A f \in r.fix : Bits(h, f[1], f[2]) = f[3]
  /\ r.nz => ImmOf(r, h) # 0

\* The shift amount the execute stage uses of the immediate.
ImmValue(d) == IF d.op \in {"SLLI", "SRLI", "SRAI"} THEN d.imm % 64 ELSE d.imm

Same(r, h, d) ==
  /\ d.op = r.op
  /\ \A k \in {<<r.rd, d.w.rd>>, <<r.rs1, d.w.rs1>>, <<r.rs2, d.w.rs2>>} : k[1] # "none" => k[2] = Register(k[1], h)
  /\ r.imm => ImmValue(d) = ImmOf(r, h)

-----------------------------------------------------------------------------
\* Every halfword the C extension defines becomes, through the expansion, the tables and the
\* immediate extraction, the instruction the manual says it stands for: the operation, each
\* register and the immediate. (decompressInstruction, decoder, decode_fields)
DecompressExact ==
  hart.compressed =>
    \A h \in DOMAIN decoded : \A r \in CompressedOf[<<h % 4, Bits(h, 15, 13)>>] :
      Expands(r, h, hart.xlen) => Same(r, h, decoded[h])

\* The hart has the width of the instruction, and the unit it needs is on.
Enabled(r, h) ==
  /\ h.xlen \in r.xlens
  /\ r.ext \in {"F", "D"} => h.fs # 0
  /\ r.ext = "V" => h.vs # 0
  /\ h.profile # "default" => r.ext \in h.misa \cup {"I"}

\* Encodings the decoder gives another meaning: five of the eight mask-register logicals change
\* places (vmor.mm is executed as vmandn.mm), and four unary operations of Zvbb.
Deviates(r) == r.op \in {"VMANDN_MM", "VMOR_MM", "VMORN_MM", "VMNAND_MM", "VMNOR_MM", "VBREV8_V", "VREV8_V", "VBREV_V", "VCLZ_V"}

\* requires_rv64 names no instruction of the bit-manipulation extensions, and the test on the
\* shift amount covers SLLI, SRLI and SRAI only: add.uw, clzw, rorw, packw, a bseti of bit 40 and
\* the other encodings that exist on one width only are executed on the other width too.
WidthIgnored(r, h) == r.ext = "B" /\ h.xlen \notin r.xlens

\* Every 32-bit word the manual defines is decoded as the one instruction it encodes when the
\* hart has that instruction switched on, and is illegal when the width (outside the
\* bit-manipulation extensions), FS, VS or the misa profile switch it off.
\* (decoder, requires_rv64, decode_and_normalize_instruction)
DecodeExact ==
  ~hart.compressed =>
    \A w \in DOMAIN decoded : \A r \in Meanings(w, hart.xlen) :
      Deviates(r) \/ (r.ext = "B" /\ hart.profile # "default")
        \/ decoded[w].op = (IF Enabled(r, hart) \/ WidthIgnored(r, hart) THEN r.op ELSE U)

=============================================================================
