------------------------------- MODULE Decode -------------------------------
(* Instruction decode: the expansion of the compressed encodings into 32-bit   *)
(* words, the decoder's tables, and the decode stage's checks (extension,      *)
(* width, FS and VS). A 32-bit word is the record of its fields; the build is  *)
(* the 64-bit one, whose effective width xlen may be 32.                       *)
EXTENDS Integers, Sequences, FiniteSets

U == "UNKNOWN"

\* The field of x from bit hi down to bit lo.
Bits(x, hi, lo) == (x \div 2^lo) % 2^(hi - lo + 1)
SignExtend(x, n) == IF x >= 2^(n - 1) THEN x - 2^n ELSE x

\* The name a table of pairs has for a key, and the first name of several tables.
Pick(key, pairs) == IF \E p \in pairs : p[1] = key THEN (CHOOSE p \in pairs : p[1] = key)[2] ELSE U
Nth(names, n)    == IF n + 1 \in DOMAIN names THEN names[n + 1] ELSE U
FirstOf(names)   == IF \E i \in DOMAIN names : names[i] # U
                    THEN names[CHOOSE i \in DOMAIN names : names[i] # U /\ \A j \in 1 .. i - 1 : names[j] = U]
                    ELSE U

-----------------------------------------------------------------------------
(* The compressed instructions *)

make_r_type(opcode, funct3, funct7, rd, rs1, rs2) ==
  [opcode |-> opcode, rd |-> rd, funct3 |-> funct3, rs1 |-> rs1, rs2 |-> rs2 % 32, funct7 |-> funct7 + rs2 \div 32]
make_i_type(opcode, funct3, rd, rs1, imm) ==
  [opcode |-> opcode, rd |-> rd, funct3 |-> funct3, rs1 |-> rs1, rs2 |-> imm % 32, funct7 |-> Bits(imm, 11, 5)]
make_s_type(opcode, funct3, rs1, rs2, imm) ==
  [opcode |-> opcode, rd |-> imm % 32, funct3 |-> funct3, rs1 |-> rs1, rs2 |-> rs2, funct7 |-> Bits(imm, 11, 5)]
make_b_type(opcode, funct3, rs1, rs2, imm) ==
  [opcode |-> opcode, rd |-> Bits(imm, 11, 11) + 2 * Bits(imm, 4, 1), funct3 |-> funct3, rs1 |-> rs1, rs2 |-> rs2,
   funct7 |-> Bits(imm, 10, 5) + 64 * Bits(imm, 12, 12)]
make_u_type(opcode, rd, imm) ==
  [opcode |-> opcode, rd |-> rd, funct3 |-> Bits(imm, 14, 12), rs1 |-> Bits(imm, 19, 15), rs2 |-> Bits(imm, 24, 20),
   funct7 |-> Bits(imm, 31, 25)]
make_j_type(opcode, rd, imm) ==
  [opcode |-> opcode, rd |-> rd, funct3 |-> Bits(imm, 14, 12), rs1 |-> Bits(imm, 19, 15),
   rs2 |-> Bits(imm, 11, 11) + 2 * Bits(imm, 4, 1), funct7 |-> Bits(imm, 10, 5) + 64 * Bits(imm, 20, 20)]

\* The word 0, which no table knows.
NoInstruction == [opcode |-> 0, rd |-> 0, funct3 |-> 0, rs1 |-> 0, rs2 |-> 0, funct7 |-> 0]

\* Two offsets many encodings share: of words and of doublewords from a base in x8 .. x15.
WordOffset(ir)   == Bits(ir, 5, 5) * 64 + Bits(ir, 12, 10) * 8 + Bits(ir, 6, 6) * 4
DoubleOffset(ir) == Bits(ir, 6, 5) * 64 + Bits(ir, 12, 10) * 8
\* The six-bit immediate, signed.
SmallImm(ir)     == Bits(ir, 6, 2) - 32 * Bits(ir, 12, 12)

decompress_q0(ir, is_rv64, op, rs1_p, rs2_p) ==
  LET imm == Bits(ir, 10, 7) * 64 + Bits(ir, 12, 11) * 16 + Bits(ir, 5, 5) * 8 + Bits(ir, 6, 6) * 4
  IN CASE op = 0 /\ imm # 0  -> make_i_type(19, 0, rs2_p, 2, imm)
       [] op = 1             -> make_i_type(7, 3, rs2_p, rs1_p, DoubleOffset(ir))
       [] op = 2             -> make_i_type(3, 2, rs2_p, rs1_p, WordOffset(ir))
       [] op = 3 /\ is_rv64  -> make_i_type(3, 3, rs2_p, rs1_p, DoubleOffset(ir))
       [] op = 3 /\ ~is_rv64 -> make_i_type(7, 2, rs2_p, rs1_p, WordOffset(ir))
       [] op = 5             -> make_s_type(39, 3, rs1_p, rs2_p, DoubleOffset(ir))
       [] op = 6             -> make_s_type(35, 2, rs1_p, rs2_p, WordOffset(ir))
       [] op = 7 /\ is_rv64  -> make_s_type(35, 3, rs1_p, rs2_p, DoubleOffset(ir))
       [] op = 7 /\ ~is_rv64 -> make_s_type(39, 2, rs1_p, rs2_p, WordOffset(ir))
       [] OTHER              -> NoInstruction

decompress_q1_op4(ir, rs1_p, rs2_p) ==
  LET sub_op    == Bits(ir, 11, 10)
      funct_sub == Bits(ir, 6, 5)
      shamt     == Bits(ir, 6, 2) + 32 * Bits(ir, 12, 12)
  IN CASE sub_op \in {0, 1} -> make_r_type(19, 5, IF sub_op = 1 THEN 32 ELSE 0, rs1_p, rs1_p, shamt)
       [] sub_op = 2        -> make_i_type(19, 7, rs1_p, rs1_p, SmallImm(ir))
       [] sub_op = 3 /\ Bits(ir, 12, 12) = 0 ->
            make_r_type(51, <<0, 4, 6, 7>>[funct_sub + 1], IF funct_sub = 0 THEN 32 ELSE 0, rs1_p, rs1_p, rs2_p)
       [] sub_op = 3 /\ Bits(ir, 12, 12) = 1 /\ funct_sub < 2 ->
            make_r_type(59, 0, IF funct_sub = 0 THEN 32 ELSE 0, rs1_p, rs1_p, rs2_p)
       [] OTHER -> NoInstruction

\* Mutant: bits 6 and 7 of the halfword swapped.
JumpOffset_swapped(ir) ==
  Bits(ir, 2, 2) * 32 + Bits(ir, 5, 3) * 2 + Bits(ir, 6, 6) * 64 + Bits(ir, 7, 7) * 128 + Bits(ir, 8, 8) * 1024
    + Bits(ir, 10, 9) * 256 + Bits(ir, 11, 11) * 16 - 2048 * Bits(ir, 12, 12)

JumpOffset(ir) ==
  Bits(ir, 2, 2) * 32 + Bits(ir, 5, 3) * 2 + Bits(ir, 6, 6) * 128 + Bits(ir, 7, 7) * 64 + Bits(ir, 8, 8) * 1024
    + Bits(ir, 10, 9) * 256 + Bits(ir, 11, 11) * 16 - 2048 * Bits(ir, 12, 12)

decompress_q1_op1(ir, is_rv64, rs1_rd) ==
  IF is_rv64 THEN make_i_type(27, 0, rs1_rd, rs1_rd, SmallImm(ir)) ELSE make_j_type(111, 1, JumpOffset(ir))

decompress_q1_op3(ir, rs1_rd) ==
  LET imm == Bits(ir, 2, 2) * 32 + Bits(ir, 4, 3) * 128 + Bits(ir, 5, 5) * 64 + Bits(ir, 6, 6) * 16
               - 512 * Bits(ir, 12, 12)
  IN IF rs1_rd = 2 THEN make_i_type(19, 0, 2, 2, imm) ELSE make_u_type(55, rs1_rd, SmallImm(ir) * 4096)

decompress_q1(ir, is_rv64, op, rs1_rd, rs1_p, rs2_p) ==
  LET imm == Bits(ir, 2, 2) * 32 + Bits(ir, 4, 3) * 2 + Bits(ir, 6, 5) * 64 + Bits(ir, 11, 10) * 8
               - 256 * Bits(ir, 12, 12)
  IN CASE op = 0        -> make_i_type(19, 0, rs1_rd, rs1_rd, SmallImm(ir))
       [] op = 1        -> decompress_q1_op1(ir, is_rv64, rs1_rd)
       [] op = 2        -> make_i_type(19, 0, rs1_rd, 0, SmallImm(ir))
       [] op = 3        -> decompress_q1_op3(ir, rs1_rd)
       [] op = 4        -> decompress_q1_op4(ir, rs1_p, rs2_p)
       [] op = 5        -> make_j_type(111, 0, JumpOffset(ir))
       [] op \in {6, 7} -> make_b_type(99, op - 6, rs1_p, 0, imm)

decompress_q2_op4(ir, rs1_rd, rs2) ==
  LET bit12 == Bits(ir, 12, 12)
  IN CASE bit12 = 1 /\ rs1_rd = 0 /\ rs2 = 0 -> make_i_type(115, 0, 0, 0, 1)
       [] rs2 = 0 /\ (bit12 = 1 => rs1_rd # 0) -> make_i_type(103, 0, bit12, rs1_rd, 0)
       [] rs2 # 0 -> make_r_type(51, 0, 0, rs1_rd, IF bit12 = 0 THEN 0 ELSE rs1_rd, rs2)

decompress_q2(ir, is_rv64, op, rs1_rd, rs2) ==
  LET load_d  == Bits(ir, 4, 2) * 64 + Bits(ir, 6, 5) * 8 + Bits(ir, 12, 12) * 32
      load_w  == Bits(ir, 3, 2) * 64 + Bits(ir, 6, 4) * 4 + Bits(ir, 12, 12) * 32
      store_d == Bits(ir, 9, 7) * 64 + Bits(ir, 12, 10) * 8
      store_w == Bits(ir, 8, 7) * 64 + Bits(ir, 12, 9) * 4
  IN CASE op = 0             -> make_r_type(19, 1, 0, rs1_rd, rs1_rd, Bits(ir, 6, 2) + 32 * Bits(ir, 12, 12))
       [] op = 1             -> make_i_type(7, 3, rs1_rd, 2, load_d)
       [] op = 2             -> make_i_type(3, 2, rs1_rd, 2, load_w)
       [] op = 3 /\ is_rv64  -> make_i_type(3, 3, rs1_rd, 2, load_d)
       [] op = 3 /\ ~is_rv64 -> make_i_type(7, 2, rs1_rd, 2, load_w)
       [] op = 4             -> decompress_q2_op4(ir, rs1_rd, rs2)
       [] op = 5             -> make_s_type(39, 3, 2, rs2, store_d)
       [] op = 6             -> make_s_type(35, 2, 2, rs2, store_w)
       [] op = 7 /\ is_rv64  -> make_s_type(35, 3, 2, rs2, store_d)
       [] op = 7 /\ ~is_rv64 -> make_s_type(39, 2, 2, rs2, store_w)

\* The halfword's register fields: bits 11:7 and 6:2, and the three-bit ones x8 .. x15.
decompressInstruction(ir, is_rv64) ==
  LET op == Bits(ir, 15, 13)
      rs1_rd == Bits(ir, 11, 7)
      rs2 == Bits(ir, 6, 2)
      rs1_p == 8 + Bits(ir, 9, 7)
      rs2_p == 8 + Bits(ir, 4, 2)
  IN CASE ir % 4 = 0 -> decompress_q0(ir, is_rv64, op, rs1_p, rs2_p)
       [] ir % 4 = 1 -> decompress_q1(ir, is_rv64, op, rs1_rd, rs1_p, rs2_p)
       [] ir % 4 = 2 -> decompress_q2(ir, is_rv64, op, rs1_rd, rs2)

-----------------------------------------------------------------------------
(* The tables: integer, M, A *)

imm12(w) == w.rs2 + 32 * w.funct7
imm6(w)  == w.funct7 \div 2

decode_branch(f3) == Nth(<<"BEQ", "BNE", U, U, "BLT", "BGE", "BLTU", "BGEU">>, f3)
decode_load(f3)   == Nth(<<"LB", "LH", "LW", "LD", "LBU", "LHU", "LWU">>, f3)
decode_store(f3)  == Nth(<<"SB", "SH", "SW", "SD">>, f3)

\* Mutant: the single-bit immediates matched by funct7, whose low bit is a bit of the amount.
decode_op_imm_funct7(w) ==
  CASE w.funct3 = 1 -> FirstOf(<<
         Pick(imm12(w), {<<1536, "CLZ">>, <<1537, "CTZ">>, <<1538, "CPOP">>, <<1540, "SEXT_B">>, <<1541, "SEXT_H">>}),
         Pick(w.funct7, {<<20, "BSETI">>, <<36, "BCLRI">>, <<52, "BINVI">>, <<0, "SLLI">>, <<1, "SLLI">>}) >>)
    [] w.funct3 = 5 -> FirstOf(<<
         Pick(imm12(w), {<<647, "ORC_B">>, <<1688, "REV8">>, <<1720, "REV8">>}),
         Pick(w.funct7, {<<48, "RORI">>, <<36, "BEXTI">>, <<0, "SRLI">>, <<1, "SRLI">>, <<32, "SRAI">>, <<33, "SRAI">>}) >>)
    [] OTHER -> Nth(<<"ADDI", U, "SLTI", "SLTIU", "XORI", U, "ORI", "ANDI">>, w.funct3)

decode_op_imm(w) ==
  CASE w.funct3 = 1 -> FirstOf(<<
         Pick(imm12(w), {<<1536, "CLZ">>, <<1537, "CTZ">>, <<1538, "CPOP">>, <<1540, "SEXT_B">>, <<1541, "SEXT_H">>}),
         Pick(imm6(w), {<<10, "BSETI">>, <<18, "BCLRI">>, <<26, "BINVI">>}),
         Pick(w.funct7, {<<0, "SLLI">>, <<1, "SLLI">>}) >>)
    [] w.funct3 = 5 -> FirstOf(<<
         Pick(imm12(w), {<<647, "ORC_B">>, <<1688, "REV8">>, <<1720, "REV8">>}),
         Pick(imm6(w), {<<24, "RORI">>, <<18, "BEXTI">>}),
         Pick(w.funct7, {<<0, "SRLI">>, <<1, "SRLI">>, <<32, "SRAI">>, <<33, "SRAI">>}) >>)
    [] OTHER -> Nth(<<"ADDI", U, "SLTI", "SLTIU", "XORI", U, "ORI", "ANDI">>, w.funct3)

decode_op_standard(f3, f7) ==
  Pick(f7, Nth(<<
    {<<0, "ADD">>, <<32, "SUB">>},
    {<<48, "ROL">>, <<5, "CLMUL">>, <<20, "BSET">>, <<36, "BCLR">>, <<52, "BINV">>, <<0, "SLL">>},
    {<<16, "SH1ADD">>, <<5, "CLMULR">>, <<0, "SLT">>},
    {<<5, "CLMULH">>, <<0, "SLTU">>},
    {<<16, "SH2ADD">>, <<32, "XNOR">>, <<5, "MIN">>, <<4, "PACK">>, <<0, "XOR">>},
    {<<48, "ROR">>, <<36, "BEXT">>, <<5, "MINU">>, <<0, "SRL">>, <<32, "SRA">>},
    {<<16, "SH3ADD">>, <<32, "ORN">>, <<5, "MAX">>, <<0, "OR">>},
    {<<32, "ANDN">>, <<5, "MAXU">>, <<0, "AND">>} >>, f3))

decode_op_imm32(w) ==
  CASE w.funct3 = 0 -> "ADDIW"
    [] w.funct3 = 1 -> FirstOf(<< Pick(imm12(w), {<<1536, "CLZW">>, <<1537, "CTZW">>, <<1538, "CPOPW">>}),
                                  Pick(imm6(w), {<<2, "SLLI_UW">>}), Pick(w.funct7, {<<0, "SLLIW">>}) >>)
    [] w.funct3 = 5 -> FirstOf(<< Pick(imm6(w), {<<24, "RORIW">>}), Pick(w.funct7, {<<0, "SRLIW">>, <<32, "SRAIW">>}) >>)
    [] OTHER -> U

decode_op32_standard(f3, f7) ==
  Pick(f7, Nth(<<
    {<<4, "ADD_UW">>, <<0, "ADDW">>, <<32, "SUBW">>}, {<<48, "ROLW">>, <<0, "SLLW">>}, {<<16, "SH1ADD_UW">>}, {},
    {<<16, "SH2ADD_UW">>, <<4, "PACKW">>}, {<<48, "RORW">>, <<0, "SRLW">>, <<32, "SRAW">>}, {<<16, "SH3ADD_UW">>}, {} >>, f3))

decode_system_priv(w) ==
  LET no_operands == w.rd = 0 /\ w.rs1 = 0
      name == Pick(imm12(w), {<<0, "ECALL">>, <<1, "EBREAK">>, <<2, U>>, <<258, "SRET">>, <<770, "MRET">>, <<261, "WFI">>})
  IN CASE name # U -> IF no_operands THEN name ELSE U
       [] name = U -> IF imm12(w) # 2 /\ w.funct7 = 9 /\ w.rd = 0 THEN "SFENCE_VMA" ELSE U

decode_system_csr(f3) == Nth(<<U, "CSRRW", "CSRRS", "CSRRC", U, "CSRRWI", "CSRRSI", "CSRRCI">>, f3)

decode_system(w) == IF w.funct3 = 0 THEN decode_system_priv(w) ELSE decode_system_csr(w.funct3)

decode_ext_i(w) ==
  CASE w.opcode = 55  -> "LUI"
    [] w.opcode = 23  -> "AUIPC"
    [] w.opcode = 111 -> "JAL"
    [] w.opcode = 103 -> "JALR"
    [] w.opcode = 99  -> decode_branch(w.funct3)
    [] w.opcode = 3   -> decode_load(w.funct3)
    [] w.opcode = 35  -> decode_store(w.funct3)
    [] w.opcode = 19  -> decode_op_imm(w)
    [] w.opcode = 27  -> decode_op_imm32(w)
    [] w.opcode = 51  -> decode_op_standard(w.funct3, w.funct7)
    [] w.opcode = 59  -> decode_op32_standard(w.funct3, w.funct7)
    [] w.opcode = 15  -> Nth(<<"FENCE", "FENCE_I">>, w.funct3)
    [] w.opcode = 115 -> decode_system(w)
    [] OTHER          -> U

decode_ext_m_op(f3)   == Nth(<<"MUL", "MULH", "MULHSU", "MULHU", "DIV", "DIVU", "REM", "REMU">>, f3)
decode_ext_m_op32(f3) == Nth(<<"MULW", U, U, U, "DIVW", "DIVUW", "REMW", "REMUW">>, f3)
decode_ext_m(w)       == IF w.opcode = 59 THEN decode_ext_m_op32(w.funct3) ELSE decode_ext_m_op(w.funct3)

\* The operation and its width: <<"AMOADD", "W">>.
decode_ext_a(w) ==
  LET funct5 == w.funct7 \div 4
      name   == Pick(funct5, {<<2, "LR">>, <<3, "SC">>, <<1, "AMOSWAP">>, <<0, "AMOADD">>, <<4, "AMOXOR">>, <<12, "AMOAND">>,
                              <<8, "AMOOR">>, <<16, "AMOMIN">>, <<20, "AMOMAX">>, <<24, "AMOMINU">>, <<28, "AMOMAXU">>})
  IN IF w.funct3 \notin {2, 3} \/ (funct5 = 2 /\ w.rs2 # 0) \/ name = U THEN U
     ELSE name \o (IF w.funct3 = 2 THEN "_W" ELSE "_D")

-----------------------------------------------------------------------------
(* The tables: F and D. The two precisions have one table each in the code; a *)
(* name is the operation and its suffix.                                       *)

decode_fma(w) ==
  LET fmt == w.funct7 % 4
  IN IF fmt > 1 THEN U
     ELSE Pick(w.opcode, {<<67, "FMADD">>, <<71, "FMSUB">>, <<75, "FNMSUB">>, <<79, "FNMADD">>}) \o (IF fmt = 1 THEN "_D" ELSE "_S")

\* FMV_W_X has no counterpart in the double table, where 1E is a move of its own.
decode_op_fp_single_arith(f3, f5, rs2) ==
  CASE f5 < 4                           -> Nth(<<"FADD_S", "FSUB_S", "FMUL_S", "FDIV_S">>, f5)
    [] f5 = 4                           -> Nth(<<"FSGNJ_S", "FSGNJN_S", "FSGNJX_S">>, f3)
    [] f5 = 5                           -> Nth(<<"FMIN_S", "FMAX_S">>, f3)
    [] f5 = 11 /\ rs2 = 0               -> "FSQRT_S"
    [] f5 = 30 /\ rs2 = 0 /\ f3 = 0     -> "FMV_W_X"
    [] OTHER                            -> U

decode_op_fp_single_fcvt(f5, rs2) ==
  CASE f5 = 8  -> IF rs2 = 1 THEN "FCVT_S_D" ELSE U
    [] f5 = 24 -> Nth(<<"FCVT_W_S", "FCVT_WU_S", "FCVT_L_S", "FCVT_LU_S">>, rs2)
    [] f5 = 26 -> Nth(<<"FCVT_S_W", "FCVT_S_WU", "FCVT_S_L", "FCVT_S_LU">>, rs2)

decode_op_fp_single_cmp(f3, f5) ==
  IF f5 = 20 THEN Nth(<<"FLE_S", "FLT_S", "FEQ_S">>, f3) ELSE Nth(<<"FMV_X_W", "FCLASS_S">>, f3)

decode_op_fp_single(f3, f5, rs2) ==
  CASE f5 \in {8, 24, 26}                 -> decode_op_fp_single_fcvt(f5, rs2)
    [] f5 = 28 /\ rs2 # 0                 -> U
    [] f5 = 20 \/ (f5 = 28 /\ rs2 = 0)    -> decode_op_fp_single_cmp(f3, f5)
    [] OTHER                              -> decode_op_fp_single_arith(f3, f5, rs2)

decode_op_fp_double_arith(f3, f5, rs2) ==
  CASE f5 < 4             -> Nth(<<"FADD_D", "FSUB_D", "FMUL_D", "FDIV_D">>, f5)
    [] f5 = 4             -> Nth(<<"FSGNJ_D", "FSGNJN_D", "FSGNJX_D">>, f3)
    [] f5 = 5             -> Nth(<<"FMIN_D", "FMAX_D">>, f3)
    [] f5 = 11 /\ rs2 = 0 -> "FSQRT_D"
    [] OTHER              -> U

decode_op_fp_double_fcvt(f3, f5, rs2) ==
  CASE f5 = 8  -> IF rs2 = 0 /\ f3 = 0 THEN "FCVT_D_S" ELSE U
    [] f5 = 24 -> Nth(<<"FCVT_W_D", "FCVT_WU_D", "FCVT_L_D", "FCVT_LU_D">>, rs2)
    [] f5 = 26 -> Nth(<<"FCVT_D_W", "FCVT_D_WU", "FCVT_D_L", "FCVT_D_LU">>, rs2)

decode_op_fp_double_cmp(f3, f5) ==
  CASE f5 = 20 -> Nth(<<"FLE_D", "FLT_D", "FEQ_D">>, f3)
    [] f5 = 28 -> Nth(<<"FMV_X_D", "FCLASS_D">>, f3)
    [] f5 = 30 -> IF f3 = 0 THEN "FMV_D_X" ELSE U

decode_op_fp_double(f3, f5, rs2) ==
  CASE f5 \in {8, 24, 26}                     -> decode_op_fp_double_fcvt(f3, f5, rs2)
    [] f5 \in {28, 30} /\ rs2 # 0             -> U
    [] f5 = 20 \/ (f5 \in {28, 30} /\ rs2 = 0) -> decode_op_fp_double_cmp(f3, f5)
    [] OTHER                                  -> decode_op_fp_double_arith(f3, f5, rs2)

decode_op_fp(w) ==
  LET f5 == w.funct7 \div 4
  IN CASE w.funct7 % 4 = 0 -> decode_op_fp_single(w.funct3, f5, w.rs2)
       [] w.funct7 % 4 = 1 -> decode_op_fp_double(w.funct3, f5, w.rs2)
       [] OTHER            -> U

\* The element width a vector access names in funct3.
Eew(f3) == Nth(<<"8", U, U, U, U, "16", "32", "64">>, f3)
Named(prefix, mid, suffix) == IF prefix = U \/ mid = U THEN U ELSE (prefix \o mid) \o suffix

decode_vector_load(w) ==
  LET mop == (w.funct7 \div 2) % 4
      nf  == w.funct7 \div 16
  IN IF mop = 0 /\ w.rs2 = 8
     THEN Named(Pick(nf, {<<0, "VL1RE">>, <<1, "VL2RE">>, <<3, "VL4RE">>, <<7, "VL8RE">>}), Eew(w.funct3), "_V")
     ELSE Named(Nth(<<"VLE", "VLUXEI", "VLSE", "VLOXEI">>, mop), Eew(w.funct3), "_V")

decode_vector_store(w) ==
  LET mop == (w.funct7 \div 2) % 4
      nf  == w.funct7 \div 16
  IN IF mop = 0 /\ w.rs2 = 8
     THEN IF w.funct3 = 0 THEN Pick(nf, {<<0, "VS1R_V">>, <<1, "VS2R_V">>, <<3, "VS4R_V">>, <<7, "VS8R_V">>}) ELSE U
     ELSE Named(Nth(<<"VSE", "VSUXEI", "VSSE", "VSOXEI">>, mop), Eew(w.funct3), "_V")

decode_ext_f_d(w) ==
  CASE w.opcode = 7  -> FirstOf(<<Pick(w.funct3, {<<2, "FLW">>, <<3, "FLD">>}), decode_vector_load(w)>>)
    [] w.opcode = 39 -> FirstOf(<<Pick(w.funct3, {<<2, "FSW">>, <<3, "FSD">>}), decode_vector_store(w)>>)
    [] w.opcode = 83 -> decode_op_fp(w)
    [] OTHER         -> decode_fma(w)

-----------------------------------------------------------------------------
(* The tables: V. A row is a funct6 and its names by funct3 (OPIVV, OPFVV,     *)
(* OPMVV, OPIVI, OPIVX, OPFVF, OPMVX).                                         *)

ByRow(f6, f3, rows) == IF \E r \in rows : r[1] = f6 THEN Nth(Pick(f6, rows), f3) ELSE U

Range0 == {
    <<0, <<"VADD_VV", "VFADD_VV", "VREDSUM_VS", "VADD_VI", "VADD_VX", "VFADD_VF">>>>,
    <<1, <<"VANDN_VV", U, U, U, "VANDN_VX">>>>,
    <<2, <<"VSUB_VV", U, U, U, "VSUB_VX">>>>,
    <<3, <<U, U, U, "VRSUB_VI", "VRSUB_VX">>>>,
    <<4, <<"VMINU_VV", U, U, U, "VMINU_VX">>>>,
    <<5, <<"VMIN_VV", U, U, U, "VMIN_VX">>>>,
    <<6, <<"VMAXU_VV", U, U, U, "VMAXU_VX">>>>,
    <<7, <<"VMAX_VV", U, U, U, "VMAX_VX">>>>,
    <<9, <<"VAND_VV", U, U, "VAND_VI", "VAND_VX">>>>,
    <<10, <<"VOR_VV", U, U, "VOR_VI", "VOR_VX">>>>,
    <<11, <<"VXOR_VV", U, U, "VXOR_VI", "VXOR_VX">>>>,
    <<12, <<U, U, "VCLMUL_VV", U, U, U, "VCLMUL_VX">>>>,
    <<13, <<U, U, "VCLMULH_VV", U, U, U, "VCLMULH_VX">>>>,
    <<14, <<U, U, U, "VSLIDEUP_VI", "VSLIDEUP_VX", U, "VSLIDE1UP_VX">>>>,
    <<15, <<U, U, U, "VSLIDEDOWN_VI", "VSLIDEDOWN_VX", U, "VSLIDE1DOWN_VX">>>> }

decode_ext_v_range0(f6, f3) == ByRow(f6, f3, Range0)

\* Where vm chooses between two operations, or rs1 or rs2 extends the opcode.
Range1 == {
    <<18, <<"VSBC_VVM", U, U, U, "VSBC_VXM">>>>,
    <<20, <<"VROR_VV", U, U, "VROR_VI", "VROR_VX">>>>,
    <<21, <<"VROL_VV", U, U, U, "VROL_VX">>>>,
    <<24, <<"VMSEQ_VV", U, "VMNAND_MM", "VMSEQ_VI", "VMSEQ_VX">>>>,
    <<25, <<"VMSNE_VV", U, "VMAND_MM", "VMSNE_VI", "VMSNE_VX">>>>,
    <<26, <<"VMSLTU_VV", U, "VMANDN_MM", U, "VMSLTU_VX">>>>,
    <<27, <<"VMSLT_VV", U, "VMXOR_MM", U, "VMSLT_VX">>>>,
    <<28, <<"VMSLEU_VV", U, "VMOR_MM", "VMSLEU_VI", "VMSLEU_VX">>>>,
    <<29, <<"VMSLE_VV", U, "VMNOR_MM", "VMSLE_VI", "VMSLE_VX">>>>,
    <<30, <<U, U, "VMORN_MM", "VMSGTU_VI", "VMSGTU_VX">>>>,
    <<31, <<U, U, "VMXNOR_MM", "VMSGT_VI", "VMSGT_VX">>>> }

MaskedRows   == { <<16, <<"VADC_VVM", U, U, "VADC_VIM", "VADC_VXM">>>>, <<17, <<"VMADC_VVM", U, U, "VMADC_VIM", "VMADC_VXM">>>>,
              <<19, <<"VMSBC_VVM", U, U, U, "VMSBC_VXM">>>>,
              <<23, <<"VMERGE_VVM", U, U, "VMERGE_VIM", "VMERGE_VXM", "VFMERGE_VFM">>>> }
UnmaskedRows == { <<17, <<"VMADC_VV", U, U, "VMADC_VI", "VMADC_VX">>>>, <<19, <<"VMSBC_VV", U, U, U, "VMSBC_VX">>>>,
              <<23, <<"VMV_V_V", U, "VCOMPRESS_VM", "VMV_V_I", "VMV_V_X">>>> }

Unary(f6, w) ==
  CASE f6 = 16 /\ w.funct3 = 2 -> Pick(w.rs1, {<<0, "VMV_X_S">>, <<16, "VCPOP_M">>, <<17, "VFIRST_M">>})
    [] f6 = 16 /\ w.funct3 = 6 -> "VMV_S_X"
    [] f6 = 16 /\ w.funct3 = 1 -> IF w.rs1 = 0 THEN "VFMV_F_S" ELSE U
    [] f6 = 16 /\ w.funct3 = 5 -> IF w.rs2 = 0 THEN "VFMV_S_F" ELSE U
    [] f6 = 18 /\ w.funct3 = 2 ->
         Pick(w.rs1, {<<7, "VSEXT_VF2">>, <<5, "VSEXT_VF4">>, <<3, "VSEXT_VF8">>, <<6, "VZEXT_VF2">>, <<4, "VZEXT_VF4">>,
                      <<2, "VZEXT_VF8">>, <<8, "VCLZ_V">>, <<9, "VBREV8_V">>, <<10, "VREV8_V">>, <<12, "VBREV_V">>,
                      <<13, "VCTZ_V">>, <<14, "VCPOP_V">>})
    [] f6 = 20 /\ w.funct3 = 2 ->
         Pick(w.rs1, {<<1, "VMSBF_M">>, <<2, "VMSOF_M">>, <<3, "VMSIF_M">>, <<16, "VIOTA_M">>}
                       \cup (IF w.rs2 = 0 THEN {<<17, "VID_V">>} ELSE {}))
    [] OTHER -> U

decode_ext_v_range1(f6, w) ==
  FirstOf(<< Unary(f6, w), ByRow(f6, w.funct3, IF w.funct7 % 2 = 1 THEN UnmaskedRows ELSE MaskedRows), ByRow(f6, w.funct3, Range1) >>)

Range2 == {
    <<32, <<"VSADDU_VV", U, "VDIVU_VV", "VSADDU_VI", "VSADDU_VX", U, "VDIVU_VX">>>>,
    <<33, <<"VSADD_VV", U, "VDIV_VV", "VSADD_VI", "VSADD_VX", U, "VDIV_VX">>>>,
    <<34, <<"VSSUBU_VV", U, U, U, "VSSUBU_VX">>>>,
    <<35, <<"VSSUB_VV", U, U, U, "VSSUB_VX">>>>,
    <<37, <<"VSLL_VV", U, "VMUL_VV", "VSLL_VI", "VSLL_VX", U, "VMUL_VX">>>>,
    <<39, <<"VSMUL_VV", U, U, U, "VSMUL_VX">>>>,
    <<40, <<"VSRL_VV", U, U, "VSRL_VI", "VSRL_VX">>>>,
    <<41, <<"VSRA_VV", U, "VMADD_VV", "VSRA_VI", "VSRA_VX", U, "VMADD_VX">>>>,
    <<42, <<"VSSRL_VV", U, U, "VSSRL_VI", "VSSRL_VX">>>>,
    <<43, <<"VSSRA_VV", U, "VNSUB_VV", "VSSRA_VI", "VSSRA_VX", U, "VNSUB_VX">>>>,
    <<44, <<"VNSRL_WV", "VFMACC_VV", U, "VNSRL_WI", "VNSRL_WX", "VFMACC_VF">>>>,
    <<45, <<"VNSRA_WV", U, "VMACC_VV", "VNSRA_WI", "VNSRA_WX", U, "VMACC_VX">>>>,
    <<46, <<"VNCLIPU_WV", U, U, "VNCLIPU_WI", "VNCLIPU_WX">>>>,
    <<47, <<"VNCLIP_WV", U, "VNMSAC_VV", "VNCLIP_WI", "VNCLIP_WX", U, "VNMSAC_VX">>>>,
    <<48, <<"VWREDSUMU_VS", U, "VWADDU_VV", U, U, U, "VWADDU_VX">>>>,
    <<49, <<"VWREDSUM_VS", U, "VWADD_VV", U, U, U, "VWADD_VX">>>>,
    <<50, <<U, U, "VWSUBU_VV", U, U, U, "VWSUBU_VX">>>>,
    <<51, <<U, U, "VWSUB_VV", U, U, U, "VWSUB_VX">>>>,
    <<52, <<U, U, "VWADDU_WV", U, U, U, "VWADDU_WX">>>>,
    <<53, <<"VWSLL_VV", U, "VWADD_WV", "VWSLL_VI", "VWSLL_VX", U, "VWADD_WX">>>>,
    <<54, <<U, U, "VWSUBU_WV", U, U, U, "VWSUBU_WX">>>>,
    <<55, <<U, U, "VWSUB_WV", U, U, U, "VWSUB_WX">>>>,
    <<56, <<U, U, "VWMULU_VV", U, U, U, "VWMULU_VX">>>>,
    <<58, <<U, U, "VWMULSU_VV", U, U, U, "VWMULSU_VX">>>>,
    <<59, <<U, U, "VWMUL_VV", U, U, U, "VWMUL_VX">>>>,
    <<60, <<U, U, "VWMACCU_VV", U, U, U, "VWMACCU_VX">>>>,
    <<61, <<U, U, "VWMACC_VV", U, U, U, "VWMACC_VX">>>>,
    <<62, <<U, U, U, U, U, U, "VWMACCUS_VX">>>>,
    <<63, <<U, U, "VWMACCSU_VV", U, U, U, "VWMACCSU_VX">>>> }

decode_ext_v_range2(f6, w) ==
  IF f6 = 39 /\ w.funct3 = 3
  THEN Pick(w.rs1, {<<0, "VMV1R_V">>, <<1, "VMV2R_V">>, <<3, "VMV4R_V">>, <<7, "VMV8R_V">>})
  ELSE ByRow(f6, w.funct3, Range2)

decode_ext_v(w) ==
  LET f6 == w.funct7 \div 2
  IN CASE w.funct3 = 7 /\ w.funct7 < 64  -> "VSETVLI"
       [] w.funct3 = 7 /\ w.funct7 >= 96 -> "VSETIVLI"
       [] w.funct3 = 7 /\ w.funct7 = 64  -> "VSETVL"
       [] w.funct3 = 7 /\ w.funct7 \in 65 .. 95 -> U
       [] w.funct3 # 7 /\ f6 <= 15       -> decode_ext_v_range0(f6, w.funct3)
       [] w.funct3 # 7 /\ f6 \in 16 .. 31 -> decode_ext_v_range1(f6, w)
       [] w.funct3 # 7 /\ f6 > 31        -> decode_ext_v_range2(f6, w)

FpOpcodes == {7, 39, 83, 67, 71, 75, 79}

decoder(w) ==
  CASE w.opcode = 47                              -> decode_ext_a(w)
    [] w.opcode \in FpOpcodes                     -> decode_ext_f_d(w)
    [] w.opcode = 87                              -> decode_ext_v(w)
    [] w.opcode = 11                              -> "VCHECK"
    [] w.opcode \in {51, 59} /\ w.funct7 = 1      -> decode_ext_m(w)
    [] OTHER                                      -> decode_ext_i(w)

-----------------------------------------------------------------------------
(* The decode stage *)

requires_rv64(op) ==
  op \in { "LD", "LWU", "SD", "ADDIW", "SLLIW", "SRLIW", "SRAIW", "ADDW", "SUBW", "SLLW", "SRLW", "SRAW", "MULW", "DIVW",
           "DIVUW", "REMW", "REMUW", "FCVT_L_S", "FCVT_LU_S", "FCVT_S_L", "FCVT_S_LU", "FCVT_L_D", "FCVT_LU_D", "FCVT_D_L",
           "FCVT_D_LU", "FMV_X_D", "FMV_D_X" }

required_extension_for_instruction(w, compressed) ==
  CASE compressed                                    -> "C"
    [] ~compressed /\ w.opcode = 47                  -> "A"
    [] ~compressed /\ w.opcode \in {51, 59}          -> IF w.funct7 % 2 = 1 THEN "M" ELSE "I"
    [] ~compressed /\ w.opcode \in {7, 39}           -> IF w.funct3 = 3 THEN "D" ELSE IF w.funct3 = 2 THEN "F" ELSE "V"
    [] ~compressed /\ w.opcode = 87                  -> "V"
    [] ~compressed /\ w.opcode \in FpOpcodes \ {7, 39} ->
         IF (w.opcode = 83 /\ w.funct7 = 32) \/ w.funct7 % 4 = 1 THEN "D" ELSE "F"
    [] OTHER                                         -> "I"

\* The immediate decode_fields takes from the word, by its opcode.
decode_fields(w) ==
  LET imm_i == SignExtend(imm12(w), 12)
      imm_s == SignExtend(w.rd + 32 * w.funct7, 12)
      imm_b == SignExtend(2 * (w.rd \div 2) + 32 * (w.funct7 % 64) + 2048 * (w.rd % 2) + 4096 * (w.funct7 \div 64), 13)
      \* in units of 4096
      imm_u == SignExtend(w.funct3 + 8 * w.rs1 + 256 * w.rs2 + 8192 * w.funct7, 20)
      imm_j == SignExtend(2 * (w.rs2 \div 2) + 32 * (w.funct7 % 64) + 2048 * (w.rs2 % 2) + 4096 * w.funct3
                            + 32768 * w.rs1 + 1048576 * (w.funct7 \div 64), 21)
  IN CASE w.opcode \in {55, 23} -> imm_u
       [] w.opcode = 111        -> imm_j
       [] w.opcode = 99         -> imm_b
       [] w.opcode \in {35, 39} -> imm_s
       [] OTHER                 -> imm_i

IsVector(w) == w.opcode = 87 \/ (w.opcode \in {7, 39} /\ w.funct3 \notin {2, 3})
IsFp(w)     == ~IsVector(w) /\ w.opcode \in FpOpcodes

Illegal == [op |-> U, w |-> NoInstruction, imm |-> 0]

\* hart: the effective width, the extensions of misa, whether the default profile is in force
\* (its misa is not consulted) and whether FS and VS are off.
decode_and_normalize_instruction(w, compressed, hart) ==
  LET op == decoder(w)
      is_valid ==
        /\ hart.profile # "default" => required_extension_for_instruction(w, compressed) \in hart.misa
        /\ op # U
        /\ hart.xlen = 32 => /\ ~requires_rv64(op)
                             /\ op \in {"SLLI", "SRLI", "SRAI"} => w.funct7 % 2 = 0
                             /\ w.opcode = 47 => w.funct3 = 2
        /\ w.opcode = 47 => w.funct3 \in {2, 3}
        /\ IsVector(w) => hart.vs # 0
        /\ IsFp(w) => hart.fs # 0
  IN IF is_valid THEN [op |-> op, w |-> w, imm |-> decode_fields(w)] ELSE Illegal

-----------------------------------------------------------------------------
(* The stage run over a row of words of one length, on one hart: halfwords as  *)
(* numbers, or field records.                                                  *)

CONSTANT DecodeRows

VARIABLES hart,       \* the hart that decodes (width, profile, misa, FS, VS), and the length of the words
          decoded     \* what the stage made of each word of the row

decodeVars == <<hart, decoded>>

NoHart == [xlen |-> 0, compressed |-> FALSE]

DecodeInit == hart = NoHart /\ decoded = <<>>

run_decode_stage(h, words) ==
  /\ hart' = h
  /\ decoded' = [x \in words |->
       decode_and_normalize_instruction(IF h.compressed THEN decompressInstruction(x, h.xlen = 64) ELSE x, h.compressed, h)]

DecodeNext == \E d \in DecodeRows : decoded = <<>> /\ run_decode_stage(d.hart, d.words)

=============================================================================
