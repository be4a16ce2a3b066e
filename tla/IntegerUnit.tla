---------------------------- MODULE IntegerUnit ----------------------------
(***************************************************************************)
(* The scalar integer instructions as they are executed twice in the code: *)
(* by the pipeline's execute, writeback and commit stages, and by the      *)
(* cached fast path.  The build is the 64-bit one, scaled down: an int has *)
(* IntBits bits and a register twice as many; a hart whose effective width *)
(* is that of int keeps its registers sign-extended.  An instruction is    *)
(* run on a whole row of operands at once.                                 *)
(***************************************************************************)
EXTENDS VectorAlu

CONSTANTS
  IntRows,       \* the instructions, with the width and misa.C they run under
  Values,        \* register values
  Pcs            \* values of pc

VARIABLES
  row,           \* the instruction executed, or NoRow
  pipelined,     \* its effect in the stages, for each operand pair and pc
  cached         \* its effect in the cached fast path

intVars == <<row, pipelined, cached>>

-----------------------------------------------------------------------------
(* The operations, on operands of w bits. *)

base_arithmetic(w, op, a, b) ==
  LET s == b % w IN
  CASE op = "ADD"  -> (a + b) % 2^w
    [] op = "SUB"  -> (a - b) % 2^w
    [] op = "SLL"  -> ((a % 2^(w - s)) * 2^s)
    [] op = "SLT"  -> IF Signed(a, w) < Signed(b, w) THEN 1 ELSE 0
    [] op = "SLTU" -> IF a < b THEN 1 ELSE 0
    [] op = "XOR"  -> a ^^ b
    [] op = "SRL"  -> a \div 2^s
    [] op = "SRA"  -> Unsigned(Signed(a, w) \div 2^s, w)
    [] op = "OR"   -> a | b
    [] op = "AND"  -> a & b

Complement(w, v) == 2^w - 1 - v

\* Zbc: r ^= in1 >> (xlen - 1 - i)
clmul_reversed(w, u1, u2) ==
  FoldSet(LAMBDA i, r : r ^^ (u1 \div 2^(w - 1 - i)), 0, {i \in 0 .. w - 1 : BitAt(u2, i) = 1})

orc_b(w, v) ==
  MapThenSumSet(LAMBDA y : IF (v \div 2^(y * ByteBits)) % 2^ByteBits # 0 THEN (2^ByteBits - 1) * 2^(y * ByteBits) ELSE 0,
                0 .. w \div ByteBits - 1)

\* The switches of alu_int_b32 and alu_int_b64.
bit_manipulation(w, op, u1, u2) ==
  LET bit == 2^(u2 % w)  half == w \div 2 IN
  CASE op = "SH1ADD" -> (u2 + 2 * u1) % 2^w
    [] op = "SH2ADD" -> (u2 + 4 * u1) % 2^w
    [] op = "SH3ADD" -> (u2 + 8 * u1) % 2^w
    [] op = "ANDN"   -> u1 & Complement(w, u2)
    [] op = "ORN"    -> u1 | Complement(w, u2)
    [] op = "XNOR"   -> Complement(w, u1 ^^ u2)
    [] op = "CLZ"    -> unary("vclz", w, u1)
    [] op = "CTZ"    -> unary("vctz", w, u1)
    [] op = "CPOP"   -> unary("vcpop", w, u1)
    [] op = "MIN"    -> IF Signed(u2, w) < Signed(u1, w) THEN u2 ELSE u1
    [] op = "MAX"    -> IF Signed(u1, w) < Signed(u2, w) THEN u2 ELSE u1
    [] op = "MINU"   -> IF u2 < u1 THEN u2 ELSE u1
    [] op = "MAXU"   -> IF u1 < u2 THEN u2 ELSE u1
    [] op = "SEXT_B" -> Unsigned(Signed(u1 % 2^ByteBits, ByteBits), w)
    [] op = "SEXT_H" -> Unsigned(Signed(u1 % 2^(2 * ByteBits), 2 * ByteBits), w)
    [] op = "ROL"    -> rotl(w, u1, u2)
    [] op = "ROR"    -> rotr(w, u1, u2)
    [] op = "BSET"   -> u1 | bit
    [] op = "BCLR"   -> u1 & Complement(w, bit)
    [] op = "BINV"   -> u1 ^^ bit
    [] op = "BEXT"   -> (u1 \div bit) % 2
    [] op = "ORC_B"  -> orc_b(w, u1)
    [] op = "REV8"   -> byteswap_element(w, u1)
    [] op = "PACK"   -> (u1 % 2^half) + (u2 % 2^half) * 2^half
    [] op = "CLMUL"  -> clmul_low(w, u1, u2)
    [] op = "CLMULH" -> clmul_high(w, u1, u2)
    [] op = "CLMULR" -> clmul_reversed(w, u1, u2)

BaseOps == {"ADD", "SUB", "SLL", "SLT", "SLTU", "XOR", "SRL", "SRA", "OR", "AND"}

aluInt32(in1, in2, op) ==
  LET u1 == Low(in1)  u2 == Low(in2) IN
  Sext(CASE op \in BaseOps -> base_arithmetic(IntBits, op, u1, u2)
         [] op \in MulOps  -> multiply32(op, u1, u2)
         [] op \in DivOps  -> division(IntBits, op, u1, u2)
         [] OTHER          -> bit_manipulation(IntBits, op, u1, u2))

aluInt(in1, in2, op, xlen) ==
  IF xlen = IntBits THEN aluInt32(in1, in2, op)
  ELSE CASE op \in BaseOps -> base_arithmetic(RegBits, op, in1, in2)
         [] op \in MulOps  -> multiply64(op, in1, in2)
         [] op \in DivOps  -> division(RegBits, op, in1, in2)
         [] OTHER          -> bit_manipulation(RegBits, op, in1, in2)

\* Zba and Zbb on the low word; the address operations keep the whole of in2.
aluIntBW(in1, in2, op) ==
  LET l == Low(in1) IN
  CASE op = "ADD_UW"    -> (l + in2) % 2^RegBits
    [] op = "SLLI_UW"   -> base_arithmetic(RegBits, "SLL", l, in2)
    [] op = "SH1ADD_UW" -> (in2 + 2 * l) % 2^RegBits
    [] op = "SH2ADD_UW" -> (in2 + 4 * l) % 2^RegBits
    [] op = "SH3ADD_UW" -> (in2 + 8 * l) % 2^RegBits
    [] op = "CLZW"      -> unary("vclz", IntBits, l)
    [] op = "CTZW"      -> unary("vctz", IntBits, l)
    [] op = "CPOPW"     -> unary("vcpop", IntBits, l)
    [] op = "ROLW"      -> Sext(rotl(IntBits, l, in2))
    [] op = "RORW"      -> Sext(rotr(IntBits, l, in2))
    [] op = "PACKW"     -> Sext((l % 2^(IntBits \div 2)) + Low(in2 * 2^(IntBits \div 2)))

WordOp == [ADDW |-> "ADD", SUBW |-> "SUB", SLLW |-> "SLL", SRLW |-> "SRL", SRAW |-> "SRA",
           MULW |-> "MUL", DIVW |-> "DIV", DIVUW |-> "DIVU", REMW |-> "REM", REMUW |-> "REMU"]

aluIntW(in1, in2, op) ==
  IF op \notin DOMAIN WordOp THEN aluIntBW(in1, in2, op)
  ELSE LET o == WordOp[op] IN
       Sext(CASE o \in BaseOps -> base_arithmetic(IntBits, o, Low(in1), Low(in2))
              [] o = "MUL"     -> Low(Low(in1) * Low(in2))
              [] o \in DivOps  -> division(IntBits, o, Low(in1), Low(in2)))

perform_amo_op(w, reg_val, mem_val, op) ==
  LET sr == Signed(reg_val, w)  sm == Signed(mem_val, w) IN
  CASE op = "SWAP" -> reg_val
    [] op = "ADD"  -> (mem_val + reg_val) % 2^w
    [] op = "AND"  -> mem_val & reg_val
    [] op = "OR"   -> mem_val | reg_val
    [] op = "XOR"  -> mem_val ^^ reg_val
    [] op = "MIN"  -> IF sm < sr THEN mem_val ELSE reg_val
    [] op = "MAX"  -> IF sr < sm THEN mem_val ELSE reg_val
    [] op = "MINU" -> IF mem_val < reg_val THEN mem_val ELSE reg_val
    [] op = "MAXU" -> IF reg_val < mem_val THEN mem_val ELSE reg_val

aluAmo(in1, in2, op, word) ==
  IF word THEN Sext(perform_amo_op(IntBits, Low(in1), Low(in2), op)) ELSE perform_amo_op(RegBits, in1, in2, op)

\* csr is the old value of the CSR, in1 the register or the immediate.
csrWriteValue(rcsr, in1, op) ==
  CASE op = "CSRRW" -> in1
    [] op = "CSRRS" -> rcsr | in1
    [] op = "CSRRC" -> rcsr & Complement(RegBits, in1)

-----------------------------------------------------------------------------
(* The stages.  r is a row: its opcode, op, length, width and whether misa.C  *)
(* is set; b is rs2 or the immediate.  An effect is what is written to rd     *)
(* (or stored, or written to the CSR), the next pc and whether the jump       *)
(* target trapped.  r.imm is the offset of a branch.                          *)

NoValue == -1
Effect(value, pc, trap) == [value |-> value, pc |-> pc, trap |-> trap]

\* RegisterFile::write; the pc of a narrow hart.
write(r, val) == IF r.xlen = IntBits THEN Sext(val) ELSE val

misaligned(r, target) == target % (IF r.c THEN 2 ELSE 4) # 0

\* wb_data, tkn and jmp_pc.
execute_core(r, pc, a, b) ==
  LET next == (pc + r.len) % 2^RegBits
      to   == (pc + (IF r.opcode = "Branch" THEN r.imm ELSE b)) % 2^RegBits
      Plain(v) == [wb |-> v, tkn |-> FALSE, jmp |-> 0]
  IN CASE r.opcode = "Lui"    -> Plain(b)
       [] r.opcode = "Auipc"  -> Plain(to)
       [] r.opcode = "Jal"    -> [wb |-> next, tkn |-> TRUE, jmp |-> to]
       [] r.opcode = "Jalr"   -> LET t == (a + b) % 2^RegBits IN [wb |-> next, tkn |-> TRUE, jmp |-> write(r, t - (t % 2))]
       [] r.opcode \in {"Op", "OpImm"}     -> Plain(aluInt(a, b, r.op, r.xlen))
       [] r.opcode \in {"Op32", "OpImm32"} -> Plain(aluIntW(a, b, r.op))
       [] r.opcode = "Branch" -> [wb |-> NoValue, tkn |-> branchTaken(a, b, r.op, r.xlen), jmp |-> write(r, to)]
       [] r.opcode = "Amo"    -> Plain(aluAmo(a, b, r.op, r.word))
       [] r.opcode = "System" -> Plain(csrWriteValue(b, a, r.op))

\* Writeback, then commit: the register is written before the target is checked.
commit(r, pc, x) ==
  LET value == IF r.opcode \in {"Branch", "Amo", "System"} THEN x.wb ELSE write(r, x.wb) IN
  IF x.tkn /\ misaligned(r, x.jmp) THEN Effect(value, x.jmp, TRUE)
  ELSE Effect(value, write(r, IF x.tkn THEN x.jmp ELSE (pc + r.len) % 2^RegBits), FALSE)

stages(r, pc, a, b) == commit(r, pc, execute_core(r, pc, a, b))

-----------------------------------------------------------------------------
(* The cached fast path. *)

FastWordOps == {"ADDW", "SUBW", "SLLW", "SRLW", "SRAW"}

execute_cached_jump(r, pc, target) ==
  LET value == write(r, (pc + r.len) % 2^RegBits) IN
  IF misaligned(r, target) THEN Effect(value, target, TRUE) ELSE Effect(value, write(r, target), FALSE)

\* The target is not checked.
execute_cached_branch(r, pc, a, b, imm) ==
  Effect(NoValue, write(r, (pc + (IF cachedTaken(r.op, a, b) THEN imm ELSE r.len)) % 2^RegBits), FALSE)

\* The arithmetic is that of whole registers, whatever the hart's width.
execute_cached_op_fast(r, pc, a, b) ==
  LET Alu(v) == Effect(write(r, v), write(r, (pc + r.len) % 2^RegBits), FALSE) IN
  CASE r.opcode \in {"Op", "OpImm"} /\ r.op \in BaseOps           -> Alu(base_arithmetic(RegBits, r.op, a, b))
    [] r.opcode \in {"Op32", "OpImm32"} /\ r.op \in FastWordOps   -> Alu(Sext(base_arithmetic(IntBits, WordOp[r.op], Low(a), Low(b))))
    [] r.opcode = "Lui"                                           -> Alu(b)
    [] r.opcode = "Auipc"                                         -> Alu((pc + b) % 2^RegBits)
    [] r.opcode = "Jal"                                           -> execute_cached_jump(r, pc, (pc + b) % 2^RegBits)
    [] r.opcode = "Jalr" -> LET t == (a + b) % 2^RegBits IN execute_cached_jump(r, pc, write(r, t - (t % 2)))
    [] r.opcode = "Branch"                                        -> execute_cached_branch(r, pc, a, b, r.imm)
    [] OTHER                                                      -> stages(r, pc, a, b)

-----------------------------------------------------------------------------
NoRow == [opcode |-> "none"]
NarrowValues(r, vs) == IF r.xlen = IntBits THEN {v \in vs : Sext(v) = v} ELSE vs
\* The offset of a jump is even.
Offsets(r, vs) == IF r.opcode = "Jal" THEN {v \in vs : v % 2 = 0} ELSE vs
Operands(r) ==
  NarrowValues(r, {pc \in Pcs : ~misaligned(r, pc) /\ (r.opcode \in {"Jal", "Jalr", "Branch", "Auipc"} \/ pc = 0)})
    \X NarrowValues(r, Values) \X Offsets(r, NarrowValues(r, Values))

IntInit ==
  /\ row = NoRow
  /\ pipelined = <<>> /\ cached = <<>>

execute_row(r) ==
  /\ row' = r
  /\ pipelined' = [p \in Operands(r) |-> stages(r, p[1], p[2], p[3])]
  /\ cached' = [p \in Operands(r) |-> execute_cached_op_fast(r, p[1], p[2], p[3])]

=============================================================================
