--------------------------- MODULE IntegerReference --------------------------
(* The integer instructions as the manual defines them, bit by bit or on the  *)
(* integers, and the comparison of both execution paths with it.              *)
EXTENDS IntegerUnit

Ones(v, w)    == {k \in 0 .. w - 1 : BitAt(v, k) = 1}
Number(set)   == MapThenSumSet(LAMBDA k : 2^k, set)
Pairs(a, b, w, k) == {i \in 0 .. k : i < w /\ k - i < w /\ i \in Ones(a, w) /\ (k - i) \in Ones(b, w)}

\* Bit k of the carry-less product of two w-bit numbers.
ClBit(a, b, w, k) == Cardinality(Pairs(a, b, w, k)) % 2 = 1

\* Is v the w-bit result of op on the w-bit operands a and b?
ResultOK(w, op, a, b, v) ==
  LET A == Ones(a, w)  B == Ones(b, w)  s == b % w  x == Signed(a, w)  y == Signed(b, w)
      All == 0 .. w - 1
      IsSet(set) == v = Number(set)
      Byte(k) == (k \div ByteBits) * ByteBits .. (k \div ByteBits) * ByteBits + ByteBits - 1
      Copies(n) == IsSet({k \in All : (IF k < n THEN k ELSE n - 1) \in A})
  IN CASE op = "ADD"    -> v = (x + y) % 2^w
       [] op = "SUB"    -> v = (x - y) % 2^w
       [] op = "SLL"    -> IsSet({k \in All : k - s \in A})
       [] op = "SRL"    -> IsSet({k \in All : k + s \in A})
       [] op = "SRA"    -> IsSet({k \in All : (IF k + s < w THEN k + s ELSE w - 1) \in A})
       [] op = "SLT"    -> v = IF x < y THEN 1 ELSE 0
       [] op = "SLTU"   -> v = IF a < b THEN 1 ELSE 0
       [] op = "XOR"    -> IsSet((A \ B) \cup (B \ A))
       [] op = "OR"     -> IsSet(A \cup B)
       [] op = "AND"    -> IsSet(A \cap B)
       [] op \in MulOps -> MultiplicationOK(w, op, a, b, v)
       [] op \in DivOps -> DivisionOK(w, op, a, b, v)
       [] op = "SH1ADD" -> v = (y + 2 * x) % 2^w
       [] op = "SH2ADD" -> v = (y + 4 * x) % 2^w
       [] op = "SH3ADD" -> v = (y + 8 * x) % 2^w
       [] op = "ANDN"   -> IsSet(A \ B)
       [] op = "ORN"    -> IsSet(A \cup (All \ B))
       [] op = "XNOR"   -> IsSet({k \in All : (k \in A) = (k \in B)})
       [] op = "CLZ"    -> v = Cardinality({k \in All : \A j \in k .. w - 1 : j \notin A})
       [] op = "CTZ"    -> v = Cardinality({k \in All : \A j \in 0 .. k : j \notin A})
       [] op = "CPOP"   -> v = Cardinality(A)
       [] op = "MIN"    -> v \in {a, b} /\ Signed(v, w) <= x /\ Signed(v, w) <= y
       [] op = "MAX"    -> v \in {a, b} /\ Signed(v, w) >= x /\ Signed(v, w) >= y
       [] op = "MINU"   -> v \in {a, b} /\ v <= a /\ v <= b
       [] op = "MAXU"   -> v \in {a, b} /\ v >= a /\ v >= b
       [] op = "SEXT_B" -> Copies(ByteBits)
       [] op = "SEXT_H" -> Copies(2 * ByteBits)
       [] op = "ROL"    -> IsSet({k \in All : (k - s) % w \in A})
       [] op = "ROR"    -> IsSet({k \in All : (k + s) % w \in A})
       [] op = "BSET"   -> IsSet(A \cup {s})
       [] op = "BCLR"   -> IsSet(A \ {s})
       [] op = "BINV"   -> IsSet(IF s \in A THEN A \ {s} ELSE A \cup {s})
       [] op = "BEXT"   -> v = IF s \in A THEN 1 ELSE 0
       [] op = "ORC_B"  -> IsSet({k \in All : A \cap Byte(k) # {}})
       [] op = "REV8"   -> IsSet({k \in All : (w \div ByteBits - 1 - k \div ByteBits) * ByteBits + (k % ByteBits) \in A})
       [] op = "PACK"   -> IsSet({k \in All : IF k < w \div 2 THEN k \in A ELSE k - w \div 2 \in B})
       [] op = "CLMUL"  -> IsSet({k \in All : ClBit(a, b, w, k)})
       [] op = "CLMULH" -> IsSet({k \in All : ClBit(a, b, w, k + w)})
       [] op = "CLMULR" -> IsSet({k \in All : ClBit(a, b, w, k + w - 1)})

\* The operation on words behind a W instruction, and those that add to a whole register.
WordForm == [CLZW |-> "CLZ", CTZW |-> "CTZ", CPOPW |-> "CPOP", ROLW |-> "ROL", RORW |-> "ROR", PACKW |-> "PACK"]
WideForm == [ADD_UW |-> 1, SH1ADD_UW |-> 2, SH2ADD_UW |-> 4, SH3ADD_UW |-> 8]

Word32OK(op, a, b, v) == v = Sext(v) /\ ResultOK(IntBits, op, Low(a), Low(b), Low(v))

WordResultOK(op, a, b, v) ==
  CASE op \in DOMAIN WordOp   -> Word32OK(WordOp[op], a, b, v)
    [] op \in DOMAIN WordForm -> Word32OK(WordForm[op], a, b, v)
    [] op \in DOMAIN WideForm -> v = (b + WideForm[op] * Low(a)) % 2^RegBits
    [] op = "SLLI_UW"         -> ResultOK(RegBits, "SLL", Low(a), b, v)

AmoAs == [SWAP |-> "SWAP", ADD |-> "ADD", AND |-> "AND", OR |-> "OR", XOR |-> "XOR", MIN |-> "MIN", MAX |-> "MAX",
          MINU |-> "MINU", MAXU |-> "MAXU"]

CsrOK(op, old, in, v) ==
  CASE op = "CSRRW" -> v = in
    [] op = "CSRRS" -> v = Number(Ones(old, RegBits) \cup Ones(in, RegBits))
    [] op = "CSRRC" -> v = Number(Ones(old, RegBits) \ Ones(in, RegBits))

\* The value an instruction of row r writes on operands a and b at pc.
ValueOK(r, pc, a, b, v) ==
  CASE r.opcode \in {"Op", "OpImm"} ->
         IF r.xlen = IntBits THEN Word32OK(r.op, a, b, v) ELSE ResultOK(RegBits, r.op, a, b, v)
    [] r.opcode \in {"Op32", "OpImm32"} -> WordResultOK(r.op, a, b, v)
    [] r.opcode = "Amo" -> IF r.op = "SWAP" THEN v = (IF r.word THEN Sext(a) ELSE a)
                           ELSE IF r.word THEN Word32OK(AmoAs[r.op], b, a, v) ELSE ResultOK(RegBits, AmoAs[r.op], b, a, v)
    [] r.opcode = "System" -> CsrOK(r.op, b, a, v)
    [] r.opcode = "Lui"    -> v = write(r, b)
    [] r.opcode = "Auipc"  -> v = write(r, (pc + b) % 2^RegBits)
    [] r.opcode \in {"Jal", "Jalr"} -> v = write(r, (pc + r.len) % 2^RegBits)
    [] r.opcode = "Branch" -> v = NoValue

Compare(op, a, b, xlen) ==
  LET x == Signed(a % 2^xlen, xlen)  y == Signed(b % 2^xlen, xlen)  ult == a % 2^xlen < b % 2^xlen IN
  CASE op = "BEQ" -> x = y [] op = "BNE" -> x # y [] op = "BLT" -> x < y [] op = "BGE" -> y <= x
    [] op = "BLTU" -> ult [] op = "BGEU" -> ~ult

Target(r, pc, a, b) ==
  CASE r.opcode = "Jal"  -> pc + b
    [] r.opcode = "Jalr" -> ((a + b) \div 2) * 2
    [] r.opcode = "Branch" /\ Compare(r.op, a, b, r.xlen)  -> pc + r.imm
    [] r.opcode = "Branch" /\ ~Compare(r.op, a, b, r.xlen) -> pc + r.len
    [] OTHER -> pc + r.len

\* What the manual prescribes for row r: the value, the next pc modulo the width, the trap of a
\* misaligned target. (On that trap both paths have already written rd, see the README.)
EffectOK(r, p, e) ==
  LET t == write(r, Target(r, p[1], p[2], p[3]) % 2^RegBits) IN
  /\ e.trap = misaligned(r, t)
  /\ ~e.trap => ValueOK(r, p[1], p[2], p[3], e.value) /\ e.pc = t

\* Every integer instruction executed by the stages has the effect the manual prescribes, in
\* both widths, for operands at the ends of the ranges of byte, halfword, word and register.
\* (aluInt32, aluInt, aluIntW, aluIntB, aluAmo, branchTaken, execute_core)
StagesExact == \A p \in DOMAIN pipelined : EffectOK(row, p, pipelined[p])

\* Where the fast path is known to differ: shifts in a hart narrower than the build, and
\* branches to a misaligned target, which is not noticed before the fetch.
FastDeviates(r, p) ==
  \/ r.xlen = IntBits /\ r.opcode \in {"Op", "OpImm"} /\ r.op \in {"SLL", "SRL", "SRA"}
  \/ r.opcode = "Branch" /\ pipelined[p].trap

\* The cached fast path and the stages agree on every instruction. (execute_cached_op_fast)
PathsAgree == \A p \in DOMAIN cached : FastDeviates(row, p) \/ cached[p] = pipelined[p]

\* A shift has the same result in the fast path as in the stages, in both widths.
ShiftsAgree ==
  row.opcode \in {"Op", "OpImm"} => \A p \in DOMAIN cached : row.op \in {"SLL", "SRL", "SRA"} => cached[p] = pipelined[p]
=============================================================================
