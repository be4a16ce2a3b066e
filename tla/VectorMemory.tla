---------------------------- MODULE VectorMemory ----------------------------
(***************************************************************************)
(* Vector loads and stores under demand paging: VectorMemory.cpp with the  *)
(* data accesses of MemoryAccess.cpp.  An access to an absent page leaves  *)
(* the index of its element in vstart; the guest's handler maps the page   *)
(* that the trap value names and the instruction is executed again.  The   *)
(* build is the 64-bit one; the 32-bit build moves an 8-byte element in    *)
(* two aligned halves of one page.                                         *)
(***************************************************************************)
EXTENDS VectorUnit

CONSTANTS PageBytes, Pages,   \* pages are 0 .. Pages - 1
          MemOps              \* bound: the loads and stores the guest issues

ASSUME VectorMemoryAssumption == PageBytes \in Nat \ {0} /\ Pages \in Nat \ {0}

VARIABLES mem,       \* bytes
          present,   \* mapped pages
          pending,   \* the load or store being executed, or NoMem
          tval,      \* trap value of the fault being handled, or NoFault
          before     \* history: registers, memory and vstart when it was issued

memVars == <<mem, present, pending, tval, before>>

NoMem    == [op |-> "none"]
NoFault  == -1
NoBefore == [r |-> <<>>, m |-> <<>>, vstart |-> 0]
MemBytes == Pages * PageBytes
PageOf(a) == (a % MemBytes) \div PageBytes
Absent(a) == PageOf(a) \notin present

-----------------------------------------------------------------------------
(* One data access of n bytes.  An access that crosses a page goes byte by *)
(* byte and stops at the first fault; the trap value is the address of the *)
(* whole access, whichever byte faulted.                                   *)

Faults(a, n) == \E k \in 0 .. n - 1 : Absent(a + k)

target_read(m, a, n) ==
  MapThenSumSet(LAMBDA k : m[(a + k) % MemBytes] * 2^(ByteBits * k), 0 .. n - 1)

target_write(m, a, n, val) ==
  [j \in 0 .. MemBytes - 1 |->
     LET k == (j - a) % MemBytes IN
     IF k < n /\ ~Faults(a, k + 1) THEN (val \div 2^(ByteBits * k)) % 2^ByteBits ELSE m[j]]

\* State of an instruction's loop: registers, memory, element that faulted or -1, trap value.
Running(r, m) == [r |-> r, m |-> m, at |-> -1, tval |-> NoFault]

\* The loop of a memory instruction: it returns at the first fault.
UntilFault(first, end, st0, Step(_, _)) ==
  LET loop[i \in (first - 1) .. (end - 1)] ==
        IF i < first THEN st0
        ELSE CHOOSE next \in {IF st.at >= 0 THEN st ELSE Step(st, i) : st \in {loop[i - 1]}} : TRUE
  IN  IF first < end THEN loop[end - 1] ELSE st0

Access(st, i, a, n, Done(_)) ==
  IF Faults(a, n) THEN [Done(st) EXCEPT !.r = st.r, !.at = i, !.tval = a]
  ELSE Done(st)

LoadElement(st, i, reg, w, a) ==
  LET n == w \div ByteBits IN
  Access(st, i, a, n, LAMBDA s : [s EXCEPT !.r = set_group_element(s.r, reg, i, w, target_read(s.m, a, n))])

StoreElement(st, i, reg, w, a) ==
  LET n == w \div ByteBits IN
  Access(st, i, a, n, LAMBDA s : [s EXCEPT !.m = target_write(s.m, a, n, get_group_element(s.r, reg, i, w))])

-----------------------------------------------------------------------------
(* The element loops.                                                      *)

ActiveLoop(ins, Element(_, _)) ==
  UntilFault(vstart, vl, Running(vreg, mem), LAMBDA st, i :
    IF is_element_active(st.r, i, ins.vm) THEN Element(st, i) ELSE st)

\* Unit stride, with nf + 1 fields to consecutive registers.
execute_vle(ins) ==
  ActiveLoop(ins, LAMBDA st, i : UntilFault(0, ins.nf + 1, st, LAMBDA s, f :
    LoadElement(s, i, (ins.rd + f) % NRegs, ins.eew, ins.base + (i * (ins.nf + 1) + f) * (ins.eew \div ByteBits))))

execute_vse(ins) ==
  ActiveLoop(ins, LAMBDA st, i : UntilFault(0, ins.nf + 1, st, LAMBDA s, f :
    StoreElement(s, i, (ins.rd + f) % NRegs, ins.eew, ins.base + (i * (ins.nf + 1) + f) * (ins.eew \div ByteBits))))

execute_vlse(ins) == ActiveLoop(ins, LAMBDA st, i : LoadElement(st, i, ins.rd, ins.eew, ins.base + i * ins.stride))
execute_vsse(ins) == ActiveLoop(ins, LAMBDA st, i : StoreElement(st, i, ins.rd, ins.eew, ins.base + i * ins.stride))

\* The index types are the signed ones; the data has the width of SEW.
IndexOffset(r, ins, i) == Signed(get_group_element(r, ins.rs2, i, ins.eew), ins.eew)

execute_vluxei(ins) ==
  ActiveLoop(ins, LAMBDA st, i : LoadElement(st, i, ins.rd, sew, ins.base + IndexOffset(st.r, ins, i)))
execute_vsuxei(ins) ==
  ActiveLoop(ins, LAMBDA st, i : StoreElement(st, i, ins.rd, sew, ins.base + IndexOffset(st.r, ins, i)))

\* nf + 1 whole registers, byte by byte; vstart counts elements of the instruction.
execute_vl_whole(ins) ==
  LET eb == ins.eew \div ByteBits
      st == UntilFault(vstart * eb, (ins.nf + 1) * VlenBytes, Running(vreg, mem), LAMBDA s, i :
              LoadElement(s, i, ins.rd, ByteBits, ins.base + i))
  IN  [st EXCEPT !.at = IF @ < 0 THEN @ ELSE @ \div eb]

execute_vs_whole(ins) ==
  UntilFault(vstart, (ins.nf + 1) * VlenBytes, Running(vreg, mem), LAMBDA s, i :
    StoreElement(s, i, ins.rd, ByteBits, ins.base + i))

\* The 64-bit indexed stores are missing from the switch of execute_vector and end in the
\* integer unit, which does nothing for them.
execute_vector_memory(ins) ==
  CASE ins.op = "vle"    -> execute_vle(ins)
    [] ins.op = "vse"    -> execute_vse(ins)
    [] ins.op = "vlse"   -> execute_vlse(ins)
    [] ins.op = "vsse"   -> execute_vsse(ins)
    [] ins.op = "vluxei" -> execute_vluxei(ins)
    [] ins.op = "vsuxei" -> IF ins.eew = 8 * ByteBits THEN Running(vreg, mem) ELSE execute_vsuxei(ins)
    [] ins.op = "vlre"   -> execute_vl_whole(ins)
    [] ins.op = "vsr"    -> execute_vs_whole(ins)

-----------------------------------------------------------------------------
(* Steps.                                                                  *)

\* The guest comes to a load or a store.
MemIssue(ins) ==
  /\ pending = NoMem
  /\ pending' = ins
  /\ before' = [r |-> vreg, m |-> mem, vstart |-> vstart]
  /\ UNCHANGED <<vecVars, mem, present, tval>>

\* Mutant: the restart skips the element that faulted.
MemExecute_skip ==
  /\ pending # NoMem /\ tval = NoFault
  /\ LET st == execute_vector_memory(pending) IN
     /\ vreg' = st.r /\ mem' = st.m /\ tval' = st.tval
     /\ vstart' = IF st.at >= 0 THEN st.at + 1 ELSE 0
     /\ pending' = IF st.at >= 0 THEN pending ELSE NoMem
  /\ UNCHANGED <<present, before, vl, vtype, vxrm, vxsat, xrd, last, trapped>>

\* Mutant: an instruction that has no element to move returns before it is retired.
MemExecute_empty ==
  /\ pending # NoMem /\ tval = NoFault
  /\ LET st == execute_vector_memory(pending) IN
     /\ vreg' = st.r /\ mem' = st.m /\ tval' = st.tval
     /\ vstart' = IF st.at >= 0 THEN st.at ELSE 0
     /\ pending' = IF st.at >= 0 \/ vstart >= vl THEN pending ELSE NoMem
  /\ UNCHANGED <<present, before, vl, vtype, vxrm, vxsat, xrd, last, trapped>>

\* execute_vector around execute_vector_memory: vstart is reset on success only.
MemExecute ==
  /\ pending # NoMem /\ tval = NoFault
  /\ LET st == execute_vector_memory(pending) IN
     /\ vreg' = st.r /\ mem' = st.m /\ tval' = st.tval
     /\ vstart' = IF st.at >= 0 THEN st.at ELSE 0
     /\ pending' = IF st.at >= 0 THEN pending ELSE NoMem
  /\ UNCHANGED <<present, before, vl, vtype, vxrm, vxsat, xrd, last, trapped>>

\* The guest's fault handler maps the page of the trap value and returns.
PageIn ==
  /\ tval # NoFault
  /\ present' = present \cup {PageOf(tval)}
  /\ tval' = NoFault
  /\ UNCHANGED <<vecVars, mem, pending, before>>

\* Memory contents the guest has before its first access.
MemPattern == [j \in 0 .. MemBytes - 1 |-> (j * j + j \div 3) % 2^ByteBits]

MemInit ==
  /\ mem = MemPattern /\ present \in SUBSET (0 .. Pages - 1)
  /\ pending = NoMem /\ tval = NoFault /\ before = NoBefore

-----------------------------------------------------------------------------
(* What the architecture asks.                                             *)

ElementBytes(ins) == (IF ins.op \in {"vluxei", "vsuxei"} THEN sew
                      ELSE IF ins.op \in {"vlre", "vsr"} THEN ByteBits ELSE ins.eew) \div ByteBits
Fields(ins) == IF ins.op \in {"vle", "vse"} THEN ins.nf + 1 ELSE 1

\* Registers of one field's group.
Emul(ins) == LET n == (Vlmax(vtype) * ElementBytes(ins)) \div VlenBytes IN IF n < 1 THEN 1 ELSE n

\* An instruction the architecture does not reserve: the groups lie in the register file and
\* data and index share registers only when they have the same width.
MemLegal(ins) ==
  LET n == IF ins.op \in {"vlre", "vsr"} THEN ins.nf + 1 ELSE Fields(ins) * Emul(ins)
      m == LET k == (Vlmax(vtype) * ins.eew) \div Vlen IN IF k < 1 THEN 1 ELSE k
  IN /\ ins.rd + n <= NRegs
     /\ ins.op \in {"vluxei", "vsuxei"} =>
          /\ ins.rs2 + m <= NRegs /\ ins.rs2 % m = 0
          /\ ins.eew = sew \/ (ins.rd .. ins.rd + n - 1) \cap (ins.rs2 .. ins.rs2 + m - 1) = {}

MemBody(ins) ==
  IF ins.op = "vlre" THEN before.vstart * (ins.eew \div ByteBits) .. (ins.nf + 1) * VlenBytes - 1
  ELSE IF ins.op = "vsr" THEN before.vstart .. (ins.nf + 1) * VlenBytes - 1
  ELSE {i \in before.vstart .. vl - 1 : is_element_active(before.r, i, ins.vm)}

\* Address of field f of element i; indices are unsigned.
AddressOf(ins, i, f) ==
  CASE ins.op \in {"vle", "vse"}   -> ins.base + (i * Fields(ins) + f) * ElementBytes(ins)
    [] ins.op \in {"vlse", "vsse"} -> ins.base + i * ins.stride
    [] ins.op \in {"vluxei", "vsuxei"} -> ins.base + get_group_element(before.r, ins.rs2, i, ins.eew)
    [] ins.op \in {"vlre", "vsr"}  -> ins.base + i

\* Byte of the register file that holds byte k of field f of element i.
RegByte(ins, i, f, k) == ((ins.rd + f * Emul(ins)) * VlenBytes + i * ElementBytes(ins) + k) % NBytes

\* <<register byte, address, element>> of every byte an instruction moves.
Moves(ins) ==
  {<<RegByte(ins, i, f, k), (AddressOf(ins, i, f) + k) % MemBytes, i>> :
     i \in MemBody(ins), f \in 0 .. Fields(ins) - 1, k \in 0 .. ElementBytes(ins) - 1}

IsLoad(ins) == ins.op \in {"vle", "vlse", "vluxei", "vlre"}

ExpectedRegs(ins) ==
  LET moves == IF IsLoad(ins) THEN Moves(ins) ELSE {} IN
  [j \in 0 .. NBytes - 1 |->
     LET to == {v \in moves : v[1] = j} IN
     IF to = {} THEN before.r[j] ELSE before.m[(CHOOSE v \in to : TRUE)[2]]]

\* Of two elements stored to one address the later one stays.
ExpectedMem(ins) ==
  LET moves == IF IsLoad(ins) THEN {} ELSE Moves(ins) IN
  [a \in 0 .. MemBytes - 1 |->
     LET to == {v \in moves : v[2] = a} IN
     IF to = {} THEN before.m[a]
     ELSE before.r[(CHOOSE v \in to : \A u \in to : u[3] <= v[3])[1]]]

\* Where the code is known to leave the architecture.
MemDeviation(ins) ==
  \/ Fields(ins) > 1 /\ Emul(ins) > 1                      \* VectorMemory.cpp:83, 101: rd + f
  \/ ins.op \in {"vluxei", "vsuxei"} /\ \E i \in MemBody(ins) : BitAt(get_group_element(before.r, ins.rs2, i, ins.eew), ins.eew - 1) = 1
  \/ ins.op = "vsuxei" /\ ins.eew = 8 * ByteBits           \* ExecuteUnitVector.cpp:124

CrossesPage(ins) ==
  \E i \in MemBody(ins), f \in 0 .. Fields(ins) - 1 :
    PageOf(AddressOf(ins, i, f)) # PageOf(AddressOf(ins, i, f) + ElementBytes(ins) - 1)

MemCompletes == pending # NoMem /\ pending' = NoMem

\* However often a load or store faults on the way and is restarted at vstart, its
\* registers and memory end as those of one execution without a fault, also when it
\* overwrites its own index register, and vstart ends at 0.
RestartTransparent ==
  [][MemCompletes /\ MemLegal(pending) /\ ~MemDeviation(pending) =>
       vreg' = ExpectedRegs(pending) /\ mem' = ExpectedMem(pending) /\ vstart' = 0]_<<vecVars, memVars>>

\* Under a handler that maps the page of the trap value, a load or store whose elements
\* do not cross pages is executed to its end.
RestartCompletes ==
  (pending # NoMem /\ ~MemDeviation(pending) /\ ~CrossesPage(pending)) ~> (pending = NoMem)

\* DecodedInstruction.hpp:22: "Trap value / faulting address for pending exception": a handler
\* that maps the page of the trap value makes every access complete.
FaultAddressSuffices == (pending # NoMem) ~> (pending = NoMem)
=============================================================================
