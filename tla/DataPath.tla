------------------------------ MODULE DataPath ------------------------------
(***************************************************************************)
(* Main memory behind the two L1 caches, and reverse execution on top of   *)
(* it.  Loads go through the data cache (write-through, no allocation on a *)
(* store), fetches through the instruction cache; high-performance mode,   *)
(* the functional stages of a bare-metal session, devices and the debugger *)
(* go to memory directly.  With rollback tracking every instruction pushes *)
(* a checkpoint and every store its old bytes.                             *)
(* Addresses are offsets from the DRAM base; a word is a tuple of bytes.   *)
(***************************************************************************)
EXTENDS Cache, SequencesExt

CONSTANTS
  RamBytes,      \* size of main memory, a multiple of LineBytes
  Program,       \* instructions of the guest: [pc, addr, n, writes, vector], n = 0 for no load
  Behind,        \* writes that go to memory directly, <<address, bytes>>
  Baremetal,     \* a BaremetalMachine and not an OSMachine
  UndoMax,       \* 1024 checkpoints in the code
  TickMax        \* bound on the LRU clocks of a checked instance

ASSUME PathAssumption ==
  /\ RamBytes \in Nat /\ RamBytes % LineBytes = 0 /\ UndoMax \in Nat \ {0} /\ TickMax \in Nat
  /\ Baremetal \in BOOLEAN

\* An access lies in main memory, and a store is no wider than a line (8 bytes of 64).
RamAddrs   == 0 .. RamBytes - 1
ByteValues == 0 .. 255
IsWrite(w) == /\ w \in Nat \X Seq(ByteValues)
              /\ Len(w[2]) \in 1 .. LineBytes /\ w[1] + Len(w[2]) <= RamBytes

ASSUME ProgramAssumption ==
  /\ \A ins \in Program : /\ ins.pc \in RamAddrs /\ ins.addr \in RamAddrs /\ ins.n \in Nat /\ ins.vector \in BOOLEAN
                          /\ ins.writes \in Seq(Nat \X Seq(ByteValues))
                          /\ \A k \in DOMAIN ins.writes : IsWrite(ins.writes[k])
  /\ \A w \in Behind : IsWrite(w)

VARIABLES
  ram,           \* mmem
  dcache, icache,
  hp,            \* s_high_performance
  mmu_used,      \* s_mmu_ever_used
  rollback,      \* s_rollback_enabled
  undo,          \* undo_stack, newest first
  stale          \* history: for each cache, the bytes written without it since they entered it

pathVars == <<ram, dcache, icache, hp, mmu_used, rollback, undo, stale>>

ram_read_fast(r, addr, n) == [i \in 1 .. n |-> r[addr + i - 1]]
ram_write_fast(r, addr, bytes) ==
  [b \in RamAddrs |-> LET i == b - addr + 1 IN IF i \in 1 .. Len(bytes) THEN bytes[i] ELSE r[b]]

LineOf(r, addr)     == [o \in Offsets |-> r[get_tag(addr) + o]]
LineBytesOf(addr)   == {get_tag(addr) + o : o \in Offsets}
Span(addr, n)       == addr .. addr + n - 1

PathInit ==
  /\ ram = [b \in RamAddrs |-> 0]
  /\ dcache = EmptyCache /\ icache = EmptyCache
  /\ hp \in BOOLEAN /\ mmu_used = FALSE /\ rollback = FALSE
  /\ undo = << >>
  /\ stale = [d |-> {}, i |-> {}]

-----------------------------------------------------------------------------
\* push_undo_state: the registers, clocks and counters are saved whole; memory by its writes.
\* The last two fields are history: memory at that moment and what others have written since.
push_undo_state(u, r) ==
  LET all == <<[writes |-> << >>, before |-> r, others |-> {}]>> \o u
  IN  IF Len(all) > UndoMax THEN Front(all) ELSE all

record_mem_write(u, addr, old) ==
  IF u = << >> THEN u ELSE [u EXCEPT ![1].writes = Append(@, <<addr, old>>)]

\* A step of an instruction takes and gives a record of what it may change.
Now == [ram |-> ram, dcache |-> dcache, icache |-> icache, undo |-> undo, stale |-> stale]

\* fetch_read_instruction_word: through the instruction cache unless in the fast mode.  A
\* half-word never crosses a line; one byte stands for it.
fetch_read_instruction_word(st, pc) ==
  IF hp THEN st
  ELSE IF read_hits(st.icache, pc, 1) THEN [st EXCEPT !.icache = read(@, pc, 1)]
  ELSE [st EXCEPT !.icache = line_insert(read(@, pc, 1), pc, LineOf(st.ram, pc)),
                  !.stale.i = @ \ LineBytesOf(pc)]

\* issue_read: a load that is direct (the fast mode) or crosses lines reads memory; others the
\* cache, which a miss fills.
through_cache(st, addr, n) ==
  LET seen == [st EXCEPT !.dcache = read(@, addr, n)]
  IN  IF read_hits(st.dcache, addr, n) THEN seen
      ELSE [seen EXCEPT !.dcache = line_insert(@, addr, LineOf(st.ram, addr)), !.stale.d = @ \ LineBytesOf(addr)]
issue_read(st, addr, n, direct) == IF direct \/ Crosses(addr, n) THEN st ELSE through_cache(st, addr, n)

\* issue_write: the old bytes are recorded, then memory is written, by a direct store (the fast
\* mode) without the data cache.
issue_write(st, addr, bytes, direct) ==
  LET span == Span(addr, Len(bytes))
  IN  [st EXCEPT !.ram    = ram_write_fast(@, addr, bytes),
                 !.dcache = IF direct THEN @ ELSE write(@, addr, bytes),
                 !.undo   = IF rollback THEN record_mem_write(@, addr, ram_read_fast(st.ram, addr, Len(bytes))) ELSE @,
                 !.stale  = [i |-> @.i \cup span, d |-> IF direct THEN @.d \cup span ELSE @.d \ span]]

\* A store is a single access, the bytes of one that crosses a page, or the elements of a vector
\* store, in order.
issue_writes(st, writes, direct) ==
  LET after[k \in 0 .. Len(writes)] ==
        IF k = 0 THEN st ELSE issue_write(after[k - 1], writes[k][1], writes[k][2], direct)
  IN  after[Len(writes)]

\* One instruction after its fetch: a load, a store, both (an AMO) or neither.
Executes(fetched, ins, direct) ==
  LET loaded == IF ins.n = 0 THEN fetched ELSE issue_read(fetched, ins.addr, ins.n, direct)
      end    == issue_writes(loaded, ins.writes, direct)
  IN  /\ ram' = end.ram /\ dcache' = end.dcache /\ icache' = end.icache
      /\ undo' = end.undo /\ stale' = end.stale
      /\ UNCHANGED <<hp, mmu_used, rollback>>

Begin == [Now EXCEPT !.undo = IF rollback THEN push_undo_state(@, ram) ELSE @]

\* An OSMachine, and a BaremetalMachine that is cycle-accurate, in lockstep or stepped by hand.
run_cycle(ins) == Executes(fetch_read_instruction_word(Begin, ins.pc), ins, hp)

\* The functional stages of a BaremetalMachine: fetches avoid the instruction cache until
\* translation was first switched on; scalar loads and stores always avoid the data cache,
\* vector ones, which are made in the execute stage, only in the fast mode.
run_fetch_stage_baremetal(st, pc) == IF mmu_used THEN fetch_read_instruction_word(st, pc) ELSE st

run_cycle_baremetal(ins) ==
  /\ Baremetal
  /\ Executes(run_fetch_stage_baremetal(Begin, ins.pc), ins, hp \/ ~ins.vector)

-----------------------------------------------------------------------------
\* FENCE.I, the remote fences of direct SBI and CPU::TLB_flush drop both caches.
flush_caches ==
  /\ icache' = flush(icache) /\ dcache' = flush(dcache)
  /\ stale' = [d |-> {}, i |-> {}]
  /\ UNCHANGED <<ram, hp, mmu_used, rollback, undo>>

\* The satp write that first switches translation on sets the latch, and flushes the same way.
write_satp ==
  /\ ~mmu_used /\ mmu_used' = TRUE
  /\ icache' = flush(icache) /\ dcache' = flush(dcache)
  /\ stale' = [d |-> {}, i |-> {}]
  /\ UNCHANGED <<ram, hp, rollback, undo>>

\* A device's queue entry or sector, a page-table bit set by the walker, a debugger's M packet:
\* memory is written and no cache hears of it.
memory_write(addr, bytes) ==
  /\ ram' = ram_write_fast(ram, addr, bytes)
  /\ stale' = [d |-> stale.d \cup Span(addr, Len(bytes)), i |-> stale.i \cup Span(addr, Len(bytes))]
  /\ undo' = [k \in DOMAIN undo |-> [undo[k] EXCEPT !.others = @ \cup Span(addr, Len(bytes))]]
  /\ UNCHANGED <<dcache, icache, hp, mmu_used, rollback>>

\* SettingsModal::submit and the rollback key: the caches stay as they are, and the
\* checkpoints go when tracking is turned off.
submit(fast, tracking) ==
  /\ <<fast, tracking>> # <<hp, rollback>>
  /\ hp' = fast /\ rollback' = tracking
  /\ undo' = IF tracking THEN undo ELSE << >>
  /\ UNCHANGED <<ram, dcache, icache, mmu_used, stale>>

\* perform_backstep: the newest checkpoint's writes are taken back, last one first.
Undone_forward(r, writes) ==
  LET back[k \in 0 .. Len(writes)] ==
        IF k = 0 THEN r ELSE ram_write_fast(back[k - 1], writes[k][1], writes[k][2])
  IN  back[Len(writes)]
Undone(r, writes) ==
  LET last == Len(writes) + 1
      back[k \in 0 .. Len(writes)] ==
        IF k = 0 THEN r ELSE ram_write_fast(back[k - 1], writes[last - k][1], writes[last - k][2])
  IN  back[Len(writes)]
Rewritten(writes) == UNION {Span(writes[i][1], Len(writes[i][2])) : i \in DOMAIN writes}

perform_backstep ==
  /\ undo # << >>
  /\ LET w == Head(undo).writes
     IN  /\ ram' = Undone(ram, w)
         /\ stale' = [d |-> stale.d \cup Rewritten(w), i |-> stale.i \cup Rewritten(w)]
  /\ undo' = Tail(undo)
  /\ UNCHANGED <<dcache, icache, hp, mmu_used, rollback>>

PathNext ==
  \/ \E ins \in Program : dcache.tick < TickMax /\ icache.tick < TickMax /\ (run_cycle(ins) \/ run_cycle_baremetal(ins))
  \/ flush_caches
  \/ write_satp
  \/ \E w \in Behind : memory_write(w[1], w[2])
  \/ \E fast \in BOOLEAN, tracking \in BOOLEAN : submit(fast, tracking)
  \/ perform_backstep

PathSpec == PathInit /\ [][PathNext]_pathVars

-----------------------------------------------------------------------------
LineAt(c, p) == c.lines[p[1]][p[2]]
LinesOf(c) == {p \in (0 .. NumSets - 1) \X (1 .. CacheWays) : LineAt(c, p).valid}

\* Every byte of a cache that differs from memory was written by someone who bypasses that
\* cache since the line came in.  For the data cache these are a device, the walker, the
\* debugger, a step back, a store in high-performance mode and a scalar store of the bare-metal
\* functional stages (run_memory_stage_baremetal); a store that goes through issue_write with
\* the fast mode off, one that crosses lines included, never leaves it behind.
OnlyBypassStale ==
  /\ \A p \in LinesOf(dcache), o \in Offsets :
       LET l == LineAt(dcache, p) IN l.data[o] # ram[l.tag + o] => l.tag + o \in stale.d
  /\ \A p \in LinesOf(icache), o \in Offsets :
       LET l == LineAt(icache, p) IN l.data[o] # ram[l.tag + o] => l.tag + o \in stale.i

\* A step back leaves every byte of memory as it was before the instruction it takes back,
\* apart from those others wrote since; also after the instruction wrote a byte twice.
BackstepRestores ==
  [][rollback' /\ undo # << >> /\ undo' = Tail(undo)
       => \A b \in RamAddrs : ram'[b] = Head(undo).before[b] \/ b \in Head(undo).others]_pathVars

\* After a step back the program reads what memory holds again: the data cache, if it agreed
\* with memory before, has no byte left of the instruction that was taken back.
BackstepVisible ==
  [][rollback' /\ undo # << >> /\ undo' = Tail(undo) /\ stale.d = {}
       => \A p \in LinesOf(dcache'), o \in Offsets :
            LET l == LineAt(dcache', p) IN l.data[o] = ram'[l.tag + o]]_pathVars
=============================================================================
