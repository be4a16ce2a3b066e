------------------------------ MODULE Pipeline ------------------------------
(* The timing model of the cycle-accurate mode: a five-stage in-order        *)
(* pipeline with forwarding, a multi-cycle divider, cache and TLB miss        *)
(* penalties, five branch predictors and a branch target buffer.              *)
(*                                                                            *)
(* The functional simulator executes one instruction, then hands it to        *)
(* step_instruction, which ticks the pipeline until the fetch stage can take  *)
(* it. A step of this module is one tick, so that the loop is visible.        *)
(* Reverse execution saves and restores the whole of it, and the user         *)
(* changes the configuration between two instructions.                        *)
EXTENDS Integers, Sequences, FiniteSets, SequencesExt, FiniteSetsExt

CONSTANTS
  Insts,        \* the instructions the program may commit
  Configs,      \* the configurations the user may apply
  BtbBuilt,     \* entries of the BTB as constructed (128 in the code: reset is never called)
  BhtSize,      \* entries of the branch history table (256)
  HistoryMax,   \* snapshots kept (80)
  CounterMod,   \* values of an unsigned counter (2^32)
  InstMax,      \* bound: instructions fed
  SavedMax      \* bound: saved states

Kinds == {"alu", "load", "store", "mul", "div", "jal", "jalr", "branch"}

\* An instruction of any operands, and any configuration that the file or the modal sets: a latency may
\* be 0. From 2^31 on it is negative as an int, and left out.
ASSUME PipeAssumption ==
  /\ Insts \subseteq [kind : Kinds, pc : Nat, rd : Nat, rs1 : Nat, rs2 : Nat, branched : BOOLEAN, target : Nat,
                      tlb_miss : BOOLEAN, icache_miss : BOOLEAN, dcache_miss : BOOLEAN]
  /\ IsFiniteSet(Configs)
  /\ \A c \in Configs :
       /\ c.mul_latency \in Nat /\ c.div_latency \in Nat
       /\ 2 * c.mul_latency < CounterMod /\ 2 * c.div_latency < CounterMod
       /\ {c.icache_miss_penalty, c.dcache_miss_penalty, c.tlb_miss_penalty, c.branch_mispredict_penalty} \subseteq Nat
  /\ {HistoryMax, SavedMax, CounterMod} \subseteq Nat

VARIABLES
  stage,          \* f_reg_, d_reg_, e_reg_, m_reg_, w_reg_
  stall,          \* control_bubble_remaining_ and the four *_remaining_ counters
  stats,          \* the statistics
  bht, btb, gshare_history,
  cycle_history,
  next_inst_id,
  config,
  call,           \* where step_instruction is: "idle", "wait" (its loop), "last" (its last tick)
  feeding,        \* the instruction it was given
  thrown,         \* the process died of an uncaught std::out_of_range
  saved,          \* the undo stack's copies of the pipeline
  \* history variables
  avail,          \* the cycle from which each register's value can be used
  returned,       \* the sum of the cycles step_instruction returned, or has counted so far
  fed,            \* the instructions it fed
  waited          \* the ticks of this call

tables    == <<bht, btb, gshare_history>>
saveable  == <<stage, stall, stats, tables, cycle_history, avail, returned, fed>>
pipeVars  == <<saveable, next_inst_id, config, call, feeding, thrown, saved, waited>>

Stages == {"f", "d", "e", "m", "w"}
Causes == {"icache", "dcache", "tlb", "structural", "data", "control"}

\* PipelineReg{}: an empty stage.
NoInst == [valid |-> FALSE, id |-> 0, pc |-> 0, kind |-> "none", rd |-> 0, rs1 |-> 0, rs2 |-> 0,
           tlb_miss |-> FALSE, icache_miss |-> FALSE, dcache_miss |-> FALSE,
           branched |-> FALSE, target |-> 0, latency |-> 0, resolved |-> FALSE]

NoEntry  == [valid |-> FALSE, pc |-> 0, target |-> 0]
NoStall  == [control |-> 0, tlb |-> 0, icache |-> 0, dcache |-> 0, div |-> 0]
NoStats  == [c \in Causes \cup {"cycles", "stalls", "bubbles"} |-> 0]

\* The registers of the program.
Registers == {0} \cup UNION {{i.rd, i.rs1, i.rs2} : i \in Insts}

writes_reg(r) == r.rd # 0 /\ r.kind \notin {"branch", "store"}
\* push_back, then pop_front when there are too many
Recent(s, n)  == IF Len(s) > n THEN Tail(s) ELSE s
Less1(n)      == IF n > 0 THEN n - 1 ELSE n

-----------------------------------------------------------------------------
(* Stalls *)

check_stall_mem == stage.m.valid /\ stage.m.dcache_miss /\ stall.dcache > 0
check_stall_ex  == stage.e.valid /\ stage.e.kind = "div" /\ stall.div > 0
check_stall_if  == stage.f.valid /\ ((stage.f.tlb_miss /\ stall.tlb > 0) \/ (stage.f.icache_miss /\ stall.icache > 0))

\* Is the result of the instruction in stage s on the path to the decode stage?
Forwarded(s) == config.enable_forwarding /\ (s = "e" => config.enable_ex_forwarding) /\ (s = "m" => config.enable_mem_forwarding)

\* Mutant: a value is forwarded one cycle before it is there.
MutHazard(s) ==
  /\ stage[s].valid /\ writes_reg(stage[s])
  /\ stage[s].rd \in {stage.d.rs1, stage.d.rs2}
  /\ Forwarded(s) => stage[s].latency > 1

check_hazard_with_stage(s) ==
  /\ stage[s].valid /\ writes_reg(stage[s])
  /\ stage[s].rd \in {stage.d.rs1, stage.d.rs2}
  /\ Forwarded(s) => stage[s].latency > 0

check_stall_id == stage.d.valid /\ (check_hazard_with_stage("e") \/ check_hazard_with_stage("m"))

\* remaining_latency is signed: 0 - 1 is -1, and nothing waits for it.
init_execution_latency(r) ==
  [r EXCEPT !.latency = IF ~r.valid             THEN @
                        ELSE IF r.kind = "load" THEN 1
                        ELSE IF r.kind = "mul"  THEN config.mul_latency - 1
                        ELSE IF r.kind = "div"  THEN config.div_latency - 1
                        ELSE 0]

\* The divider is busy from the cycle a division enters the execute stage. Its counter is unsigned: a
\* latency of 0 wraps, and the divider is busy for the longest time it can count.
DivTicks(c) == (c.div_latency - 1) % CounterMod
DivBusy(r, busy) == IF r.valid /\ r.kind = "div" THEN DivTicks(config) ELSE busy

-----------------------------------------------------------------------------
(* Branch prediction *)

\* The eight bits of a ^ b that the index keeps.
Xor(a, b) == SumSet({2 ^ k : k \in {k \in 0 .. 7 : (a \div 2 ^ k) % 2 # (b \div 2 ^ k) % 2}})

BhtIndex(pc) ==
  LET i == pc \div 2 IN
  IF config.bp_type = "gshare" THEN Xor(i, gshare_history) % BhtSize ELSE i % BhtSize

predicted_taken(pc) ==
  CASE config.bp_type = "not_taken" -> FALSE
    [] config.bp_type = "taken"     -> TRUE
    [] config.bp_type = "1bit"      -> bht[BhtIndex(pc)] # 0
    [] OTHER                        -> bht[BhtIndex(pc)] >= 2

trained(counter, branched) ==
  CASE config.bp_type = "1bit" -> IF branched THEN 1 ELSE 0
    [] config.bp_type \in {"2bit", "gshare"} ->
         IF branched THEN (IF counter < 3 THEN counter + 1 ELSE 3) ELSE Less1(counter)
    [] OTHER -> counter

BtbIndex(pc) == (pc \div 2) % config.btb_entries

\* With no BTB configured every look-up goes to an empty dummy entry.
BtbEntry(pc) == IF config.btb_entries > 0 THEN btb[BtbIndex(pc)] ELSE NoEntry
BtbHit(r)    == BtbEntry(r.pc) = [valid |-> TRUE, pc |-> r.pc, target |-> r.target]

resolve_jump_ex(r)   == IF BtbHit(r) THEN 0 ELSE IF r.kind = "jalr" THEN config.branch_mispredict_penalty ELSE 1
resolve_branch_ex(r) == IF predicted_taken(r.pc) = r.branched /\ (r.branched => BtbHit(r))
                        THEN 0 ELSE config.branch_mispredict_penalty

Resolves(r)  == r.valid /\ ~r.resolved
IsJump(r)    == r.kind \in {"jal", "jalr"}
ControlBubbles(r) ==
  IF Resolves(r) /\ IsJump(r)              THEN resolve_jump_ex(r)
  ELSE IF Resolves(r) /\ r.kind = "branch" THEN resolve_branch_ex(r)
  ELSE 0

\* The tables after the instruction in the execute stage is resolved.
Train(r) ==
  /\ btb' = IF Resolves(r) /\ config.btb_entries > 0 /\ (IsJump(r) \/ (r.kind = "branch" /\ r.branched))
            THEN [btb EXCEPT ![BtbIndex(r.pc)] = [valid |-> TRUE, pc |-> r.pc, target |-> r.target]] ELSE btb
  /\ IF Resolves(r) /\ r.kind = "branch"
     THEN /\ bht' = [bht EXCEPT ![BhtIndex(r.pc)] = trained(@, r.branched)]
          /\ gshare_history' = IF config.bp_type = "gshare"
                               THEN (2 * gshare_history + (IF r.branched THEN 1 ELSE 0)) % (2 ^ config.global_history_bits)
                               ELSE gshare_history
     ELSE UNCHANGED <<bht, gshare_history>>

\* btb_.at: the table has the size it was built with, the index the size configured since.
Throws(r) == Resolves(r) /\ config.btb_entries > 0 /\ BtbIndex(r.pc) >= BtbBuilt

-----------------------------------------------------------------------------
(* One tick *)

record_cycle_snapshot ==
  cycle_history' = Recent(Append(cycle_history, [cycle |-> stats'.cycles, id |-> [s \in Stages |-> stage'[s].id]]), HistoryMax)

\* The register that an instruction entering the execute stage writes: ready after its latency. Only
\* two stages are compared, so what a multiplication needs beyond its third cycle is never waited for.
Latency(r) ==
  IF r.kind = "load"     THEN 2
  ELSE IF r.kind = "mul" THEN IF config.mul_latency < 3 THEN config.mul_latency ELSE 3
  ELSE IF r.kind = "div" THEN config.div_latency
  ELSE 1

Enters(r) == r.valid /\ r.id # stage.e.id

Avail(r) ==
  avail' = IF Enters(r) /\ writes_reg(r) THEN [avail EXCEPT ![r.rd] = stats'.cycles + Latency(r)] ELSE avail

\* Mutant: a bubble is not counted down.
MutBubble ==
  /\ stall' = [stall EXCEPT !.div = DivBusy(stage.d, @)]
  /\ stats' = [stats EXCEPT !.control = @ + 1, !.bubbles = @ + 1, !.stalls = @ + 1, !.cycles = @ + 1]
  /\ stage' = [w |-> stage.m, m |-> stage.e, e |-> init_execution_latency(stage.d), d |-> stage.f, f |-> NoInst]
  /\ UNCHANGED tables
  /\ Avail(stage.d)

\* A bubble: every stage moves, whatever the counters say, and the counters stand still.
BubbleTick ==
  /\ stall' = [stall EXCEPT !.control = @ - 1, !.div = DivBusy(stage.d, @)]
  /\ stats' = [stats EXCEPT !.control = @ + 1, !.bubbles = @ + 1, !.stalls = @ + 1, !.cycles = @ + 1]
  /\ stage' = [w |-> stage.m, m |-> stage.e, e |-> init_execution_latency(stage.d), d |-> stage.f, f |-> NoInst]
  /\ UNCHANGED tables
  /\ Avail(stage.d)

\* Mutant: every stage that stalls is charged.
MutStallCause ==
  (IF check_stall_mem THEN {"dcache"} ELSE {}) \cup (IF check_stall_ex THEN {"structural"} ELSE {})
    \cup (IF check_stall_id THEN {"data"} ELSE {}) \cup (IF check_stall_if THEN {"icache"} ELSE {})

\* The cause a stalled cycle is charged to: the oldest stage that stalls.
StallCause ==
  IF check_stall_mem     THEN {"dcache"}
  ELSE IF check_stall_ex THEN {"structural"}
  ELSE IF check_stall_id THEN {"data"}
  ELSE IF check_stall_if THEN IF stage.f.tlb_miss THEN {"tlb"} ELSE {"icache"}
  ELSE {}

update_stall_stats ==
  stats' = [c \in DOMAIN stats |->
              IF c \in {"cycles"} \cup StallCause \/ (c = "stalls" /\ StallCause # {}) THEN stats[c] + 1 ELSE stats[c]]

decrement_latencies(r) == [r EXCEPT !.latency = IF r.valid THEN Less1(@) ELSE @]

stage_register_transfers(e, m) ==
  LET MEM_stalled == check_stall_mem
      EX_stalled  == MEM_stalled \/ check_stall_ex
      ID_stalled  == EX_stalled \/ check_stall_id
      IF_stalled  == ID_stalled \/ check_stall_if
      issued      == IF ID_stalled THEN NoInst ELSE stage.d
      counted     == [c \in DOMAIN stall |-> Less1(stall[c])]
  IN  /\ stage' = [w |-> IF MEM_stalled THEN NoInst ELSE m,
                   m |-> IF MEM_stalled THEN m ELSE IF EX_stalled THEN NoInst ELSE e,
                   e |-> IF EX_stalled THEN e ELSE init_execution_latency(issued),
                   d |-> IF ID_stalled THEN stage.d ELSE IF IF_stalled THEN NoInst ELSE stage.f,
                   f |-> IF IF_stalled THEN stage.f ELSE NoInst]
      /\ stall' = [counted EXCEPT !.dcache = IF ~EX_stalled /\ e.valid /\ e.dcache_miss THEN config.dcache_miss_penalty ELSE @,
                                  !.div = IF EX_stalled THEN @ ELSE DivBusy(issued, @)]
      /\ Avail(IF EX_stalled THEN NoInst ELSE issued)

\* The instructions behind a control transfer that was not predicted are dropped, and the rest of
\* the pipeline does not move in this cycle.
resolve_branches_ex(e, m, w, bubbles) ==
  /\ stage' = [f |-> NoInst, d |-> NoInst, e |-> e, m |-> m, w |-> w]
  /\ stall' = [[c \in DOMAIN stall |-> Less1(stall[c])] EXCEPT !.control = bubbles]
  /\ UNCHANGED avail

StageTick ==
  LET e == [decrement_latencies(stage.e) EXCEPT !.resolved = stage.e.valid]
      m == decrement_latencies(stage.m)
      w == decrement_latencies(stage.w)
      bubbles == ControlBubbles(stage.e)
  IN  /\ update_stall_stats
      /\ Train(stage.e)
      /\ \/ bubbles > 0 /\ resolve_branches_ex(e, m, w, bubbles)
         \/ bubbles = 0 /\ stage_register_transfers(e, m)

tick_pipeline ==
  /\ \/ stall.control > 0 /\ BubbleTick
     \/ stall.control = 0 /\ StageTick
  /\ record_cycle_snapshot
  /\ returned' = returned + 1 /\ UNCHANGED fed

-----------------------------------------------------------------------------
(* step_instruction *)

IF_stalled == check_stall_mem \/ check_stall_ex \/ check_stall_id \/ check_stall_if

Room == ~IF_stalled /\ stall.control = 0 /\ ~stage.f.valid

\* Cpu::run_cycle: rollback saves the pipeline first, then the committed instruction is handed over.
save_state ==
  LET state == [stage |-> stage, stall |-> stall, stats |-> stats, bht |-> bht, btb |-> btb, gshare_history |-> gshare_history,
                cycle_history |-> cycle_history, avail |-> avail, returned |-> returned, fed |-> fed]
  IN  saved' = Recent(Append(saved, state), SavedMax)

hand_over(ins, rollback) ==
  /\ call = "idle" /\ ~thrown /\ next_inst_id < InstMax
  /\ call' = "wait" /\ feeding' = ins
  /\ IF rollback THEN save_state ELSE UNCHANGED saved
  /\ waited' = 0
  /\ UNCHANGED <<saveable, next_inst_id, config, thrown>>

\* The tick of a call; the exception that btb_.at may throw ends the process.
Tick ==
  IF stall.control = 0 /\ Throws(stage.e)
  THEN thrown' = TRUE /\ UNCHANGED <<saveable, waited>>
  ELSE tick_pipeline /\ waited' = waited + 1 /\ UNCHANGED thrown

\* The loop: tick until the fetch stage is free.
WaitTick ==
  /\ call = "wait" /\ ~thrown /\ ~Room
  /\ Tick
  /\ UNCHANGED <<next_inst_id, config, call, feeding, saved>>

\* Fill the fetch stage.
FillFetch ==
  /\ call = "wait" /\ ~thrown /\ Room
  /\ stage' = [stage EXCEPT !.f =
                 [valid |-> TRUE, id |-> next_inst_id + 1, pc |-> feeding.pc, kind |-> feeding.kind,
                  rd |-> feeding.rd, rs1 |-> feeding.rs1, rs2 |-> feeding.rs2, tlb_miss |-> feeding.tlb_miss,
                  icache_miss |-> feeding.icache_miss, dcache_miss |-> feeding.dcache_miss,
                  branched |-> feeding.branched, target |-> feeding.target, latency |-> 0, resolved |-> FALSE]]
  /\ stall' = [stall EXCEPT !.tlb = IF feeding.tlb_miss THEN config.tlb_miss_penalty ELSE @,
                            !.icache = IF feeding.icache_miss THEN config.icache_miss_penalty ELSE @]
  /\ next_inst_id' = next_inst_id + 1 /\ fed' = fed + 1
  /\ call' = "last"
  /\ UNCHANGED <<stats, tables, cycle_history, avail, returned, config, feeding, thrown, saved, waited>>

LastTick ==
  /\ call = "last" /\ ~thrown
  /\ Tick
  /\ call' = "idle" /\ feeding' = NoInst
  /\ UNCHANGED <<next_inst_id, config, saved>>

step_instruction == WaitTick \/ FillFetch \/ LastTick

-----------------------------------------------------------------------------
(* Between two instructions *)

\* SystemConfigModal::submit: the model reads its configuration by reference and is not rebuilt.
\* A predictor of another kind starts from the counters that the last one left.
apply_config(cfg) ==
  /\ call = "idle" /\ ~thrown /\ cfg # config
  /\ config' = cfg
  /\ UNCHANGED <<saveable, next_inst_id, call, feeding, thrown, saved, waited>>

\* perform_backstep: everything but the number of the next instruction.
restore_state ==
  /\ call = "idle" /\ ~thrown /\ saved # << >>
  /\ LET state == Last(saved) IN
     /\ stage' = state.stage /\ stall' = state.stall /\ stats' = state.stats
     /\ bht' = state.bht /\ btb' = state.btb /\ gshare_history' = state.gshare_history
     /\ cycle_history' = state.cycle_history
     /\ avail' = state.avail /\ returned' = state.returned /\ fed' = state.fed
  /\ saved' = Front(saved)
  /\ UNCHANGED <<next_inst_id, config, call, feeding, thrown, waited>>

PipeInit ==
  /\ stage = [s \in Stages |-> NoInst] /\ stall = NoStall /\ stats = NoStats
  /\ bht = [i \in 0 .. BhtSize - 1 |-> 1] /\ btb = [i \in 0 .. BtbBuilt - 1 |-> NoEntry] /\ gshare_history = 0
  /\ cycle_history = << >> /\ next_inst_id = 0 /\ config \in Configs
  /\ call = "idle" /\ feeding = NoInst /\ thrown = FALSE /\ saved = << >>
  /\ avail = [r \in Registers |-> 0] /\ returned = 0 /\ fed = 0 /\ waited = 0

\* The program has ended, or the process has.
PipeEnd == (thrown \/ (call = "idle" /\ next_inst_id = InstMax)) /\ UNCHANGED pipeVars

PipeNext ==
  \/ \E ins \in Insts, rollback \in BOOLEAN : hand_over(ins, rollback)
  \/ step_instruction
  \/ \E cfg \in Configs : apply_config(cfg)
  \/ restore_state
  \/ PipeEnd

PipeSpec == PipeInit /\ [][PipeNext]_pipeVars

-----------------------------------------------------------------------------
(* Properties *)

\* An instruction enters the execute stage no earlier than the latency of the last writer of each of
\* its sources allows ("Cycles until value is ready for forwarding", three of them at most for a
\* multiplication) and, where a forwarding path is off, not before the writer is past that path's
\* stage: stalls, bubbles, flushes and a restored pipeline never let an instruction read a result
\* that is not there.
OperandsReady ==
  [][stage'.e.valid /\ stage'.e.id # stage.e.id /\ call # "idle"
       => LET sources == {stage'.e.rs1, stage'.e.rs2} \ {0} IN
          /\ \A r \in sources : avail[r] <= stats'.cycles
          /\ \A p \in {<<"e", stage'.m>>, <<"m", stage'.w>>} :
               p[2].valid /\ writes_reg(p[2]) /\ p[2].rd \in sources => Forwarded(p[1])]_pipeVars

\* Cycles are neither lost nor invented: what step_instruction returned to mcycle is what the
\* statistics counted, every stalled cycle has one cause, a cycle that is not stalled moves one
\* instruction out of the fetch stage, and the history has no gap.
Accounted ==
  /\ stats.cycles = returned
  /\ stats.stalls = stats.icache + stats.dcache + stats.tlb + stats.structural + stats.data + stats.control
  /\ stats.cycles + (IF stage.f.valid THEN 1 ELSE 0) <= fed + stats.stalls
  /\ \A i \in DOMAIN cycle_history : cycle_history[i].cycle = stats.cycles - Len(cycle_history) + i

\* Whatever is configured between the instructions, the table has an entry for every branch.
NeverThrows == ~thrown

\* The longest wait that four instructions in flight can account for: one translation and one fetch
\* that miss and, for each of the four, one miss, one division, one misprediction and its way through
\* the stages, at the largest penalties that were ever configured (a division of latency 0 counts its
\* wrapped counter down).
Longest(f) == Max({c[f] : c \in Configs})
LongestDiv == Max({DivTicks(c) : c \in Configs})
LongestWait == Longest("tlb_miss_penalty") + Longest("icache_miss_penalty")
                 + 4 * (Longest("dcache_miss_penalty") + LongestDiv + Longest("branch_mispredict_penalty") + 5)

\* Every call of step_instruction returns: no stall waits for another, none is started again, and no
\* counter of an instruction that was flushed, or that was saved under another configuration, holds
\* up the next.
StepReturns == waited <= LongestWait
=============================================================================
