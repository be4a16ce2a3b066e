---------------------------- MODULE Breakpoints ----------------------------
(* The breakpoints and watchpoints of the terminal interface: the manager,   *)
(* the modal that edits it, and the checks around every instruction.          *)
(*                                                                            *)
(* pause_loop only asks for a pause: the instruction at a breakpoint is       *)
(* executed before the loop sees the request.                                 *)
EXTENDS Naturals, Sequences, FiniteSets, SequencesExt, FiniteSetsExt

CONSTANTS
  CodeAddrs,    \* addresses of instructions
  DataAddrs,    \* addresses of words in memory
  Regs,         \* watchable registers: integer, floating-point, vector
  PcReg,        \* the pc as a watchable register
  Vals,         \* values of a register
  WatchMax      \* bound: breakpoints and watchpoints set at a time

ASSUME WatchAssumption == PcReg \notin Regs

VARIABLES
  pc_breakpoints, watchpoints,
  active,           \* active_: is there anything to check?
  skip_once,        \* skip_once_pc_: a set of at most one address
  bpc, bregs,
  before,             \* what a step back returns to: at most one pc with its registers
  held,
  bp_cursor,
  baremetal,        \* run_cycle_baremetal is the loop's cycle
  \* history variables
  passed            \* breakpoints executed without a pause since they last paused the machine

managerVars == <<pc_breakpoints, watchpoints, active, bp_cursor>>
cpuVars     == <<bpc, bregs, before, skip_once, held>>
bpVars      == <<managerVars, cpuVars, passed, baremetal>>

MemWatch(a) == [target |-> "mem", at |-> a]
RegWatch(r) == [target |-> "reg", at |-> r]

-----------------------------------------------------------------------------
(* The manager *)

\* Mutant: only breakpoints count.
MutUpdateActive == active' = (pc_breakpoints' # {})

update_active == active' = (pc_breakpoints' # {} \/ watchpoints' # << >>)

add_pc_breakpoint(a)    == pc_breakpoints' = pc_breakpoints \cup {a} /\ UNCHANGED watchpoints /\ update_active
remove_pc_breakpoint(a) == pc_breakpoints' = pc_breakpoints \ {a} /\ UNCHANGED watchpoints /\ update_active

\* An old watchpoint on the same word or register makes room for the new one, at the end of the list.
Without(w)        == SelectSeq(watchpoints, LAMBDA x : x # w)
add_watchpoint(w) == watchpoints' = Append(Without(w), w) /\ UNCHANGED pc_breakpoints /\ update_active

\* remove_watchpoint: by address, and only a memory watchpoint.
remove_watchpoint(a) == watchpoints' = Without(MemWatch(a)) /\ UNCHANGED pc_breakpoints /\ update_active

check_pc == bpc \in pc_breakpoints \ skip_once

\* The value of a watched register; check_reg_changes compares two states of the machine.
ValueOf(r, pc, regs) == IF r = PcReg THEN pc ELSE regs[r]

check_reg_changes(pc, regs) ==
  \E i \in DOMAIN watchpoints :
    /\ watchpoints[i].target = "reg"
    /\ ValueOf(watchpoints[i].at, pc, regs) # ValueOf(watchpoints[i].at, bpc, bregs)

-----------------------------------------------------------------------------
(* One instruction: where it goes and the register it writes *)

\* Mutant: the address to skip stays.
MutCycle(pc, regs, bare) ==
  LET hit     == active /\ check_pc
      changed == active /\ check_reg_changes(pc, regs)
  IN  /\ bpc' = pc /\ bregs' = regs
      /\ before' = {[pc |-> bpc, regs |-> bregs]}
      /\ skip_once' = IF hit /\ ~bare THEN {bpc} ELSE skip_once
      /\ held' = (held \/ hit \/ changed)
      /\ passed' = IF bpc \notin pc_breakpoints \/ hit \/ changed THEN passed \ {bpc} ELSE passed \cup {bpc}
      /\ UNCHANGED <<managerVars, baremetal>>

\* run_cycle and, where bare, run_cycle_baremetal. No path calls check_mem_write or check_mem_read: a memory
\* watchpoint is listed, keeps the checks on, and never pauses.
CheckedCycle(pc, regs, bare) ==
  LET hit     == active /\ check_pc
      changed == active /\ check_reg_changes(pc, regs)
  IN  /\ bpc' = pc /\ bregs' = regs
      /\ before' = {[pc |-> bpc, regs |-> bregs]}
      /\ skip_once' = IF ~active THEN skip_once ELSE IF hit /\ ~bare THEN {bpc} ELSE {}
      /\ held' = (held \/ hit \/ changed)
      /\ passed' = IF bpc \notin pc_breakpoints \/ hit \/ changed THEN passed \ {bpc} ELSE passed \cup {bpc}
      /\ UNCHANGED <<managerVars, baremetal>>

\* The loop executes an instruction with the session's own cycle. The Step key of a paused session
\* executes one with run_cycle, in a bare-metal session too.
execute(pc, r, v) ==
  \E bare \in {baremetal, baremetal /\ ~held} :
    CheckedCycle(pc, IF r = PcReg THEN bregs ELSE [bregs EXCEPT ![r] = v], bare)

step_back ==
  /\ held /\ \E u \in before : bpc' = u.pc /\ bregs' = u.regs
  /\ before' = {}
  /\ UNCHANGED <<managerVars, baremetal, passed, skip_once, held>>

set_paused(p) ==
  /\ held # p /\ held' = p
  /\ UNCHANGED <<managerVars, baremetal, passed, bpc, bregs, before, skip_once>>

-----------------------------------------------------------------------------
(* The keys and the modal *)

total == Cardinality(pc_breakpoints) + Len(watchpoints)

Edit == held /\ UNCHANGED <<bpc, bregs, before, skip_once, held, baremetal>>

submit_bp(a) ==
  /\ total < WatchMax /\ Edit
  /\ add_pc_breakpoint(a) /\ bp_cursor' = 0 /\ UNCHANGED passed

submit_watch(w) ==
  /\ total < WatchMax /\ Edit
  /\ add_watchpoint(w) /\ bp_cursor' = 0 /\ UNCHANGED passed

toggle_pc_breakpoint ==
  /\ Edit /\ bp_cursor' = 0
  /\ \/ bpc \in pc_breakpoints /\ remove_pc_breakpoint(bpc) /\ passed' = passed \ {bpc}
     \/ bpc \notin pc_breakpoints /\ total < WatchMax /\ add_pc_breakpoint(bpc) /\ UNCHANGED passed

clear_all ==
  /\ Edit /\ total > 0
  /\ pc_breakpoints' = {} /\ watchpoints' = << >> /\ update_active
  /\ passed' = {} /\ bp_cursor' = 0

\* TuiModal::open puts the cursor on the first entry: whatever is edited outside the list, the modal
\* is opened again before the cursor is used.
open_manage == Edit /\ bp_cursor # 0 /\ bp_cursor' = 0 /\ UNCHANGED <<pc_breakpoints, watchpoints, active, passed>>

move_cursor(delta) ==
  /\ Edit /\ total > 0
  /\ bp_cursor' = (bp_cursor + delta + total) % total
  /\ UNCHANGED <<pc_breakpoints, watchpoints, active, passed>>

\* Breakpoints come first, in ascending order; then the watchpoints, of which the modal passes the
\* index where remove_watchpoint expects an address.
Ascending == SetToSortSeq(pc_breakpoints, <)

remove_at_cursor ==
  /\ Edit /\ total > 0 /\ bp_cursor < total
  /\ IF bp_cursor < Cardinality(pc_breakpoints)
     THEN LET a == Ascending[bp_cursor + 1] IN remove_pc_breakpoint(a) /\ passed' = passed \ {a}
     ELSE remove_watchpoint(bp_cursor - Cardinality(pc_breakpoints)) /\ UNCHANGED passed
  /\ LET left == Cardinality(pc_breakpoints') + Len(watchpoints')
     IN  bp_cursor' = IF left = 0 THEN 0 ELSE IF bp_cursor >= left THEN left - 1 ELSE bp_cursor

BpInit ==
  /\ pc_breakpoints = {} /\ watchpoints = << >> /\ active = FALSE /\ skip_once = {} /\ bp_cursor = 0
  /\ bpc = Min(CodeAddrs) /\ bregs = [r \in Regs |-> Min(Vals)] /\ before = {} /\ held = TRUE
  /\ baremetal \in BOOLEAN /\ passed = {}

BpExecute == \E pc \in CodeAddrs, r \in Regs \cup {PcReg}, v \in Vals : execute(pc, r, v)
BpUser ==
  \/ \E p \in BOOLEAN : set_paused(p)
  \/ step_back
  \/ \E a \in CodeAddrs : submit_bp(a)
  \/ \E w \in {MemWatch(a) : a \in DataAddrs} \cup {RegWatch(r) : r \in Regs \cup {PcReg}} : submit_watch(w)
  \/ toggle_pc_breakpoint \/ clear_all \/ open_manage
  \/ \E delta \in {-1, 1} : move_cursor(delta)
  \/ remove_at_cursor

BpNext == BpExecute \/ BpUser
BpSpec == BpInit /\ [][BpNext]_bpVars

-----------------------------------------------------------------------------
(* Properties *)

\* A breakpoint is not passed twice in a row without a pause: the one execution that skip_once_pc_
\* lets through, however stale the address in it is, is followed by one that pauses.
NeverPassedTwice == [][(bpc \in passed /\ BpExecute) => held']_bpVars

\* A register watchpoint pauses in the very cycle in which its register changes, whether the list
\* was edited, cleared or stepped back over before: active_ never says there is nothing to check.
RegWatchPauses ==
  [][BpExecute => \A i \in DOMAIN watchpoints : \A r \in Regs :
       watchpoints[i] = RegWatch(r) /\ bregs'[r] # bregs[r] => held']_bpVars
=============================================================================
