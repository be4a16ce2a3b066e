---------------------------- MODULE RunControl ----------------------------
(***************************************************************************)
(* Run control in TUI mode: the two host threads of Main.cpp.  The "ui"    *)
(* thread draws frames and handles keys until is_running_ is cleared, then *)
(* joins the "sim" thread, which executes guest cycles in Machine::run     *)
(* until it is stopped.  They share only atomics, so every store of        *)
(* is_running_, execution_state_, is_shutdown_, reboot_requested and       *)
(* Tui::paused_ is a step of its own.  Atomic operations are interleaved   *)
(* sequentially: reorderings of the relaxed accesses are not modelled.     *)
(*                                                                         *)
(* code[t] is the straight-line work thread t still has to do: stores,     *)
(* calls of set_paused, guest cycles and keys to read.  Both threads run   *)
(* all of it: a Step key executes a guest cycle on the ui thread, and the  *)
(* sim thread reads keys from its fast batch and from a breakpoint trap.   *)
(***************************************************************************)
EXTENDS Naturals, Sequences

CONSTANTS
    UserKeys,       \* the user's inputs: keys, clicks on the badge and the footer
    Outcomes,   \* what a guest cycle may do to the run state
    Batch,      \* BaremetalMachine's fast batches, whose end reads the keyboard
    KeyMax,     \* bytes one call of Tui::update finds on stdin
    RunUndoMax,    \* capacity of the undo_depth stack; 0 when rollback is off
    CodeMax     \* bound on nested work: a Step key inside a breakpoint trap

AllKeys == {"pause", "run", "reboot", "quit", "q", "step", "back",
            "modal", "click_pause", "click_reboot", "click_quit"}

AllOutcomes == {"retire", "poweroff", "reset", "exit",
                "ebreak", "trap", "novector"}

ASSUME RunAssumption ==
    /\ UserKeys \subseteq AllKeys /\ Outcomes \subseteq AllOutcomes /\ "retire" \in Outcomes
    /\ Batch \in BOOLEAN /\ KeyMax \in Nat /\ RunUndoMax \in Nat /\ CodeMax \in Nat

VARIABLES
    paused,     \* Tui::paused_
    es,         \* Machine::execution_state_
    running,    \* Machine::is_running_
    shutdown,   \* Machine::is_shutdown_
    reboot,     \* Machine::reboot_requested
    undo_depth,       \* depth of CPU::undo_stack
    simAt,        \* where the sim thread is in Machine::run
    ui,         \* where the ui thread is in main
    code        \* the work each thread has begun

shared == <<paused, es, running, shutdown, reboot>>
rcVars == <<paused, es, running, shutdown, reboot, undo_depth, simAt, ui, code>>

Threads == {"ui", "sim"}

Store(v, x) == [do |-> v, arg |-> x]
SetPaused(p) == [do |-> "set_paused", arg |-> p]
TestPaused(p) == [do |-> "test_paused", arg |-> p]
Cycle == [do |-> "cycle", arg |-> 0]
CycleEnd == [do |-> "end", arg |-> 0]
Update(n) == [do |-> "update", arg |-> n]

OneCycle == <<Cycle, CycleEnd>>

\* A thread is inside run_cycle, its device accesses and finalize_cycle.
InCycle(t) == \E i \in 1..Len(code[t]) : code[t][i] = CycleEnd

-----------------------------------------------------------------------------
(* Machine's run-state requests, as the stores they make in order.         *)

stop == <<Store("shutdown", TRUE), Store("es", "Stopped"), SetPaused(TRUE)>>
request_reboot == <<Store("reboot", TRUE), Store("running", FALSE), Store("es", "Stopped")>>
request_exit == <<Store("shutdown", TRUE), Store("running", FALSE), Store("es", "Stopped")>>

\* The power device's commands: poweroff and crash, reboot, and SimRV's exit.
PowerRequest(o) ==
    CASE o = "poweroff" -> stop
      [] o = "reset"    -> request_reboot
      [] o = "exit"     -> request_exit

\* TrapController::raiseException: a breakpoint reads the keyboard and pauses; a
\* trap whose vector is 0 pauses first and stops the machine then.
TrapRequest(o) ==
    CASE o = "trap"     -> {<<Update(n), SetPaused(TRUE)>> : n \in 0..KeyMax}
      [] o = "novector" -> {<<SetPaused(TRUE)>> \o stop}

\* What one guest cycle may do to the run state besides retiring.
OutcomeCode(o) ==
    CASE o = "retire" -> {<<>>}
      [] o = "ebreak" -> {<<SetPaused(TRUE)>>}     \* pause_loop: ebreak, breakpoint, watchpoint
      [] o \in {"poweroff", "reset", "exit"} -> {PowerRequest(o)}
      [] o \in {"trap", "novector"} -> TrapRequest(o)

-----------------------------------------------------------------------------
(* One byte (or click) in Tui::update: when it is taken, what it does, and  *)
(* whether update returns at once and leaves the rest of stdin unread.      *)

Routed(k) ==
    CASE k \in {"run", "step", "q"}      -> paused
      [] k = "back"                      -> paused /\ undo_depth > 0
      [] k \in {"pause", "click_pause"}  -> ~paused
      [] k = "click_reboot"              -> paused \/ shutdown
      [] OTHER                           -> TRUE

Returns(k) == k \in {"pause", "reboot", "quit"}

\* UserKeys of the paused screen, which do not end update: q (or Ctrl-C) asks for the exit
\* as Ctrl-Q does.  A Step executes the cycle on the calling thread.
NavigationCode(k) ==
    CASE k = "run"  -> {IF shutdown THEN <<>> ELSE <<SetPaused(FALSE)>>}
      [] k = "q"    -> {request_exit}
      [] k = "step" -> IF shutdown THEN {request_reboot \o <<SetPaused(FALSE)>>, <<>>}
                                   ELSE {OneCycle}

\* Clicks on the footer and the status badge; update goes on to the next byte.
ClickCode(k) ==
    CASE k = "click_pause"  -> <<SetPaused(TRUE)>>
      [] k = "click_reboot" -> request_reboot
      [] k = "click_quit"   -> request_exit

\* Opening a modal pauses twice over; a submitted Load or Misa modal reboots,
\* which is a click_reboot here.
OpenModal == <<SetPaused(TRUE), SetPaused(TRUE)>>

\* perform_backstep revives a machine that was shut down.
Backstep == <<Store("shutdown", FALSE), Store("running", TRUE)>>

KeyCode(k) ==
    CASE k \in {"run", "step", "q"} -> NavigationCode(k)
      [] k \in {"click_pause", "click_reboot", "click_quit"} -> {ClickCode(k)}
      [] k = "pause"  -> {<<SetPaused(TRUE)>>}
      [] k = "reboot" -> {request_reboot}
      [] k = "quit"   -> {request_exit}
      [] k = "modal"  -> {OpenModal}
      [] k = "back"   -> {Backstep}

-----------------------------------------------------------------------------
\* The rest of thread t's work once its first operation has become ops.
Then(t, ops) == code' = [code EXCEPT ![t] = ops \o Tail(@)]

\* One atomic store.
DoStore(t, op) ==
    /\ op.do \in {"es", "running", "shutdown", "reboot", "paused"}
    /\ es' = IF op.do = "es" THEN op.arg ELSE es
    /\ running' = IF op.do = "running" THEN op.arg ELSE running
    /\ shutdown' = IF op.do = "shutdown" THEN op.arg ELSE shutdown
    /\ reboot' = IF op.do = "reboot" THEN op.arg ELSE reboot
    /\ paused' = IF op.do = "paused" THEN op.arg ELSE paused
    /\ Then(t, <<>>)
    /\ UNCHANGED undo_depth

\* Tui::set_paused reads is_shutdown_ and the program counter (which may be 0) before a resume,
\* then paused_, and makes its two stores last.
DoSetPaused(t, op) ==
    /\ op.do = "set_paused"
    /\ \/ Then(t, IF ~op.arg /\ shutdown THEN <<>> ELSE <<TestPaused(op.arg)>>)
       \/ ~op.arg /\ Then(t, <<>>)
    /\ UNCHANGED <<shared, undo_depth>>

\* Mutant: a resume forgets to wake the sim thread.
MutDoTestPaused(t, op) ==
    /\ op.do = "test_paused"
    /\ Then(t, IF paused = op.arg
               THEN <<>>
               ELSE <<Store("paused", op.arg)>>
                    \o IF op.arg THEN <<Store("es", "Paused")>> ELSE <<>>)
    /\ UNCHANGED <<shared, undo_depth>>

DoTestPaused(t, op) ==
    /\ op.do = "test_paused"
    /\ Then(t, IF paused = op.arg
               THEN <<>>
               ELSE <<Store("paused", op.arg),
                      Store("es", IF op.arg THEN "Paused" ELSE "Running")>>)
    /\ UNCHANGED <<shared, undo_depth>>

\* push_undo_state, then the guest instruction.
DoCycle(t, op) ==
    /\ op.do = "cycle"
    /\ undo_depth' = IF undo_depth < RunUndoMax THEN undo_depth + 1 ELSE RunUndoMax
    /\ \E o \in Outcomes : \E ops \in OutcomeCode(o) :
          /\ o = "trap" => Len(code[t]) < CodeMax
          /\ Then(t, ops)
    /\ UNCHANGED shared

DoEnd(t, op) ==
    /\ op.do = "end"
    /\ Then(t, <<>>)
    /\ UNCHANGED <<shared, undo_depth>>

\* Tui::update with op.arg bytes left: one of them is handled.
DoUpdate(t, op) ==
    /\ op.do = "update"
    /\ \/ op.arg = 0 /\ Then(t, <<>>) /\ UNCHANGED undo_depth
       \/ /\ op.arg > 0
          /\ \E k \in UserKeys : \E ops \in KeyCode(k) :
                /\ Routed(k)
                /\ Then(t, ops \o IF Returns(k) THEN <<>> ELSE <<Update(op.arg - 1)>>)
                /\ undo_depth' = IF k = "back" THEN undo_depth - 1 ELSE undo_depth
       \/ /\ op.arg > 0         \* a byte for the guest, for navigation or for a modal
          /\ Then(t, <<Update(op.arg - 1)>>) /\ UNCHANGED undo_depth
    /\ UNCHANGED shared

Work(t) ==
    /\ code[t] # <<>>
    /\ LET op == Head(code[t]) IN
          \/ DoStore(t, op) \/ DoSetPaused(t, op) \/ DoTestPaused(t, op)
          \/ DoCycle(t, op) \/ DoEnd(t, op) \/ DoUpdate(t, op)
    /\ UNCHANGED <<simAt, ui>>

-----------------------------------------------------------------------------
(* Machine::run on the sim thread.  Its condition is two loads.            *)

\* Mutant: a loop that was told to end waits for execution_state_ to say so too.
MutSimTestRunning ==
    /\ simAt = "running?" /\ code["sim"] = <<>>
    /\ simAt' = IF running THEN "stopped?" ELSE IF es = "Stopped" THEN "done" ELSE "running?"
    /\ UNCHANGED <<shared, undo_depth, ui, code>>

SimTestRunning ==
    /\ simAt = "running?" /\ code["sim"] = <<>>
    /\ simAt' = IF running THEN "stopped?" ELSE "done"
    /\ UNCHANGED <<shared, undo_depth, ui, code>>

SimTestStopped ==
    /\ simAt = "stopped?"
    /\ simAt' = IF es = "Stopped" THEN "done" ELSE "paused?"
    /\ UNCHANGED <<shared, undo_depth, ui, code>>

\* What the sim thread does between two tests: a cycle, or a fast batch, the end
\* of the run if the -e limit is reached, and (once per 33 ms) the keyboard.
SimBurst ==
    {OneCycle} \cup
    (IF Batch THEN {OneCycle \o <<Update(n)>> : n \in 0..KeyMax}
                   \cup {OneCycle \o <<Store("running", FALSE), Update(n)>> : n \in 0..KeyMax}
              ELSE {})

\* Mutant: the loop takes execution_state_ for the pause flag.
MutSimTestPaused ==
    /\ simAt = "paused?"
    /\ IF es = "Paused" THEN simAt' = "wait" /\ UNCHANGED code
                        ELSE /\ simAt' = "running?"
                             /\ \E ops \in SimBurst : code' = [code EXCEPT !["sim"] = ops]
    /\ UNCHANGED <<shared, undo_depth, ui>>

SimTestPaused ==
    /\ simAt = "paused?"
    /\ IF paused THEN simAt' = "wait" /\ UNCHANGED code
                 ELSE /\ simAt' = "running?"
                      /\ \E ops \in SimBurst : code' = [code EXCEPT !["sim"] = ops]
    /\ UNCHANGED <<shared, undo_depth, ui>>

\* execution_state_.wait(Paused) returns only if it sees another value.
SimWake ==
    /\ simAt = "wait" /\ es # "Paused"
    /\ simAt' = "running?"
    /\ UNCHANGED <<shared, undo_depth, ui, code>>

SimLoop == SimTestRunning \/ SimTestStopped \/ SimTestPaused \/ SimWake

-----------------------------------------------------------------------------
(* main on the ui thread: frames while is_running_, then join, then either *)
(* a fresh Machine (reboot) or the end of the process.                     *)

UiFrame ==
    /\ ui = "loop" /\ code["ui"] = <<>>
    /\ IF running
       THEN /\ \E n \in 0..KeyMax : code' = [code EXCEPT !["ui"] = <<Update(n)>>]
            /\ UNCHANGED ui
       ELSE ui' = "join" /\ UNCHANGED code
    /\ UNCHANGED <<shared, undo_depth, simAt>>

\* A new Machine and Tui: paused_ starts TRUE and execution_state_ Running.
Fresh ==
    /\ paused' = TRUE /\ es' = "Running" /\ running' = TRUE /\ shutdown' = FALSE
    /\ reboot' = FALSE /\ undo_depth' = 0 /\ simAt' = "running?"
    /\ code' = [t \in Threads |-> <<>>]

UiJoin ==
    /\ ui = "join" /\ simAt = "done"
    /\ IF reboot THEN Fresh /\ ui' = "loop"
                 ELSE ui' = "exited" /\ UNCHANGED <<shared, undo_depth, simAt, code>>

Exited == ui = "exited" /\ UNCHANGED rcVars

UiLoop == UiFrame \/ UiJoin

-----------------------------------------------------------------------------
RunInit ==
    /\ paused = TRUE /\ es = "Running" /\ running = TRUE /\ shutdown = FALSE
    /\ reboot = FALSE /\ undo_depth = 0 /\ simAt = "running?" /\ ui = "loop"
    /\ code = [t \in Threads |-> <<>>]

SimThread == SimLoop \/ Work("sim")
UiThread == UiLoop \/ Work("ui")

RunNext == SimThread \/ UiThread \/ Exited

RunSpec == RunInit /\ [][RunNext]_rcVars

\* The host schedules both threads; nothing is assumed about the user.
RunLive == RunSpec /\ WF_rcVars(SimThread) /\ WF_rcVars(UiThread)

-----------------------------------------------------------------------------
(* Properties.                                                             *)

RunTypeOK ==
    /\ paused \in BOOLEAN /\ running \in BOOLEAN /\ shutdown \in BOOLEAN /\ reboot \in BOOLEAN
    /\ es \in {"Stopped", "Running", "Paused"}
    /\ undo_depth \in 0..RunUndoMax
    /\ simAt \in {"running?", "stopped?", "paused?", "wait", "done"}
    /\ ui \in {"loop", "join", "exited"}

\* A session that stays paused stops executing guest cycles on the sim thread,
\* however the pause raced the loop of Machine::run.
PauseHonoured == <>[]paused => <>[]~InCycle("sim")

\* Once the ui thread has left its frame loop, the sim thread ends and is joined:
\* a reboot or a quit always completes.
Teardown == ui = "join" ~> ui # "join"

\* A machine that was told to run, and is not shut down, executes guest cycles
\* unless it is paused or ended first.
RunResumes ==
    (~paused /\ running /\ ~shutdown) ~> (InCycle("sim") \/ paused \/ ~running \/ shutdown)

\* The processor, the PLIC and the devices are used by one thread at a time.
CpuOwned == ~(InCycle("sim") /\ InCycle("ui"))
=============================================================================
