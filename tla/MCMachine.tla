----------------------------- MODULE MCMachine -----------------------------
(* What surrounds the hart, one part at work in each behaviour: the caches    *)
(* with reverse execution, the bus, the UART, the virtio devices and the two   *)
(* host threads. They share nothing but the interrupt lines, which              *)
(* MCInterrupts covers.                                                         *)
EXTENDS MCDataPath, Router, Uart, Virtqueue, RunControl

VARIABLE focus

-----------------------------------------------------------------------------
(* Instances *)

\* A framebuffer of thirteen bytes with the input device in its hole, a neighbour close behind
\* it, a device that overlaps both and one that does not fit.
SomeBase == [fb |-> 4, input |-> 7, rtc |-> 18, bad |-> 15, edge |-> 23]
SomeSize == [fb |-> 13, input |-> 5, rtc |-> 2, bad |-> 4, edge |-> 4]
SomeHole == [fb |-> 7 .. 11, input |-> {}, rtc |-> {}, bad |-> {}, edge |-> {}]

Request1(t, s, b, f) == [type |-> t, sector |-> s, buf |-> b, footer |-> f, status |-> "none"]

\* A read, a write, a write beyond the end, an identification without a status byte,
\* an unknown type, a flush; two characters for the console.
SomeRequests ==
  { Request1("In", 0, "b0", TRUE), Request1("Out", 0, "b1", TRUE), Request1("Out", 1, "b1", TRUE),
    Request1("GetId", 0, "b0", FALSE), Request1("Other", 0, "b0", TRUE), Request1("Flush", 0, "b0", TRUE),
    Request1("Write", 0, "b0", TRUE), Request1("Write", 0, "b1", TRUE) }

\* Type invariant: the bounded FIFO, the indices in guest memory within their 16 bits, the flags
\* of the run loop and the bounded undo stack.
MachineTypes == UartTypeOK /\ VqTypeOK /\ RunTypeOK

-----------------------------------------------------------------------------
(* One part at a time *)

mcVars == <<focus, pathVars, routerVars, uartVars, vqVars, rcVars>>

OnPath(A)    == focus \in DOMAIN ProgramOf /\ A /\ UNCHANGED <<focus, routerVars, uartVars, vqVars, rcVars>>
OnBus(A)     == focus = "router" /\ A /\ UNCHANGED <<focus, pathVars, uartVars, vqVars, rcVars>>
OnUart(A)    == focus = "uart" /\ A /\ UNCHANGED <<focus, pathVars, routerVars, vqVars, rcVars>>
OnVirtio(A)  == focus = "virtio" /\ A /\ UNCHANGED <<focus, pathVars, routerVars, uartVars, rcVars>>
OnThreads(A) == focus = "run" /\ A /\ UNCHANGED <<focus, pathVars, routerVars, uartVars, vqVars>>

\* The parts that are not at work are in one initial state.
McInit ==
  /\ PathInit /\ RouterInit /\ UartInit /\ VqInit /\ RunInit
  /\ focus \in DOMAIN ProgramOf \cup {"router", "uart", "virtio", "run"}
  /\ focus \notin DOMAIN ProgramOf => hp = FALSE
  /\ focus # "uart" => session = "cli"
  /\ focus # "virtio" => /\ kind = "disk" /\ medium = CHOOSE d \in Media("disk") : TRUE
                         /\ avail_ring[0] = (CHOOSE h \in Heads : TRUE) /\ \A h \in Heads : chain[h].type = "In"

McNext ==
  \/ \E ins \in Program :
       OnPath(ins \in ProgramOf[focus] /\ dcache.tick < Ticks[focus] /\ icache.tick < Ticks[focus]
              /\ (run_cycle(ins) \/ run_cycle_baremetal(ins)))
  \/ OnPath(flush_caches)
  \/ OnPath(focus = "fetch" /\ write_satp)
  \/ \E w \in Behind : OnPath(memory_write(w[1], w[2]))
  \/ \E fast \in BOOLEAN, tracking \in BOOLEAN : OnPath(tracking = (focus = "undo") /\ submit(fast, tracking))
  \/ OnPath(perform_backstep)
  \/ OnBus(RouterNext)
  \/ OnUart(UartNext)
  \/ OnVirtio(VqNext)
  \/ OnThreads(RunNext)

\* The simulation thread keeps going: it comes to poll where it polls, and leaves process_queue and
\* a register access that it has begun. The host schedules both threads; nothing is assumed about
\* the user.
McSpec ==
  /\ McInit /\ [][McNext]_mcVars
  /\ WF_mcVars(OnUart(UartThread)) /\ WF_mcVars(OnVirtio(process_queue))
  /\ WF_mcVars(OnThreads(SimThread)) /\ WF_mcVars(OnThreads(UiThread))
=============================================================================
