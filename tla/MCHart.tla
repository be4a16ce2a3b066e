------------------------------- MODULE MCHart -------------------------------
(* The hart's caches of translations and what watches the hart, one part at   *)
(* work in each behaviour: address translation, the timing model on three      *)
(* programs, the breakpoints of the terminal interface and the GDB stub.       *)
EXTENDS MCTranslation, MCPipeline, Breakpoints, GdbStub

VARIABLE focus

-----------------------------------------------------------------------------
(* Instances *)

Packet(op, a) == [NoPacket EXCEPT !.op = op, !.addr = a, !.reg = 3, !.val = "j"]

\* Every kind of packet, three of them damaged on the way; address 9 is outside RAM.
SomeCommands ==
  {Packet(op, 0) : op \in {"?", "g", "pbad", "q", "QStartNoAckMode", "Z1", "c", "s", "D", "k", "other", "Pf", "Px"}}
    \cup {Packet(op, a) : op \in {"Z", "z", "M"}, a \in {0, 1, 9}}
    \cup {Packet("G", 1), Packet("Ppc", 2)}
    \cup {[Packet(op, 0) EXCEPT !.good = FALSE] : op \in {"Z", "c", "?"}}

-----------------------------------------------------------------------------
(* One part at a time *)

mcVars == <<focus, trVars, pipeVars, bpVars, gdbVars>>

OnPages(A)    == focus = "translation" /\ A /\ UNCHANGED <<focus, pipeVars, bpVars, gdbVars>>
OnPipe(A)     == focus \in DOMAIN InstsOf /\ A /\ UNCHANGED <<focus, trVars, bpVars, gdbVars>>
OnBreak(A)    == focus = "breakpoints" /\ A /\ UNCHANGED <<focus, trVars, pipeVars, gdbVars>>
OnDebugger(A) == focus = "gdb" /\ A /\ UNCHANGED <<focus, trVars, pipeVars, bpVars>>

\* The parts that are not at work are in one initial state.
HartInit ==
  /\ TrInit /\ PipeInit /\ BpInit /\ GdbInit
  /\ focus \in {"translation", "breakpoints", "gdb"} \cup DOMAIN InstsOf
  /\ config \in IF focus \in DOMAIN InstsOf THEN ConfigsOf[focus] ELSE {Standard}
  /\ focus # "breakpoints" => baremetal

\* The pipeline is saved for reverse execution in the program that branches, and its configuration
\* changes after the third instruction.
HartNext ==
  \/ OnPages(TrNext)
  \/ \E ins \in Insts : OnPipe(ins \in InstsOf[focus] /\ next_inst_id < LengthOf[focus] /\ hand_over(ins, focus = "control"))
  \/ OnPipe(step_instruction)
  \/ \E cfg \in Configs : OnPipe(cfg \in ConfigsOf[focus] /\ next_inst_id = 3 /\ apply_config(cfg))
  \/ OnPipe(restore_state)
  \/ OnPipe(call = "idle" /\ next_inst_id = LengthOf[focus] /\ UNCHANGED pipeVars)
  \/ OnBreak(BpNext)
  \/ OnDebugger(GdbNext)

HartSpec == HartInit /\ [][HartNext]_mcVars
=============================================================================
