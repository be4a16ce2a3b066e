------------------------------ MODULE GdbStub ------------------------------
(* The GDB remote stub and the main loop around it. The debugger and the      *)
(* stub talk over a socket; the simulation thread looks at it after every     *)
(* instruction (poll), and stays with it after a breakpoint or a single step  *)
(* (notify_breakpoint) until it is told to go on.                             *)
(*                                                                            *)
(* The debugger is external: it sends one command at a time while it takes    *)
(* the target for stopped, sends ^C only while it takes it for running, and   *)
(* repeats a packet that was refused.                                         *)
EXTENDS Naturals, Sequences, FiniteSets

CONSTANTS
  Code,         \* the addresses of instructions in RAM: 0 .. n-1, run in a circle
  Vector,       \* the address of the trap handler, in Code
  Words,        \* values of a word in memory
  RegMod,       \* values of a word: a register holds two of them on RV64 (2^32)
  Commands,     \* the packets the debugger may send
  CmdMax        \* bound: packets sent

VARIABLES
  dmem, sw_breakpoints, gpc, xreg,
  hit_ebreak,   \* the instruction just executed was an EBREAK
  connected, single_step, no_ack_mode,
  loop,          \* the simulation thread: "exec", "check" (after an instruction), "halted", "over"
  inbox, outbox,
  client,       \* what the debugger is doing: "stopped", "waiting" for a reply, "running", "gone"
  asked,        \* the command it waits for
  sent,         \* packets sent
  \* history variables
  program,      \* what memory holds as the debugger sees it: without the EBREAKs of the stub
  unreported    \* instructions since the last stop reply or request for a single step: 0, 1 or more (2)

targetVars == <<dmem, sw_breakpoints, gpc, xreg, single_step, no_ack_mode, program>>
clientVars == <<client, asked, sent>>
gdbVars    == <<targetVars, hit_ebreak, unreported, connected, loop, inbox, outbox, clientVars>>

Ebreak == "ebreak"
Ops == {"none", "stop", "?", "^C", "g", "p", "pbad", "m", "H", "q", "other", "QStartNoAckMode", "G", "Px", "Ppc", "Pf",
        "M", "Z", "z", "Z1", "z1", "c", "s", "D", "k"}
Packets == [op : Ops, addr : Nat, reg : Nat, val : Words, good : BOOLEAN]

\* "none" and "stop" are no packets, and ^C is a byte that the debugger sends in Interrupt.
ASSUME GdbAssumption ==
  /\ {"i", "none", Ebreak} \subseteq Words /\ Commands \subseteq Packets
  /\ \A p \in Commands : p.op \notin {"none", "stop", "^C"}

NoPacket == [op |-> "none", addr |-> 0, reg |-> 0, val |-> "none", good |-> TRUE]

-----------------------------------------------------------------------------
(* The packets: each handler is the change it makes and the reply it sends *)

Reply(to, r) == [to |-> to, is |-> r]

\* The handlers that change nothing but send a reply.
reply_only(p) ==
  IF p.op \in {"?", "^C"} THEN "S05"
  ELSE IF p.op \in {"g", "p", "m"} THEN "data"
  ELSE IF p.op = "pbad" THEN "E01"        \* p with the number of no register
  ELSE IF p.op \in {"H", "q"} THEN "OK" ELSE ""

Silent(p) ==
  /\ p.op \in {"?", "^C", "g", "p", "pbad", "m", "H", "q", "other"}
  /\ outbox' = Append(outbox, Reply(p.op, reply_only(p)))
  /\ UNCHANGED targetVars

QStartNoAckMode(p) ==
  /\ p.op = "QStartNoAckMode"
  /\ no_ack_mode' = TRUE
  /\ outbox' = Append(outbox, Reply(p.op, "OK"))
  /\ UNCHANGED <<dmem, sw_breakpoints, gpc, xreg, single_step, program>>

\* Registers travel as eight hex digits: one word of a register.
hex_to_reg(v) == v % RegMod

\* G writes the integer registers and the pc, P one register: a floating-point register is not
\* written, and the reply is OK all the same.
write_gdb_reg(p) ==
  /\ xreg' = IF p.op \in {"G", "Px"} THEN hex_to_reg(p.reg) ELSE xreg
  /\ gpc' = IF p.op \in {"G", "Ppc"} THEN p.addr ELSE gpc

cmd_write_register(p) ==
  /\ p.op \in {"G", "Px", "Ppc", "Pf"}
  /\ write_gdb_reg(p)
  /\ outbox' = Append(outbox, Reply(p.op, "OK"))
  /\ UNCHANGED <<dmem, sw_breakpoints, single_step, no_ack_mode, program>>

\* Bytes outside RAM are dropped without an error.
cmd_write_memory(p) ==
  /\ p.op = "M"
  /\ dmem' = IF p.addr \in Code THEN [dmem EXCEPT ![p.addr] = p.val] ELSE dmem
  /\ program' = IF p.addr \in Code THEN [program EXCEPT ![p.addr] = p.val] ELSE program
  /\ outbox' = Append(outbox, Reply("M", "OK"))
  /\ UNCHANGED <<sw_breakpoints, gpc, xreg, single_step, no_ack_mode>>

\* Mutant: the word is saved after it has been replaced.
MutInsert(p) ==
  /\ p.op = "Z" /\ p.addr \in Code
  /\ sw_breakpoints' = [a \in DOMAIN sw_breakpoints \cup {p.addr} |-> Ebreak]
  /\ dmem' = [dmem EXCEPT ![p.addr] = Ebreak]
  /\ outbox' = Append(outbox, Reply("Z", "OK"))
  /\ UNCHANGED <<gpc, xreg, single_step, no_ack_mode, program>>

cmd_insert_breakpoint(p) ==
  /\ p.op = "Z"
  /\ IF p.addr \notin Code
     THEN outbox' = Append(outbox, Reply("Z", "E02")) /\ UNCHANGED <<dmem, sw_breakpoints>>
     ELSE /\ sw_breakpoints' = [a \in DOMAIN sw_breakpoints \cup {p.addr} |->
                                  IF a = p.addr THEN dmem[a] ELSE sw_breakpoints[a]]
          /\ dmem' = [dmem EXCEPT ![p.addr] = Ebreak]
          /\ outbox' = Append(outbox, Reply("Z", "OK"))
  /\ UNCHANGED <<gpc, xreg, single_step, no_ack_mode, program>>

cmd_remove_breakpoint(p) ==
  /\ p.op = "z"
  /\ IF p.addr \notin DOMAIN sw_breakpoints
     THEN outbox' = Append(outbox, Reply("z", "E03")) /\ UNCHANGED <<dmem, sw_breakpoints>>
     ELSE /\ dmem' = [dmem EXCEPT ![p.addr] = sw_breakpoints[p.addr]]
          /\ sw_breakpoints' = [a \in DOMAIN sw_breakpoints \ {p.addr} |-> sw_breakpoints[a]]
          /\ outbox' = Append(outbox, Reply("z", "OK"))
  /\ UNCHANGED <<gpc, xreg, single_step, no_ack_mode, program>>

\* Hardware breakpoints and watchpoints are not supported: an empty reply.
Unsupported(p) ==
  /\ p.op \in {"Z1", "z1"}
  /\ outbox' = Append(outbox, Reply(p.op, ""))
  /\ UNCHANGED targetVars

Resume(p) ==
  /\ p.op \in {"c", "s"}
  /\ single_step' = (p.op = "s")
  /\ UNCHANGED <<dmem, sw_breakpoints, gpc, xreg, no_ack_mode, program, outbox>>

close_connection == connected' = FALSE /\ single_step' = FALSE /\ no_ack_mode' = FALSE

\* Detach and kill close the connection; the EBREAKs in memory stay.
Leave(p) ==
  /\ p.op \in {"D", "k"}
  /\ outbox' = IF p.op = "D" THEN Append(outbox, Reply("D", "OK")) ELSE outbox
  /\ close_connection
  /\ UNCHANGED <<dmem, sw_breakpoints, gpc, xreg, program>>

handle_packet(p) ==
  \/ /\ \/ Silent(p) \/ QStartNoAckMode(p) \/ cmd_write_register(p) \/ cmd_write_memory(p)
        \/ cmd_insert_breakpoint(p) \/ cmd_remove_breakpoint(p) \/ Unsupported(p) \/ Resume(p)
     /\ UNCHANGED connected
  \/ Leave(p)

\* A request for a single step, read in poll or in the command loop, starts the count again.
Counted(p) == unreported' = IF p.good /\ p.op = "s" THEN 0 ELSE unreported

resumes(p) == p.op \in {"c", "s", "D", "k"}

\* Mutant: a damaged packet is dropped without a word.
MutRefuse(p) == ~p.good /\ UNCHANGED <<targetVars, connected, outbox>>

\* recv_packet with a checksum that does not match: refused with a '-', unless acks are off.
Refuse(p) ==
  /\ ~p.good
  /\ outbox' = IF no_ack_mode THEN outbox ELSE Append(outbox, Reply(p.op, "-"))
  /\ UNCHANGED <<targetVars, connected>>

-----------------------------------------------------------------------------
(* The main loop *)

Following(a) == (a + 1) % Cardinality(Code)

\* One instruction, fetched from memory: the copies in the instruction and decode caches,
\* behind which the stub writes, are DataPath's and Translation's. EBREAK traps to the handler
\* before the loop sees it.
execute_cycle ==
  /\ loop = "exec"
  /\ hit_ebreak' = (dmem[gpc] = Ebreak)
  /\ gpc' = IF dmem[gpc] = Ebreak THEN Vector ELSE Following(gpc)
  /\ loop' = "check"
  /\ unreported' = IF unreported < 2 THEN unreported + 1 ELSE 2
  /\ UNCHANGED <<dmem, sw_breakpoints, xreg, single_step, no_ack_mode, program, connected, inbox, outbox, clientVars>>

\* The connection is lost: read returns 0 in the middle of a packet.
Lost == client = "gone" /\ inbox = << >>

\* At most one packet, whose answer to "go on?" is ignored.
PollOnce ==
  /\ \/ /\ ~connected \/ (inbox = << >> /\ ~Lost)
        /\ UNCHANGED <<targetVars, connected, inbox, outbox, unreported>>
        /\ loop' = "exec"
     \/ /\ connected /\ Lost /\ close_connection
        /\ loop' = "exec"
        /\ UNCHANGED <<dmem, sw_breakpoints, gpc, xreg, program, inbox, outbox, unreported>>
     \/ /\ connected /\ inbox # << >>
        /\ inbox' = Tail(inbox)
        /\ IF Head(inbox).good THEN handle_packet(Head(inbox)) ELSE Refuse(Head(inbox))
        /\ Counted(Head(inbox))
        /\ loop' = IF Head(inbox).good /\ Head(inbox).op = "k" THEN "over" ELSE "exec"
  /\ UNCHANGED <<clientVars, hit_ebreak>>

\* Mutant: the loop polls after every instruction that is no EBREAK.
MutPoll == loop = "check" /\ ~(connected /\ hit_ebreak) /\ PollOnce

poll == loop = "check" /\ ~(connected /\ (single_step \/ hit_ebreak)) /\ PollOnce

\* notify_breakpoint: a stop reply, then the command loop.
notify_breakpoint ==
  /\ loop = "check" /\ connected /\ (single_step \/ hit_ebreak)
  /\ outbox' = Append(outbox, Reply("stop", "S05"))
  /\ loop' = "halted" /\ unreported' = 0
  /\ UNCHANGED <<targetVars, connected, inbox, clientVars, hit_ebreak>>

\* A packet that is refused leaves the loop like one that says "go on".
CommandLoop ==
  /\ loop = "halted"
  /\ \/ /\ inbox # << >>
        /\ inbox' = Tail(inbox)
        /\ IF Head(inbox).good THEN handle_packet(Head(inbox)) ELSE Refuse(Head(inbox))
        /\ Counted(Head(inbox))
        /\ loop' = IF ~Head(inbox).good \/ resumes(Head(inbox))
                  THEN (IF Head(inbox).good /\ Head(inbox).op = "k" THEN "over" ELSE "exec") ELSE "halted"
     \/ /\ Lost /\ close_connection
        /\ loop' = "exec"
        /\ UNCHANGED <<dmem, sw_breakpoints, gpc, xreg, program, inbox, outbox, unreported>>
  /\ UNCHANGED <<clientVars, hit_ebreak>>

MainLoop == execute_cycle \/ poll \/ notify_breakpoint \/ CommandLoop

-----------------------------------------------------------------------------
(* The debugger *)

\* It neither inserts a breakpoint twice, nor writes over one, nor leaves with one in memory; it turns the
\* acknowledgements off only on a connection that does not damage packets.
Sensible(p) ==
  /\ p.op \in {"Z", "M"} => p.addr \notin DOMAIN sw_breakpoints
  /\ p.op = "D" => DOMAIN sw_breakpoints = {}
  /\ no_ack_mode => p.good

Send(p) ==
  /\ client = "stopped" /\ sent < CmdMax /\ Sensible(p)
  /\ inbox' = Append(inbox, p)
  /\ sent' = sent + 1 /\ asked' = p
  /\ client' = IF p.op \in {"c", "s"} THEN "running" ELSE IF p.op = "k" THEN "gone" ELSE "waiting"
  /\ UNCHANGED <<targetVars, connected, loop, outbox, hit_ebreak, unreported>>

Interrupt ==
  /\ client = "running" /\ sent < CmdMax
  /\ inbox' = Append(inbox, [NoPacket EXCEPT !.op = "^C"])
  /\ sent' = sent + 1
  /\ UNCHANGED <<targetVars, connected, loop, outbox, client, asked, hit_ebreak, unreported>>

\* Until its packet is acknowledged the debugger drops what else arrives, and a '-' makes it send the
\* packet again; then a stop reply ends "running" and the reply to its command ends "waiting".
Acts(r) == client = "running" \/ (client = "waiting" /\ r.to = asked.op)

Receive ==
  /\ outbox # << >> /\ client # "gone"
  /\ outbox' = Tail(outbox)
  /\ LET r == Head(outbox) IN
     \/ /\ r.is = "-"
        /\ inbox' = Append(inbox, [asked EXCEPT !.good = TRUE]) /\ asked' = [asked EXCEPT !.good = TRUE]
        /\ UNCHANGED client
     \/ /\ r.is # "-" /\ asked.good /\ Acts(r)
        /\ client' = IF asked.op = "D" THEN "gone" ELSE "stopped"
        /\ UNCHANGED <<inbox, asked>>
     \/ /\ r.is # "-" /\ ~(asked.good /\ Acts(r))
        /\ UNCHANGED <<client, inbox, asked>>
  /\ UNCHANGED <<targetVars, connected, loop, sent, hit_ebreak, unreported>>

\* The debugger dies: the socket closes behind what was already sent.
Vanish ==
  /\ client # "gone" /\ client' = "gone"
  /\ UNCHANGED <<targetVars, connected, loop, inbox, outbox, asked, sent, hit_ebreak, unreported>>

Debugger == (\E p \in Commands : Send(p)) \/ Interrupt \/ Receive \/ Vanish

\* After accept the machine runs, while the debugger takes it for stopped.
GdbInit ==
  /\ dmem = [a \in Code |-> "i"] /\ program = dmem /\ sw_breakpoints = [a \in {} |-> Ebreak]
  /\ gpc = 0 /\ xreg = 0 /\ hit_ebreak = FALSE /\ unreported = 0
  /\ connected = TRUE /\ single_step = FALSE /\ no_ack_mode = FALSE
  /\ loop = "exec" /\ inbox = << >> /\ outbox = << >>
  /\ client = "stopped" /\ asked = NoPacket /\ sent = 0

\* A kill ends the loop; the debugger is gone.
GdbEnd == loop = "over" /\ UNCHANGED gdbVars

GdbNext == MainLoop \/ Debugger \/ GdbEnd

GdbSpec == GdbInit /\ [][GdbNext]_gdbVars

-----------------------------------------------------------------------------
(* Properties *)

\* Breakpoints are invisible: memory is the program with an EBREAK exactly where one is inserted,
\* and the words they replaced are kept, whichever of poll and the command loop handles the packet.
BreakpointsTransparent ==
  \A a \in Code : IF a \in DOMAIN sw_breakpoints
                  THEN dmem[a] = Ebreak /\ sw_breakpoints[a] = program[a]
                  ELSE dmem[a] = program[a]

\* No command is lost or answered twice: while the debugger waits for a reply, the command is on its
\* way, or its reply is, unless the connection is gone.
Answered ==
  client = "waiting" /\ connected =>
    Cardinality({i \in DOMAIN inbox : inbox[i].op = asked.op})
      + Cardinality({i \in DOMAIN outbox : outbox[i].to = asked.op}) = 1

\* A single step and an EBREAK stop the machine: with a debugger connected, no second instruction
\* runs before the stop reply, whatever packets poll handles around it and whether or not the
\* debugger was told to go on by a packet that was refused.
StepStops ==
  connected => /\ single_step => unreported <= 1
               /\ hit_ebreak /\ loop = "exec" => unreported = 0
=============================================================================
