----------------------------- MODULE DebugProofs ---------------------------
(* What the GDB stub and the breakpoint manager do to the program they debug, *)
(* for every program, every set of packets and every number of them.          *)
(*                                                                            *)
(* That breakpoints are transparent rests on the traffic: a command that      *)
(* edits memory is somewhere between the debugger and its reply once at most, *)
(* and the address it names has no breakpoint until it is executed. Damaged   *)
(* packets and refusals are followed too, since a refused command is sent     *)
(* again, and every command has one answer on its way.                        *)
(*                                                                            *)
(* The breakpoints of the terminal interface: none is passed twice and no     *)
(* change of a watched register is missed.                                    *)
EXTENDS GdbStub, Breakpoints, SequenceTheorems, FiniteSetTheorems, TLAPS

Edits == {"Z", "M"}
Answers == {"S05", "data", "E01", "OK", "", "E02", "E03", "-"}
Replies == [to : Ops, is : Answers]

GdbTypes ==
  /\ inbox \in Seq(Packets) /\ outbox \in Seq(Replies) /\ asked \in Packets
  /\ dmem \in [Code -> Words] /\ program \in [Code -> Words]
  /\ sw_breakpoints \in [DOMAIN sw_breakpoints -> Words] /\ DOMAIN sw_breakpoints \subseteq Code

\* An edit on its way is what the debugger waits for, and its address is free; so is a damaged packet.
Underway ==
  \A i \in DOMAIN inbox :
    /\ inbox[i].op \in Edits => /\ client \notin {"stopped", "running"}
                                /\ inbox[i].op = asked.op /\ inbox[i].addr = asked.addr
                                /\ asked.addr \notin DOMAIN sw_breakpoints
    /\ ~inbox[i].good => client # "stopped" /\ ~asked.good /\ inbox[i].op = asked.op

\* The reply to an edit is what the debugger waits for; a refusal is of the packet it sent last.
Replied ==
  \A k \in DOMAIN outbox :
    /\ outbox[k].to \in Edits => client \notin {"stopped", "running"} /\ outbox[k].to = asked.op
    /\ outbox[k].is = "-" => /\ client # "stopped" /\ ~asked.good /\ outbox[k].to = asked.op
                             /\ asked.op \in Edits => asked.addr \notin DOMAIN sw_breakpoints

\* There is one edit at most, or its reply, and one damaged packet at most, or its refusal.
Once ==
  /\ \A i, j \in DOMAIN inbox :
       (inbox[i].op \in Edits /\ inbox[j].op \in Edits) \/ (~inbox[i].good /\ ~inbox[j].good) => i = j
  /\ \A k, l \in DOMAIN outbox :
       (outbox[k].to \in Edits /\ outbox[l].to \in Edits) \/ (outbox[k].is = "-" /\ outbox[l].is = "-") => k = l
  /\ \A i \in DOMAIN inbox, k \in DOMAIN outbox :
       ~(inbox[i].op \in Edits /\ outbox[k].to \in Edits) /\ ~(~inbox[i].good /\ outbox[k].is = "-")

Traffic == Underway /\ Replied /\ Once
GdbInv  == GdbTypes /\ BreakpointsTransparent /\ Traffic

\* Where the count of instructions stands at each place of the main loop: what a step request or an EBREAK
\* has started is not yet counted when the next instruction is due, and one instruction later at the latest
\* the loop stops.
StepInv ==
  /\ unreported \in 0..2 /\ loop \in {"exec", "check", "halted", "over"}
  /\ loop = "halted" => unreported = 0
  /\ loop = "over" => ~connected
  /\ connected => /\ loop = "exec" /\ (single_step \/ hit_ebreak) => unreported = 0
                  /\ loop = "check" /\ single_step => unreported <= 1

-----------------------------------------------------------------------------
(* Queues *)

LEMMA TakeFirst ==
  ASSUME NEW S, NEW s \in Seq(S), s # << >>
  PROVE  /\ Head(s) \in S /\ Head(s) = s[1] /\ 1 \in DOMAIN s /\ Tail(s) \in Seq(S)
         /\ \A i \in DOMAIN Tail(s) : i \in Nat /\ i + 1 \in DOMAIN s /\ Tail(s)[i] = s[i + 1] /\ i + 1 # 1
BY HeadTailProperties, LenProperties

LEMMA PutLast ==
  ASSUME NEW S, NEW s \in Seq(S), NEW e \in S
  PROVE  /\ Append(s, e) \in Seq(S)
         /\ \A i \in DOMAIN Append(s, e) : \/ i \in DOMAIN s /\ Append(s, e)[i] = s[i]
                                           \/ i = Len(s) + 1 /\ Append(s, e)[i] = e
         /\ Len(s) + 1 \notin DOMAIN s
BY AppendProperties, LenProperties

\* What is in a queue is still there when the first element is taken or one is added.
LEMMA KeepRest ==
  ASSUME NEW S, NEW s \in Seq(S), NEW e \in S
  PROVE  /\ \A i \in DOMAIN s : i \in DOMAIN Append(s, e) /\ Append(s, e)[i] = s[i]
         /\ Len(s) + 1 \in DOMAIN Append(s, e) /\ Append(s, e)[Len(s) + 1] = e
         /\ s # << >> => \A i \in DOMAIN s : i # 1 => i - 1 \in DOMAIN Tail(s) /\ Tail(s)[i - 1] = s[i]
<1>1. \A i \in DOMAIN s : i \in DOMAIN Append(s, e) /\ Append(s, e)[i] = s[i]
  BY AppendProperties, LenProperties
<1>2. Len(s) + 1 \in DOMAIN Append(s, e) /\ Append(s, e)[Len(s) + 1] = e
  BY AppendProperties, LenProperties
<1>3. ASSUME s # << >>, NEW i \in DOMAIN s, i # 1
      PROVE  i - 1 \in DOMAIN Tail(s) /\ Tail(s)[i - 1] = s[i]
  BY <1>3, HeadTailProperties, LenProperties
<1> QED BY <1>1, <1>2, <1>3

-----------------------------------------------------------------------------
(* The stub *)

\* The handlers of a good packet answer it once at most, and never with a refusal.
LEMMA HandlerReply ==
  ASSUME NEW p, handle_packet(p)
  PROVE  \E is \in Answers : is # "-" /\ outbox' \in {outbox, Append(outbox, Reply(p.op, is))}
<1>1. /\ {"OK", "", "E02", "E03"} \subseteq Answers \ {"-"}
      /\ reply_only(p) \in Answers \ {"-"}
  BY DEF reply_only, Answers
<1>2. CASE Silent(p) \/ Unsupported(p) \/ QStartNoAckMode(p) \/ cmd_write_register(p) \/ cmd_write_memory(p)
  BY <1>1, <1>2 DEF Silent, Unsupported, QStartNoAckMode, cmd_write_register, cmd_write_memory
<1>3. CASE Resume(p) \/ Leave(p)
  BY <1>1, <1>3 DEF Resume, Leave
<1>4. CASE cmd_insert_breakpoint(p) \/ cmd_remove_breakpoint(p)
  BY <1>1, <1>4 DEF cmd_insert_breakpoint, cmd_remove_breakpoint
<1> QED BY <1>2, <1>3, <1>4 DEF handle_packet

\* What they do to memory, when an edit does not name an address that has a breakpoint.
LEMMA HandlerMemory ==
  ASSUME NEW p \in Packets, handle_packet(p), GdbTypes, BreakpointsTransparent,
         p.op \in Edits => p.addr \notin DOMAIN sw_breakpoints
  PROVE  /\ BreakpointsTransparent'
         /\ dmem' \in [Code -> Words] /\ program' \in [Code -> Words]
         /\ sw_breakpoints' \in [DOMAIN sw_breakpoints' -> Words] /\ DOMAIN sw_breakpoints' \subseteq Code
         /\ p.op # "Z" => DOMAIN sw_breakpoints' \subseteq DOMAIN sw_breakpoints
<1>1. CASE UNCHANGED <<dmem, sw_breakpoints, program>>
  BY <1>1 DEF GdbTypes, BreakpointsTransparent
<1>2. CASE cmd_write_memory(p) /\ p.addr \in Code
  <2>1. p.val \in Words /\ p.addr \notin DOMAIN sw_breakpoints
    BY <1>2 DEF cmd_write_memory, Edits, Packets
  <2>2. /\ dmem' = [dmem EXCEPT ![p.addr] = p.val] /\ program' = [program EXCEPT ![p.addr] = p.val]
        /\ sw_breakpoints' = sw_breakpoints
    BY <1>2 DEF cmd_write_memory
  <2> QED BY <1>2, <2>1, <2>2 DEF GdbTypes, BreakpointsTransparent
<1>3. CASE cmd_insert_breakpoint(p) /\ p.addr \in Code
  <2>1. p.op = "Z" /\ p.addr \notin DOMAIN sw_breakpoints
    BY <1>3 DEF cmd_insert_breakpoint, Edits
  <2>2. /\ sw_breakpoints' = [a \in DOMAIN sw_breakpoints \cup {p.addr} |-> IF a = p.addr THEN dmem[a] ELSE sw_breakpoints[a]]
        /\ dmem' = [dmem EXCEPT ![p.addr] = Ebreak] /\ program' = program
    BY <1>3 DEF cmd_insert_breakpoint
  <2>3. /\ DOMAIN sw_breakpoints' = DOMAIN sw_breakpoints \cup {p.addr}
        /\ \A a \in DOMAIN sw_breakpoints' : sw_breakpoints'[a] \in Words
    BY <1>3, <2>2 DEF GdbTypes
  <2>4. dmem' \in [Code -> Words]
    BY <2>2, GdbAssumption DEF GdbTypes
  <2>5. BreakpointsTransparent'
    BY <1>3, <2>1, <2>2 DEF GdbTypes, BreakpointsTransparent
  <2>6. sw_breakpoints' \in [DOMAIN sw_breakpoints' -> Words]
    BY <2>2, <2>3
  <2> QED BY <1>3, <2>1, <2>2, <2>3, <2>4, <2>5, <2>6 DEF GdbTypes
<1>4. CASE cmd_remove_breakpoint(p) /\ p.addr \in DOMAIN sw_breakpoints
  <2>1. /\ dmem' = [dmem EXCEPT ![p.addr] = sw_breakpoints[p.addr]] /\ program' = program
        /\ sw_breakpoints' = [a \in DOMAIN sw_breakpoints \ {p.addr} |-> sw_breakpoints[a]]
    BY <1>4 DEF cmd_remove_breakpoint
  <2>2. /\ DOMAIN sw_breakpoints' = DOMAIN sw_breakpoints \ {p.addr}
        /\ \A a \in DOMAIN sw_breakpoints' : sw_breakpoints'[a] \in Words
    BY <2>1 DEF GdbTypes
  <2>3. dmem' \in [Code -> Words]
    BY <1>4, <2>1 DEF GdbTypes
  <2>4. BreakpointsTransparent'
    BY <1>4, <2>1 DEF GdbTypes, BreakpointsTransparent
  <2>5. sw_breakpoints' \in [DOMAIN sw_breakpoints' -> Words]
    BY <2>1, <2>2
  <2> QED BY <2>1, <2>2, <2>3, <2>4, <2>5 DEF GdbTypes
<1> QED BY <1>1, <1>2, <1>3, <1>4
     DEF handle_packet, Silent, Unsupported, QStartNoAckMode, cmd_write_register, Resume, Leave, targetVars,
         cmd_write_memory, cmd_insert_breakpoint, cmd_remove_breakpoint

\* The traffic when a packet leaves the inbox and its reply, if any, enters the outbox.
LEMMA Served ==
  ASSUME GdbTypes, Traffic, inbox # << >>, inbox' = Tail(inbox), UNCHANGED <<client, asked>>,
         NEW is \in Answers, is = "-" => ~Head(inbox).good,
         outbox' \in {outbox, Append(outbox, Reply(Head(inbox).op, is))},
         \/ DOMAIN sw_breakpoints' \subseteq DOMAIN sw_breakpoints
         \/ Head(inbox).op = "Z" /\ is # "-"
  PROVE  inbox' \in Seq(Packets) /\ outbox' \in Seq(Replies) /\ Traffic'
<1> DEFINE p == Head(inbox)  r == Reply(p.op, is)
<1>1. /\ p \in Packets /\ p = inbox[1] /\ 1 \in DOMAIN inbox /\ inbox' \in Seq(Packets)
      /\ \A i \in DOMAIN inbox' : i \in Nat /\ i + 1 \in DOMAIN inbox /\ inbox'[i] = inbox[i + 1] /\ i + 1 # 1
  BY TakeFirst DEF GdbTypes
<1>2. r \in Replies /\ r.to = p.op /\ r.is = is
  BY <1>1 DEF Replies, Reply, Packets
<1>3. /\ outbox' \in Seq(Replies)
      /\ \A k \in DOMAIN outbox' : \/ k \in DOMAIN outbox /\ outbox'[k] = outbox[k]
                                   \/ k = Len(outbox) + 1 /\ k \notin DOMAIN outbox /\ outbox'[k] = r
  <2>1. CASE outbox' = outbox
    BY <2>1 DEF GdbTypes
  <2>2. CASE outbox' = Append(outbox, r)
    BY <2>2, <1>2, PutLast DEF GdbTypes
  <2> QED BY <2>1, <2>2
<1>4. \A i \in DOMAIN inbox' : inbox'[i].op \in Edits => p.op \notin Edits
  BY <1>1 DEF Traffic, Once
<1>5. \A i \in DOMAIN inbox' : ~inbox'[i].good => p.good
  BY <1>1 DEF Traffic, Once
<1>6. \A k \in DOMAIN outbox : (p.op \in Edits => outbox[k].to \notin Edits) /\ (~p.good => outbox[k].is # "-")
  BY <1>1 DEF Traffic, Once
<1>7. p.op \in Edits => /\ client \notin {"stopped", "running"} /\ p.op = asked.op /\ p.addr = asked.addr
                        /\ asked.addr \notin DOMAIN sw_breakpoints
  BY <1>1 DEF Traffic, Underway
<1>8. ~p.good => client # "stopped" /\ ~asked.good /\ p.op = asked.op
  BY <1>1 DEF Traffic, Underway
<1>9. Underway'
  BY <1>1, <1>4 DEF Traffic, Underway, Edits
<1>10. Replied'
  <2> SUFFICES ASSUME NEW k \in DOMAIN outbox'
      PROVE /\ outbox'[k].to \in Edits => client \notin {"stopped", "running"} /\ outbox'[k].to = asked.op
            /\ outbox'[k].is = "-" => /\ client # "stopped" /\ ~asked.good /\ outbox'[k].to = asked.op
                                      /\ asked.op \in Edits => asked.addr \notin DOMAIN sw_breakpoints'
    BY DEF Replied
  <2>1. CASE k \in DOMAIN outbox /\ outbox'[k] = outbox[k]
    <3>1. Head(inbox).op = "Z" /\ outbox[k].is = "-" => FALSE
      BY <2>1, <1>6, <1>7 DEF Traffic, Replied, Edits
    <3> QED BY <2>1, <3>1 DEF Traffic, Replied
  <2>2. CASE outbox'[k] = r
    BY <2>2, <1>2, <1>7, <1>8
  <2> QED BY <2>1, <2>2, <1>3
<1>11. Once'
  <2>1. \A i, j \in DOMAIN inbox' :
          (inbox'[i].op \in Edits /\ inbox'[j].op \in Edits) \/ (~inbox'[i].good /\ ~inbox'[j].good) => i = j
    BY <1>1 DEF Traffic, Once
  <2>2. \A k, l \in DOMAIN outbox' :
          (outbox'[k].to \in Edits /\ outbox'[l].to \in Edits) \/ (outbox'[k].is = "-" /\ outbox'[l].is = "-") => k = l
    BY <1>2, <1>3, <1>6 DEF Traffic, Once
  <2>3. \A i \in DOMAIN inbox', k \in DOMAIN outbox' :
          ~(inbox'[i].op \in Edits /\ outbox'[k].to \in Edits) /\ ~(~inbox'[i].good /\ outbox'[k].is = "-")
    BY <1>1, <1>2, <1>3, <1>4, <1>5 DEF Traffic, Once
  <2> QED BY <2>1, <2>2, <2>3 DEF Once
<1> QED BY <1>1, <1>3, <1>9, <1>10, <1>11 DEF Traffic

\* A packet handled or refused, in poll as in the command loop.
LEMMA Handled ==
  ASSUME GdbInv, inbox # << >>, inbox' = Tail(inbox), UNCHANGED clientVars,
         IF Head(inbox).good THEN handle_packet(Head(inbox)) ELSE Refuse(Head(inbox))
  PROVE  GdbInv'
<1> DEFINE p == Head(inbox)
<1>1. /\ GdbTypes /\ Traffic /\ BreakpointsTransparent
      /\ UNCHANGED <<client, asked>> /\ asked' \in Packets
  BY DEF GdbInv, GdbTypes, clientVars
<1>2. p \in Packets /\ p = inbox[1] /\ 1 \in DOMAIN inbox
  BY <1>1, TakeFirst DEF GdbTypes
<1>3. CASE p.good
  <2>1. handle_packet(p)
    BY <1>3
  <2>2. p.op \in Edits => p.addr \notin DOMAIN sw_breakpoints
    BY <1>1, <1>2 DEF Traffic, Underway
  <2>3. /\ BreakpointsTransparent'
        /\ dmem' \in [Code -> Words] /\ program' \in [Code -> Words]
        /\ sw_breakpoints' \in [DOMAIN sw_breakpoints' -> Words] /\ DOMAIN sw_breakpoints' \subseteq Code
        /\ p.op # "Z" => DOMAIN sw_breakpoints' \subseteq DOMAIN sw_breakpoints
    BY <1>1, <1>2, <2>1, <2>2, HandlerMemory
  <2>4. PICK is \in Answers : is # "-" /\ outbox' \in {outbox, Append(outbox, Reply(p.op, is))}
    BY <2>1, HandlerReply
  <2>5. inbox' \in Seq(Packets) /\ outbox' \in Seq(Replies) /\ Traffic'
    BY <1>1, <2>3, <2>4, Served
  <2> QED BY <1>1, <2>3, <2>5 DEF GdbInv, GdbTypes
<1>4. CASE ~p.good
  <2>1. /\ UNCHANGED <<dmem, sw_breakpoints, program>>
        /\ outbox' \in {outbox, Append(outbox, Reply(p.op, "-"))}
    BY <1>4 DEF Refuse, targetVars
  <2>2. "-" \in Answers
    BY DEF Answers
  <2>3. inbox' \in Seq(Packets) /\ outbox' \in Seq(Replies) /\ Traffic'
    BY <1>1, <1>4, <2>1, <2>2, Served
  <2>4. BreakpointsTransparent'
    BY <1>1, <2>1 DEF BreakpointsTransparent
  <2> QED BY <1>1, <2>1, <2>3, <2>4 DEF GdbInv, GdbTypes
<1> QED BY <1>3, <1>4

\* Steps that touch neither memory nor the traffic.
LEMMA Unaffected ==
  ASSUME GdbInv, UNCHANGED <<dmem, sw_breakpoints, program, inbox, outbox, client, asked>>
  PROVE  GdbInv'
BY DEF GdbInv, GdbTypes, BreakpointsTransparent, Traffic, Underway, Replied, Once

\* The main loop keeps the invariant.
LEMMA MainLoopKeeps == GdbInv /\ MainLoop => GdbInv'
<1> SUFFICES ASSUME GdbInv, MainLoop PROVE GdbInv'
  OBVIOUS
<1>1. CASE execute_cycle
  BY <1>1, Unaffected DEF execute_cycle, clientVars
<1>2. CASE poll \/ CommandLoop
  <2>1. UNCHANGED clientVars
    BY <1>2 DEF poll, PollOnce, CommandLoop
  <2>2. CASE UNCHANGED <<dmem, sw_breakpoints, program, inbox, outbox>>
    BY <2>1, <2>2, Unaffected DEF clientVars
  <2>3. CASE /\ inbox # << >> /\ inbox' = Tail(inbox)
             /\ IF Head(inbox).good THEN handle_packet(Head(inbox)) ELSE Refuse(Head(inbox))
    BY <2>1, <2>3, Handled
  <2> QED BY <1>2, <2>2, <2>3 DEF poll, PollOnce, CommandLoop, targetVars
<1>3. CASE notify_breakpoint
  <2> DEFINE r == Reply("stop", "S05")
  <2>1. /\ outbox' = Append(outbox, r)
        /\ UNCHANGED <<dmem, sw_breakpoints, program, inbox, client, asked>>
    BY <1>3 DEF notify_breakpoint, targetVars, clientVars
  <2>2. r \in Replies /\ r.to \notin Edits /\ r.is # "-"
    BY DEF Reply, Replies, Ops, Answers, Edits
  <2>3. /\ outbox' \in Seq(Replies)
        /\ \A k \in DOMAIN outbox' : \/ k \in DOMAIN outbox /\ outbox'[k] = outbox[k]
                                     \/ outbox'[k] = r
    BY <2>1, <2>2, PutLast DEF GdbInv, GdbTypes
  <2>4. GdbTypes' /\ BreakpointsTransparent'
    BY <2>1, <2>3 DEF GdbInv, GdbTypes, BreakpointsTransparent
  <2>5. Underway' /\ Replied'
    BY <2>1, <2>2, <2>3 DEF GdbInv, Traffic, Underway, Replied
  <2>6. Once'
    BY <2>1, <2>2, <2>3 DEF GdbInv, Traffic, Once
  <2> QED BY <2>4, <2>5, <2>6 DEF GdbInv, Traffic
<1> QED BY <1>1, <1>2, <1>3 DEF MainLoop

-----------------------------------------------------------------------------
(* The debugger *)

\* A debugger that takes the target for stopped has no edit, no damaged packet and no refusal on its way.
LEMMA Quiet ==
  ASSUME GdbInv, client = "stopped"
  PROVE  /\ \A i \in DOMAIN inbox : inbox[i].op \notin Edits /\ inbox[i].good
         /\ \A k \in DOMAIN outbox : outbox[k].to \notin Edits /\ outbox[k].is # "-"
BY DEF GdbInv, GdbTypes, Traffic, Underway, Replied

\* A command the debugger sends is the only one of its kind on its way.
LEMMA SendKeeps ==
  ASSUME NEW p \in Commands, GdbInv, Send(p)
  PROVE  GdbInv'
<1>1. /\ client = "stopped" /\ Sensible(p) /\ inbox' = Append(inbox, p) /\ asked' = p /\ client' # "stopped"
      /\ p.op \in Edits => client' = "waiting"
      /\ UNCHANGED <<dmem, sw_breakpoints, program, outbox>>
  BY DEF Send, targetVars, Edits
<1>2. p \in Packets
  BY GdbAssumption
<1>3. /\ \A i \in DOMAIN inbox : inbox[i].op \notin Edits /\ inbox[i].good
      /\ \A k \in DOMAIN outbox : outbox[k].to \notin Edits /\ outbox[k].is # "-"
  BY <1>1, Quiet
<1>4. /\ inbox' \in Seq(Packets)
      /\ \A i \in DOMAIN inbox' : \/ i \in DOMAIN inbox /\ inbox'[i] = inbox[i]
                                  \/ i = Len(inbox) + 1 /\ inbox'[i] = p
  BY <1>1, <1>2, PutLast DEF GdbInv, GdbTypes
<1>5. GdbTypes' /\ BreakpointsTransparent'
  BY <1>1, <1>2, <1>4 DEF GdbInv, GdbTypes, BreakpointsTransparent
<1>6. Underway'
  BY <1>1, <1>3, <1>4 DEF Underway, Sensible, Edits
<1>7. Replied'
  BY <1>1, <1>3 DEF Replied
<1>8. Once'
  BY <1>1, <1>3, <1>4 DEF Once
<1> QED BY <1>5, <1>6, <1>7, <1>8 DEF GdbInv, Traffic

\* A ^C is neither an edit nor damaged.
LEMMA InterruptKeeps == GdbInv /\ Interrupt => GdbInv'
<1> SUFFICES ASSUME GdbInv, Interrupt PROVE GdbInv'
  OBVIOUS
<1> DEFINE p == [NoPacket EXCEPT !.op = "^C"]
<1>1. inbox' = Append(inbox, p) /\ UNCHANGED <<dmem, sw_breakpoints, program, outbox, client, asked>>
  BY DEF Interrupt, targetVars
<1>2. p \in Packets /\ p.op \notin Edits /\ p.good
  BY GdbAssumption DEF NoPacket, Packets, Ops, Edits
<1>3. /\ inbox' \in Seq(Packets)
      /\ \A i \in DOMAIN inbox' : \/ i \in DOMAIN inbox /\ inbox'[i] = inbox[i]
                                  \/ inbox'[i] = p
  BY <1>1, <1>2, PutLast DEF GdbInv, GdbTypes
<1>4. GdbTypes' /\ BreakpointsTransparent'
  BY <1>1, <1>3 DEF GdbInv, GdbTypes, BreakpointsTransparent
<1>5. Underway' /\ Replied'
  BY <1>1, <1>2, <1>3 DEF GdbInv, Traffic, Underway, Replied
<1>6. Once'
  BY <1>1, <1>2, <1>3 DEF GdbInv, Traffic, Once
<1> QED BY <1>4, <1>5, <1>6 DEF GdbInv, Traffic

\* A reply is dropped, ends the wait for it, or makes the debugger send its command again.
LEMMA ReceiveKeeps == GdbInv /\ Receive => GdbInv'
<1> SUFFICES ASSUME GdbInv, Receive PROVE GdbInv'
  OBVIOUS
<1> DEFINE r == Head(outbox)
<1>1. /\ GdbTypes /\ Underway /\ Replied /\ Once
      /\ outbox # << >> /\ outbox' = Tail(outbox) /\ UNCHANGED <<dmem, sw_breakpoints, program>>
  BY DEF GdbInv, Traffic, Receive, targetVars
<1>2. /\ r = outbox[1] /\ 1 \in DOMAIN outbox /\ outbox' \in Seq(Replies)
      /\ \A k \in DOMAIN outbox' : k \in Nat /\ k + 1 \in DOMAIN outbox /\ outbox'[k] = outbox[k + 1] /\ k + 1 # 1
  BY <1>1, TakeFirst DEF GdbTypes
<1>3. BreakpointsTransparent'
  BY <1>1 DEF GdbInv, BreakpointsTransparent
<1>4. \A k \in DOMAIN outbox' : (r.to \in Edits => outbox'[k].to \notin Edits) /\ (r.is = "-" => outbox'[k].is # "-")
  BY <1>1, <1>2 DEF Once
<1>5. CASE UNCHANGED <<client, inbox, asked>>
  <2>1. GdbTypes'
    BY <1>1, <1>2, <1>5 DEF GdbTypes
  <2>2. Underway' /\ Replied'
    BY <1>1, <1>2, <1>5 DEF Underway, Replied
  <2>3. Once'
    BY <1>1, <1>2, <1>5 DEF Once
  <2> QED BY <1>3, <2>1, <2>2, <2>3 DEF GdbInv, Traffic
<1>6. CASE asked.good /\ Acts(r) /\ UNCHANGED <<inbox, asked>> /\ client' \in {"gone", "stopped"}
  <2>1. /\ \A i \in DOMAIN inbox : inbox[i].good
        /\ \A k \in DOMAIN outbox : outbox[k].is # "-"
    BY <1>1, <1>6 DEF Underway, Replied, GdbTypes, Packets
  <2>2. /\ \A i \in DOMAIN inbox : inbox[i].op \notin Edits
        /\ \A k \in DOMAIN outbox' : outbox'[k].to \notin Edits
    <3>1. CASE client = "running"
      BY <1>1, <1>2, <3>1 DEF Underway, Replied
    <3>2. CASE client = "waiting" /\ r.to = asked.op /\ asked.op \in Edits
      BY <1>1, <1>2, <1>4, <3>2 DEF Once
    <3>3. CASE asked.op \notin Edits
      BY <1>1, <1>2, <3>3 DEF Underway, Replied
    <3> QED BY <1>6, <3>1, <3>2, <3>3 DEF Acts
  <2>3. GdbTypes'
    BY <1>1, <1>2, <1>6 DEF GdbTypes
  <2>4. Traffic'
    BY <1>2, <1>6, <2>1, <2>2 DEF Traffic, Underway, Replied, Once
  <2> QED BY <1>3, <2>3, <2>4 DEF GdbInv
<1>7. CASE /\ r.is = "-" /\ UNCHANGED client
           /\ inbox' = Append(inbox, [asked EXCEPT !.good = TRUE]) /\ asked' = [asked EXCEPT !.good = TRUE]
  <2> DEFINE p == [asked EXCEPT !.good = TRUE]
  <2>1. p \in Packets /\ p.op = asked.op /\ p.addr = asked.addr /\ p.good
    BY <1>1 DEF GdbTypes, Packets
  <2>2. /\ client # "stopped" /\ r.to = asked.op
        /\ asked.op \in Edits => client # "running" /\ asked.addr \notin DOMAIN sw_breakpoints
    BY <1>1, <1>2, <1>7 DEF Replied
  <2>3. /\ inbox' \in Seq(Packets)
        /\ \A i \in DOMAIN inbox' : \/ i \in DOMAIN inbox /\ inbox'[i] = inbox[i]
                                    \/ i = Len(inbox) + 1 /\ inbox'[i] = p
    BY <1>1, <1>7, <2>1, PutLast DEF GdbTypes
  <2>4. \A i \in DOMAIN inbox : inbox[i].good /\ inbox[i].op \notin Edits
    <3>1. \A i \in DOMAIN inbox : inbox[i].good
      BY <1>1, <1>2, <1>7 DEF Once, GdbTypes, Packets
    <3>2. \A i \in DOMAIN inbox : inbox[i].op \in Edits => r.to \in Edits
      BY <1>1, <2>2 DEF Underway
    <3> QED BY <1>1, <1>2, <3>1, <3>2 DEF Once
  <2>5. \A k \in DOMAIN outbox' : outbox'[k].is # "-" /\ outbox'[k].to \notin Edits
    <3>1. \A k \in DOMAIN outbox' : outbox'[k].to \in Edits => r.to \in Edits
      BY <1>1, <1>2, <2>2 DEF Replied
    <3> QED BY <1>4, <1>7, <3>1
  <2>6. GdbTypes'
    BY <1>1, <1>2, <1>7, <2>1, <2>3 DEF GdbTypes
  <2>7. Underway'
    BY <1>1, <1>7, <2>1, <2>2, <2>3, <2>4 DEF Underway
  <2>8. Replied' /\ Once'
    BY <2>1, <2>3, <2>4, <2>5 DEF Replied, Once
  <2> QED BY <1>3, <2>6, <2>7, <2>8 DEF GdbInv, Traffic
<1> QED BY <1>5, <1>6, <1>7 DEF Receive

\* The debugger keeps the invariant, dying included.
LEMMA DebuggerKeeps == GdbInv /\ Debugger => GdbInv'
<1> SUFFICES ASSUME GdbInv, Debugger PROVE GdbInv'
  OBVIOUS
<1>1. CASE Vanish
  <2>1. client' = "gone" /\ UNCHANGED <<dmem, sw_breakpoints, program, inbox, outbox, asked>>
    BY <1>1 DEF Vanish, targetVars
  <2>2. GdbTypes' /\ BreakpointsTransparent'
    BY <2>1 DEF GdbInv, GdbTypes, BreakpointsTransparent
  <2>3. Underway' /\ Replied'
    BY <2>1 DEF GdbInv, Traffic, Underway, Replied
  <2>4. Once'
    BY <2>1 DEF GdbInv, Traffic, Once
  <2> QED BY <2>2, <2>3, <2>4 DEF GdbInv, Traffic
<1> QED BY <1>1, SendKeeps, InterruptKeeps, ReceiveKeeps DEF Debugger

-----------------------------------------------------------------------------
(* The theorems *)

LEMMA GdbInitInv == GdbInit => GdbInv
<1> SUFFICES ASSUME GdbInit PROVE GdbInv
  OBVIOUS
<1>1. /\ inbox = << >> /\ outbox = << >> /\ asked = NoPacket
      /\ DOMAIN inbox = {} /\ DOMAIN outbox = {}
  BY DEF GdbInit
<1>2. asked \in Packets
  BY <1>1, GdbAssumption DEF NoPacket, Packets, Ops
<1>3. DOMAIN sw_breakpoints = {} /\ sw_breakpoints \in [DOMAIN sw_breakpoints -> Words]
  BY DEF GdbInit
<1>4. dmem \in [Code -> Words] /\ program = dmem
  BY GdbAssumption DEF GdbInit
<1>5. Traffic
  BY <1>1 DEF Traffic, Underway, Replied, Once
<1>6. BreakpointsTransparent
  BY <1>3, <1>4 DEF BreakpointsTransparent
<1> QED BY <1>1, <1>2, <1>3, <1>4, <1>5, <1>6 DEF GdbInv, GdbTypes

\* Breakpoints are invisible (cmd_insert_breakpoint, cmd_remove_breakpoint, cmd_write_memory): whatever the
\* debugger sends and in whatever order poll and the command loop handle it, memory is the program with an
\* EBREAK exactly at the breakpoints, and every replaced word is kept, for programs and sessions of any length.
THEOREM Transparent == GdbSpec => []BreakpointsTransparent
<1>1. GdbInv /\ [GdbNext]_gdbVars => GdbInv'
  <2>1. GdbInv /\ UNCHANGED gdbVars => GdbInv'
    BY Unaffected DEF gdbVars, targetVars, clientVars
  <2> QED BY <2>1, MainLoopKeeps, DebuggerKeeps DEF GdbNext, GdbEnd
<1>2. GdbInv => BreakpointsTransparent
  BY DEF GdbInv
<1> QED BY <1>1, <1>2, GdbInitInv, PTL DEF GdbSpec

\* A handler turns single_step on for "s" only, and a kill closes the connection.
LEMMA HandlerStep ==
  ASSUME NEW p, handle_packet(p)
  PROVE  /\ single_step' => single_step \/ p.op = "s"
         /\ connected' => connected
         /\ p.op = "k" => ~connected'
<1>1. CASE Leave(p)
  BY <1>1 DEF Leave, close_connection
<1>2. CASE Resume(p) /\ UNCHANGED connected
  <2>1. p.op # "k"
    BY <1>2 DEF Resume
  <2>2. single_step' => p.op = "s"
    BY <1>2, Zenon DEF Resume
  <2> QED BY <1>2, <2>1, <2>2
<1>3. CASE Silent(p) /\ UNCHANGED connected
  BY <1>3 DEF Silent, targetVars
<1>4. CASE QStartNoAckMode(p) /\ UNCHANGED connected
  BY <1>4 DEF QStartNoAckMode
<1>5. CASE (Unsupported(p) \/ cmd_write_register(p) \/ cmd_write_memory(p)) /\ UNCHANGED connected
  <2>1. UNCHANGED single_step /\ p.op # "k"
    BY <1>5 DEF Unsupported, cmd_write_register, cmd_write_memory, targetVars
  <2> QED BY <1>5, <2>1
<1>6. CASE (cmd_insert_breakpoint(p) \/ cmd_remove_breakpoint(p)) /\ UNCHANGED connected
  BY <1>6 DEF cmd_insert_breakpoint, cmd_remove_breakpoint
<1> QED BY <1>1, <1>2, <1>3, <1>4, <1>5, <1>6 DEF handle_packet

\* The same for a packet that may be refused.
LEMMA PacketStep ==
  ASSUME NEW p, IF p.good THEN handle_packet(p) ELSE Refuse(p), Counted(p), unreported \in 0..2
  PROVE  /\ connected' => connected
         /\ p.good /\ p.op = "k" => ~connected'
         /\ unreported' \in {0, unreported}
         /\ single_step' => single_step \/ unreported' = 0
<1>1. CASE p.good
  BY <1>1, HandlerStep DEF Counted
<1>2. CASE ~p.good
  BY <1>2 DEF Refuse, Counted, targetVars
<1> QED BY <1>1, <1>2

\* The main loop keeps the count.
LEMMA MainLoopCounts == StepInv /\ MainLoop => StepInv'
<1> SUFFICES ASSUME StepInv, MainLoop PROVE StepInv'
  OBVIOUS
<1>1. CASE execute_cycle
  BY <1>1 DEF execute_cycle, StepInv
<1>2. CASE notify_breakpoint
  BY <1>2 DEF notify_breakpoint, StepInv
<1> DEFINE p == Head(inbox)
           Packet == /\ IF p.good THEN handle_packet(p) ELSE Refuse(p)
                     /\ Counted(p)
<1>3. ASSUME Packet
      PROVE  /\ connected' => connected
             /\ p.good /\ p.op = "k" => ~connected'
             /\ unreported' \in {0, unreported}
             /\ single_step' => single_step \/ unreported' = 0
  BY <1>3, PacketStep DEF StepInv
<1>4. CASE poll
  <2>1. loop = "check" /\ ~(connected /\ (single_step \/ hit_ebreak)) /\ hit_ebreak' = hit_ebreak
    BY <1>4 DEF poll, PollOnce
  <2>2. CASE /\ UNCHANGED <<single_step, connected, unreported>> /\ loop' = "exec"
    BY <2>1, <2>2 DEF StepInv
  <2>3. CASE connected' = FALSE /\ unreported' = unreported /\ loop' = "exec"
    BY <2>1, <2>3 DEF StepInv
  <2>4. CASE Packet /\ loop' = IF p.good /\ p.op = "k" THEN "over" ELSE "exec"
    BY <1>3, <2>1, <2>4 DEF StepInv
  <2> QED BY <1>4, <2>2, <2>3, <2>4 DEF poll, PollOnce, targetVars, close_connection
<1>5. CASE CommandLoop
  <2>1. loop = "halted" /\ unreported = 0
    BY <1>5 DEF CommandLoop, StepInv
  <2>2. CASE connected' = FALSE /\ unreported' = unreported /\ loop' = "exec"
    BY <2>1, <2>2 DEF StepInv
  <2>3. CASE Packet /\ loop' = IF ~p.good \/ resumes(p)
                               THEN (IF p.good /\ p.op = "k" THEN "over" ELSE "exec") ELSE "halted"
    BY <1>3, <2>1, <2>3 DEF StepInv
  <2> QED BY <1>5, <2>2, <2>3 DEF CommandLoop, close_connection
<1> QED BY <1>1, <1>2, <1>4, <1>5 DEF MainLoop

\* A single step and an EBREAK stop the machine (the poll and notify_breakpoint of the main loop): with a
\* debugger connected no second instruction runs before the stop reply, for every program, whatever packets
\* arrive around it and however many are refused.
THEOREM Stops == GdbSpec => []StepStops
<1>1. GdbInit => StepInv
  BY DEF GdbInit, StepInv
<1>2. StepInv /\ [GdbNext]_gdbVars => StepInv'
  <2> SUFFICES ASSUME StepInv, [GdbNext]_gdbVars PROVE StepInv'
    OBVIOUS
  <2>1. CASE UNCHANGED <<loop, connected, single_step, hit_ebreak, unreported>>
    BY <2>1 DEF StepInv
  <2> QED BY <2>1, MainLoopCounts
       DEF GdbNext, GdbEnd, Debugger, Send, Interrupt, Receive, Vanish, gdbVars, targetVars
<1>3. StepInv => StepStops
  BY DEF StepInv, StepStops
<1> QED BY <1>1, <1>2, <1>3, PTL DEF GdbSpec

-----------------------------------------------------------------------------
(* Every command is answered once *)

\* The packets that are answered; "c" and "s" end in a stop reply, "k" in nothing.
Waits == Ops \ {"none", "stop", "^C", "c", "s", "k"}

\* Such a packet, and its reply, are what the debugger waits for, damaged or refused as long as the
\* debugger has not sent it again.
Expected ==
  /\ \A i \in DOMAIN inbox : inbox[i].op \in Waits =>
       client \notin {"stopped", "running"} /\ inbox[i].op = asked.op /\ (inbox[i].good <=> asked.good)
  /\ \A k \in DOMAIN outbox : outbox[k].to \in Waits =>
       client \notin {"stopped", "running"} /\ outbox[k].to = asked.op /\ (outbox[k].is = "-" <=> ~asked.good)

\* There is one of them at most.
Single ==
  /\ \A i, j \in DOMAIN inbox : inbox[i].op \in Waits /\ inbox[j].op \in Waits => i = j
  /\ \A k, l \in DOMAIN outbox : outbox[k].to \in Waits /\ outbox[l].to \in Waits => k = l
  /\ \A i \in DOMAIN inbox, k \in DOMAIN outbox : ~(inbox[i].op \in Waits /\ outbox[k].to \in Waits)

\* And one at least while the debugger waits.
Present ==
  client = "waiting" => /\ asked.op \in Waits
                        /\ \/ \E i \in DOMAIN inbox : inbox[i].op = asked.op
                           \/ \E k \in DOMAIN outbox : outbox[k].to = asked.op

\* Acknowledgements are off only when no damaged packet can follow: its refusal would be silent.
Audible == \A i \in DOMAIN inbox : ~inbox[i].good => ~no_ack_mode

AnswerInv == connected => Expected /\ Single /\ Present /\ Audible

\* A handler of such a packet replies, and only QStartNoAckMode turns the acknowledgements off.
LEMMA HandlerAnswers ==
  ASSUME NEW p \in Packets, handle_packet(p)
  PROVE  /\ p.op \in Waits => \E is \in Answers : is # "-" /\ outbox' = Append(outbox, Reply(p.op, is))
         /\ no_ack_mode' => no_ack_mode \/ p.op = "QStartNoAckMode"
         /\ connected' => connected
<1>1. /\ {"OK", "", "E02", "E03"} \subseteq Answers \ {"-"}
      /\ reply_only(p) \in Answers \ {"-"}
  BY DEF reply_only, Answers
<1>2. CASE Silent(p) \/ Unsupported(p) \/ cmd_write_register(p) \/ cmd_write_memory(p)
  <2>1. no_ack_mode' = no_ack_mode
    BY <1>2 DEF Silent, Unsupported, cmd_write_register, cmd_write_memory, targetVars
  <2>2. connected' => connected
    BY <1>2 DEF handle_packet, Silent, Unsupported, cmd_write_register, cmd_write_memory, Leave
  <2> QED BY <1>1, <1>2, <2>1, <2>2 DEF Silent, Unsupported, cmd_write_register, cmd_write_memory
<1>3. CASE QStartNoAckMode(p)
  <2>1. connected' => connected
    BY <1>3 DEF handle_packet, QStartNoAckMode, Leave
  <2> QED BY <1>1, <1>3, <2>1 DEF QStartNoAckMode
<1>4. CASE cmd_insert_breakpoint(p) \/ cmd_remove_breakpoint(p)
  <2>1. no_ack_mode' = no_ack_mode
    BY <1>4 DEF cmd_insert_breakpoint, cmd_remove_breakpoint
  <2>2. connected' => connected
    BY <1>4 DEF handle_packet, cmd_insert_breakpoint, cmd_remove_breakpoint, Leave
  <2> QED BY <1>1, <1>4, <2>1, <2>2 DEF cmd_insert_breakpoint, cmd_remove_breakpoint
<1>5. CASE Resume(p)
  <2>1. p.op \notin Waits /\ no_ack_mode' = no_ack_mode
    BY <1>5 DEF Resume, Waits
  <2>2. connected' => connected
    BY <1>5 DEF handle_packet, Resume, Leave
  <2> QED BY <2>1, <2>2
<1>6. CASE Leave(p)
  <2>1. ~connected' /\ ~no_ack_mode'
    BY <1>6 DEF Leave, close_connection
  <2>2. p.op \in Waits => p.op = "D"
    BY <1>6 DEF Leave, Waits
  <2> QED BY <1>1, <1>6, <2>1, <2>2 DEF Leave
<1> QED BY <1>2, <1>3, <1>4, <1>5, <1>6 DEF handle_packet

\* A packet leaves the inbox and its reply, if it has one, enters the outbox.
LEMMA AnswerServed ==
  ASSUME GdbTypes, Traffic, Expected, Single, Present, inbox # << >>, inbox' = Tail(inbox),
         UNCHANGED <<client, asked>>, NEW is \in Answers, is = "-" <=> ~Head(inbox).good,
         outbox' \in {outbox, Append(outbox, Reply(Head(inbox).op, is))},
         Head(inbox).op \in Waits => outbox' = Append(outbox, Reply(Head(inbox).op, is))
  PROVE  Expected' /\ Single' /\ Present'
<1> DEFINE p == Head(inbox)  r == Reply(p.op, is)
<1>1. /\ p \in Packets /\ p = inbox[1] /\ 1 \in DOMAIN inbox /\ inbox' \in Seq(Packets)
      /\ \A i \in DOMAIN inbox' : i \in Nat /\ i + 1 \in DOMAIN inbox /\ inbox'[i] = inbox[i + 1] /\ i + 1 # 1
  BY TakeFirst DEF GdbTypes
<1>2. r \in Replies /\ r.to = p.op /\ r.is = is
  BY <1>1 DEF Replies, Reply, Packets
<1>3. \A k \in DOMAIN outbox' : \/ k \in DOMAIN outbox /\ outbox'[k] = outbox[k]
                                \/ k = Len(outbox) + 1 /\ k \notin DOMAIN outbox /\ outbox'[k] = r
  <2>1. CASE outbox' = outbox
    BY <2>1 DEF GdbTypes
  <2>2. CASE outbox' = Append(outbox, r)
    BY <2>2, <1>2, PutLast DEF GdbTypes
  <2> QED BY <2>1, <2>2
<1>4. p.op \in Waits => \E k \in DOMAIN outbox' : outbox'[k] = r
  <2>1. Len(outbox) + 1 \in DOMAIN Append(outbox, r) /\ Append(outbox, r)[Len(outbox) + 1] = r
    BY <1>2, KeepRest DEF GdbTypes
  <2> QED BY <2>1
<1>5. p.op \in Waits => /\ \A i \in DOMAIN inbox' : inbox'[i].op \notin Waits
                        /\ \A k \in DOMAIN outbox : outbox[k].to \notin Waits
                        /\ client \notin {"stopped", "running"} /\ p.op = asked.op /\ (p.good <=> asked.good)
  BY <1>1 DEF Single, Expected
<1>6. Expected'
  <2>1. ASSUME NEW i \in DOMAIN inbox', inbox'[i].op \in Waits
        PROVE  client' \notin {"stopped", "running"} /\ inbox'[i].op = asked'.op /\ (inbox'[i].good <=> asked'.good)
    BY <1>1, <2>1 DEF Expected
  <2>2. ASSUME NEW k \in DOMAIN outbox', outbox'[k].to \in Waits
        PROVE  client' \notin {"stopped", "running"} /\ outbox'[k].to = asked'.op /\ (outbox'[k].is = "-" <=> ~asked'.good)
    BY <1>2, <1>3, <1>5, <2>2 DEF Expected
  <2> QED BY <2>1, <2>2 DEF Expected
<1>7. Single'
  <2>1. \A i, j \in DOMAIN inbox' : inbox'[i].op \in Waits /\ inbox'[j].op \in Waits => i = j
    BY <1>1 DEF Single
  <2>2. \A k, l \in DOMAIN outbox' : outbox'[k].to \in Waits /\ outbox'[l].to \in Waits => k = l
    BY <1>2, <1>3, <1>5 DEF Single
  <2>3. \A i \in DOMAIN inbox', k \in DOMAIN outbox' : ~(inbox'[i].op \in Waits /\ outbox'[k].to \in Waits)
    BY <1>1, <1>2, <1>3, <1>5 DEF Single
  <2> QED BY <2>1, <2>2, <2>3 DEF Single
<1>8. Present'
  <2> SUFFICES ASSUME client = "waiting"
               PROVE  \/ \E i \in DOMAIN inbox' : inbox'[i].op = asked.op
                      \/ \E k \in DOMAIN outbox' : outbox'[k].to = asked.op
    BY DEF Present
  <2>1. CASE p.op = asked.op
    BY <1>2, <1>4, <2>1 DEF Present
  <2>2. CASE p.op # asked.op /\ \E i \in DOMAIN inbox : inbox[i].op = asked.op
    <3>1. PICK i \in DOMAIN inbox : inbox[i].op = asked.op
      BY <2>2
    <3>2. i # 1
      BY <1>1, <2>2, <3>1
    <3>3. i - 1 \in DOMAIN inbox' /\ inbox'[i - 1] = inbox[i]
      BY <1>1, <3>1, <3>2, KeepRest DEF GdbTypes
    <3> QED BY <3>1, <3>3
  <2>3. CASE \E k \in DOMAIN outbox : outbox[k].to = asked.op
    <3>1. PICK k \in DOMAIN outbox : outbox[k].to = asked.op
      BY <2>3
    <3>2. k \in DOMAIN Append(outbox, r) /\ Append(outbox, r)[k] = outbox[k]
      BY <1>2, KeepRest DEF GdbTypes
    <3>3. k \in DOMAIN outbox' /\ outbox'[k] = outbox[k]
      BY <3>2
    <3> QED BY <3>1, <3>3
  <2> QED BY <2>1, <2>2, <2>3 DEF Present
<1> QED BY <1>6, <1>7, <1>8

\* A packet handled or refused keeps the count of answers.
LEMMA AnswerHandled ==
  ASSUME GdbInv, AnswerInv, connected, inbox # << >>, inbox' = Tail(inbox), UNCHANGED clientVars,
         IF Head(inbox).good THEN handle_packet(Head(inbox)) ELSE Refuse(Head(inbox))
  PROVE  AnswerInv'
<1> DEFINE p == Head(inbox)
<1>1. /\ GdbTypes /\ Traffic /\ Expected /\ Single /\ Present /\ Audible /\ UNCHANGED <<client, asked>>
  BY DEF GdbInv, AnswerInv, clientVars
<1>2. /\ p \in Packets /\ p = inbox[1] /\ 1 \in DOMAIN inbox
      /\ \A i \in DOMAIN inbox' : i \in Nat /\ i + 1 \in DOMAIN inbox /\ inbox'[i] = inbox[i + 1] /\ i + 1 # 1
  BY <1>1, TakeFirst DEF GdbTypes
<1>3. CASE p.good
  <2>1. handle_packet(p)
    BY <1>3
  <2>2. PICK is \in Answers : /\ is # "-" /\ outbox' \in {outbox, Append(outbox, Reply(p.op, is))}
                              /\ p.op \in Waits => outbox' = Append(outbox, Reply(p.op, is))
    BY <1>2, <2>1, HandlerReply, HandlerAnswers
  <2>3. Expected' /\ Single' /\ Present'
    BY <1>1, <1>3, <2>2, AnswerServed
  <2>4. Audible'
    <3> SUFFICES ASSUME NEW i \in DOMAIN inbox', ~inbox'[i].good, no_ack_mode' PROVE FALSE
      BY DEF Audible
    <3>1. i + 1 \in DOMAIN inbox /\ ~inbox[i + 1].good /\ ~no_ack_mode /\ ~asked.good
      BY <1>1, <1>2 DEF Audible, Traffic, Underway
    <3>2. p.op = "QStartNoAckMode"
      BY <1>2, <2>1, <3>1, HandlerAnswers
    <3>3. p.op \in Waits
      BY <3>2 DEF Waits, Ops
    <3> QED BY <1>1, <1>2, <1>3, <3>1, <3>3 DEF Expected
  <2> QED BY <2>3, <2>4 DEF AnswerInv
<1>4. CASE ~p.good
  <2>1. ~no_ack_mode /\ UNCHANGED no_ack_mode /\ outbox' = Append(outbox, Reply(p.op, "-"))
    BY <1>1, <1>2, <1>4 DEF Refuse, Audible, targetVars
  <2>2. "-" \in Answers
    BY DEF Answers
  <2>3. Expected' /\ Single' /\ Present'
    BY <1>1, <1>4, <2>1, <2>2, AnswerServed
  <2> QED BY <2>1, <2>3 DEF AnswerInv, Audible
<1> QED BY <1>3, <1>4

LEMMA AnswerUnaffected ==
  ASSUME AnswerInv, connected' => connected, UNCHANGED <<inbox, outbox, client, asked>>,
         connected' => UNCHANGED no_ack_mode
  PROVE  AnswerInv'
  BY DEF AnswerInv, Expected, Single, Present, Audible

LEMMA AnswerMainLoop ==
  ASSUME GdbInv, AnswerInv, MainLoop
  PROVE  AnswerInv'
<1>1. CASE execute_cycle
  BY <1>1, AnswerUnaffected DEF execute_cycle, clientVars
<1>2. CASE poll \/ CommandLoop
  <2>1. UNCHANGED clientVars
    BY <1>2 DEF poll, PollOnce, CommandLoop
  <2>2. CASE UNCHANGED <<inbox, outbox>> /\ (connected' => connected) /\ (connected' => UNCHANGED no_ack_mode)
    BY <2>1, <2>2, AnswerUnaffected DEF clientVars
  <2>3. CASE /\ inbox # << >> /\ inbox' = Tail(inbox)
             /\ IF Head(inbox).good THEN handle_packet(Head(inbox)) ELSE Refuse(Head(inbox))
    <3>1. CASE connected
      BY <2>1, <2>3, <3>1, AnswerHandled
    <3>2. connected' => connected
      <4>1. Head(inbox) \in Packets
        BY <2>3, TakeFirst DEF GdbInv, GdbTypes
      <4> QED BY <2>3, <4>1, HandlerAnswers DEF Refuse
    <3> QED BY <3>1, <3>2 DEF AnswerInv
  <2> QED BY <1>2, <2>2, <2>3 DEF poll, PollOnce, CommandLoop, targetVars, close_connection
<1>3. CASE notify_breakpoint
  <2> DEFINE r == Reply("stop", "S05")
  <2>1. /\ outbox' = Append(outbox, r) /\ connected
        /\ UNCHANGED <<inbox, client, asked, no_ack_mode>>
    BY <1>3 DEF notify_breakpoint, targetVars, clientVars
  <2>2. r \in Replies /\ r.to \notin Waits
    BY DEF Reply, Replies, Ops, Answers, Waits
  <2>3. /\ \A k \in DOMAIN outbox' : \/ k \in DOMAIN outbox /\ outbox'[k] = outbox[k]
                                     \/ outbox'[k] = r
        /\ \A k \in DOMAIN outbox : k \in DOMAIN outbox' /\ outbox'[k] = outbox[k]
    BY <2>1, <2>2, PutLast, KeepRest DEF GdbInv, GdbTypes
  <2>4. Expected' /\ Audible'
    BY <2>1, <2>2, <2>3 DEF AnswerInv, Expected, Audible
  <2>5. Single'
    BY <2>1, <2>2, <2>3 DEF AnswerInv, Single
  <2>6. Present'
    BY <2>1, <2>3 DEF AnswerInv, Present
  <2> QED BY <2>4, <2>5, <2>6 DEF AnswerInv
<1> QED BY <1>1, <1>2, <1>3 DEF MainLoop

\* A debugger that takes the target for stopped, or for running, has no such packet or reply on its way.
LEMMA AnswerQuiet ==
  ASSUME AnswerInv, connected, client \in {"stopped", "running"} \/ asked.op \notin Waits
  PROVE  /\ \A i \in DOMAIN inbox : inbox[i].op \notin Waits
         /\ \A k \in DOMAIN outbox : outbox[k].to \notin Waits
  BY DEF AnswerInv, Expected

LEMMA AnswerSend ==
  ASSUME NEW p \in Commands, GdbInv, AnswerInv, Send(p)
  PROVE  AnswerInv'
<1> SUFFICES ASSUME connected PROVE Expected' /\ Single' /\ Present' /\ Audible'
  BY DEF AnswerInv, Send
<1>1. /\ client = "stopped" /\ Sensible(p) /\ inbox' = Append(inbox, p) /\ asked' = p
      /\ client' = IF p.op \in {"c", "s"} THEN "running" ELSE IF p.op = "k" THEN "gone" ELSE "waiting"
      /\ UNCHANGED <<outbox, no_ack_mode>>
  BY DEF Send, targetVars
<1>2. p \in Packets /\ p.op \notin {"none", "stop", "^C"}
  BY GdbAssumption
<1>3. (p.op \in Waits <=> client' = "waiting") /\ (p.op \in Waits => client' \notin {"stopped", "running"})
  BY <1>1, <1>2 DEF Waits, Packets
<1>4. /\ \A i \in DOMAIN inbox : inbox[i].op \notin Waits
      /\ \A k \in DOMAIN outbox : outbox[k].to \notin Waits
  BY <1>1, AnswerQuiet
<1>5. /\ \A i \in DOMAIN inbox' : \/ i \in DOMAIN inbox /\ inbox'[i] = inbox[i]
                                  \/ i = Len(inbox) + 1 /\ inbox'[i] = p
      /\ Len(inbox) + 1 \in DOMAIN inbox' /\ inbox'[Len(inbox) + 1] = p
  BY <1>1, <1>2, PutLast, KeepRest DEF GdbInv, GdbTypes
<1>6. Expected'
  BY <1>1, <1>3, <1>4, <1>5 DEF Expected
<1>7. Single'
  BY <1>1, <1>4, <1>5 DEF Single
<1>8. Present'
  BY <1>1, <1>3, <1>5 DEF Present
<1>9. Audible'
  BY <1>1, <1>5 DEF AnswerInv, Audible, Sensible
<1> QED BY <1>6, <1>7, <1>8, <1>9

LEMMA AnswerInterrupt ==
  ASSUME GdbInv, AnswerInv, Interrupt
  PROVE  AnswerInv'
<1> SUFFICES ASSUME connected PROVE Expected' /\ Single' /\ Present' /\ Audible'
  BY DEF AnswerInv, Interrupt
<1> DEFINE p == [NoPacket EXCEPT !.op = "^C"]
<1>1. inbox' = Append(inbox, p) /\ client = "running" /\ UNCHANGED <<outbox, client, asked, no_ack_mode>>
  BY DEF Interrupt, targetVars
<1>2. p \in Packets /\ p.op \notin Waits /\ p.good
  BY GdbAssumption DEF NoPacket, Packets, Ops, Waits
<1>3. \A i \in DOMAIN inbox' : (i \in DOMAIN inbox /\ inbox'[i] = inbox[i]) \/ inbox'[i] = p
  BY <1>1, <1>2, PutLast DEF GdbInv, GdbTypes
<1>4. Expected' /\ Audible'
  BY <1>1, <1>2, <1>3 DEF AnswerInv, Expected, Audible
<1>5. Single'
  BY <1>1, <1>2, <1>3 DEF AnswerInv, Single
<1>6. Present'
  BY <1>1 DEF Present
<1> QED BY <1>4, <1>5, <1>6

LEMMA AnswerReceive ==
  ASSUME GdbInv, AnswerInv, Receive
  PROVE  AnswerInv'
<1> SUFFICES ASSUME connected PROVE Expected' /\ Single' /\ Present' /\ Audible'
  BY DEF AnswerInv, Receive
<1> DEFINE r == Head(outbox)
<1>1. /\ GdbTypes /\ Traffic /\ Expected /\ Single /\ Present /\ Audible
      /\ outbox # << >> /\ outbox' = Tail(outbox) /\ UNCHANGED no_ack_mode /\ client # "gone"
  BY DEF GdbInv, AnswerInv, Receive, targetVars
<1>2. /\ r = outbox[1] /\ 1 \in DOMAIN outbox /\ outbox' \in Seq(Replies) /\ r \in Replies
      /\ \A k \in DOMAIN outbox' : k \in Nat /\ k + 1 \in DOMAIN outbox /\ outbox'[k] = outbox[k + 1] /\ k + 1 # 1
  BY <1>1, TakeFirst DEF GdbTypes
<1>3. \A k \in DOMAIN outbox : k # 1 => k - 1 \in DOMAIN outbox' /\ outbox'[k - 1] = outbox[k]
  BY <1>1, <1>2, KeepRest DEF GdbTypes
<1>4. r.to \in Waits => \A k \in DOMAIN outbox' : outbox'[k].to \notin Waits
  BY <1>1, <1>2 DEF Single
<1>5. CASE r.is # "-" /\ ~(asked.good /\ Acts(r)) /\ UNCHANGED <<client, inbox, asked>>
  <2>1. Expected' /\ Audible'
    BY <1>1, <1>2, <1>5 DEF Expected, Audible
  <2>2. Single'
    BY <1>1, <1>2, <1>5 DEF Single
  <2>3. client = "waiting" => r.to # asked.op
    BY <1>1, <1>2, <1>5 DEF Acts, Expected, Present
  <2>4. Present'
    <3> SUFFICES ASSUME client = "waiting", NEW k \in DOMAIN outbox, outbox[k].to = asked.op
                 PROVE  \E l \in DOMAIN outbox' : outbox'[l].to = asked.op
      BY <1>1, <1>5 DEF Present
    <3>1. k # 1
      BY <1>2, <2>3
    <3> QED BY <1>3, <3>1
  <2> QED BY <2>1, <2>2, <2>4
<1>6. CASE r.is # "-" /\ asked.good /\ Acts(r) /\ UNCHANGED <<inbox, asked>> /\ client' \in {"gone", "stopped"}
  <2>1. /\ \A i \in DOMAIN inbox : inbox[i].op \notin Waits
        /\ \A k \in DOMAIN outbox' : outbox'[k].to \notin Waits
    <3>1. CASE client = "running"
      BY <1>1, <1>2, <3>1 DEF Expected
    <3>2. CASE client = "waiting" /\ r.to = asked.op
      <4>1. r.to \in Waits
        BY <1>1, <3>2 DEF Present
      <4>2. \A i \in DOMAIN inbox : inbox[i].op \notin Waits
        BY <1>1, <1>2, <4>1 DEF Single
      <4> QED BY <1>4, <4>1, <4>2
    <3> QED BY <1>6, <3>1, <3>2 DEF Acts
  <2>2. Expected' /\ Single' /\ Present' /\ Audible'
    BY <1>1, <1>6, <2>1 DEF Expected, Single, Present, Audible
  <2> QED BY <2>2
<1>7. CASE /\ r.is = "-" /\ UNCHANGED client
           /\ inbox' = Append(inbox, [asked EXCEPT !.good = TRUE]) /\ asked' = [asked EXCEPT !.good = TRUE]
  <2> DEFINE p == [asked EXCEPT !.good = TRUE]
  <2>1. p \in Packets /\ p.op = asked.op /\ p.good /\ asked' = p
    BY <1>1, <1>7 DEF GdbTypes, Packets
  <2>2. client # "stopped" /\ r.to = asked.op
    BY <1>1, <1>2, <1>7 DEF Traffic, Replied
  <2>3. /\ \A i \in DOMAIN inbox' : \/ i \in DOMAIN inbox /\ inbox'[i] = inbox[i]
                                    \/ i = Len(inbox) + 1 /\ inbox'[i] = p
        /\ Len(inbox) + 1 \in DOMAIN inbox' /\ inbox'[Len(inbox) + 1] = p
    BY <1>1, <1>7, <2>1, PutLast, KeepRest DEF GdbTypes
  <2>4. /\ \A i \in DOMAIN inbox : inbox[i].op \notin Waits
        /\ \A k \in DOMAIN outbox' : outbox'[k].to \notin Waits
    <3>1. CASE asked.op \in Waits
      <4>1. \A i \in DOMAIN inbox : inbox[i].op \notin Waits
        BY <1>1, <1>2, <2>2, <3>1 DEF Single
      <4> QED BY <1>4, <2>2, <3>1, <4>1
    <3>2. CASE asked.op \notin Waits
      BY <1>2, <3>2, AnswerQuiet
    <3> QED BY <3>1, <3>2
  <2>5. asked.op \in Waits => client # "running"
    BY <1>1, <1>2, <2>2 DEF Expected
  <2>6. Expected'
    BY <1>7, <2>1, <2>2, <2>3, <2>4, <2>5 DEF Expected
  <2>7. Single'
    BY <2>3, <2>4 DEF Single
  <2>8. Present'
    BY <1>1, <1>7, <2>1, <2>3 DEF Present
  <2>9. Audible'
    BY <1>1, <2>1, <2>3 DEF Audible
  <2> QED BY <2>6, <2>7, <2>8, <2>9
<1> QED BY <1>5, <1>6, <1>7 DEF Receive

LEMMA AnswerStep ==
  ASSUME GdbInv, AnswerInv, [GdbNext]_gdbVars
  PROVE  AnswerInv'
<1>1. CASE Vanish
  <2>1. client' = "gone" /\ UNCHANGED <<inbox, outbox, asked, connected, no_ack_mode>>
    BY <1>1 DEF Vanish, targetVars
  <2> QED BY <2>1 DEF AnswerInv, Expected, Single, Present, Audible
<1>2. CASE UNCHANGED gdbVars
  BY <1>2, AnswerUnaffected DEF gdbVars, targetVars, clientVars
<1> QED BY <1>1, <1>2, AnswerMainLoop, AnswerSend, AnswerInterrupt, AnswerReceive
        DEF GdbNext, GdbEnd, Debugger

\* No command is lost and none is answered twice, for sessions of any length: damaged packets, refusals,
\* repeats, ^C and stop replies that cross a command included. While the debugger waits, its command or
\* the reply is on its way, exactly once, as long as the connection lives.
THEOREM AnsweredOnce == GdbSpec => []Answered
<1>1. GdbInit => AnswerInv
  BY DEF GdbInit, AnswerInv, Expected, Single, Present, Audible
<1>2. GdbInv /\ [GdbNext]_gdbVars => GdbInv'
  <2>1. GdbInv /\ UNCHANGED gdbVars => GdbInv'
    BY Unaffected DEF gdbVars, targetVars, clientVars
  <2> QED BY <2>1, MainLoopKeeps, DebuggerKeeps DEF GdbNext, GdbEnd
<1>3. GdbInv /\ AnswerInv /\ [GdbNext]_gdbVars => AnswerInv'
  BY AnswerStep
<1>4. AnswerInv => Answered
  <2> SUFFICES ASSUME AnswerInv, client = "waiting", connected
               PROVE  Cardinality({i \in DOMAIN inbox : inbox[i].op = asked.op})
                        + Cardinality({i \in DOMAIN outbox : outbox[i].to = asked.op}) = 1
    BY DEF Answered
  <2> DEFINE I == {i \in DOMAIN inbox : inbox[i].op = asked.op}
             K == {i \in DOMAIN outbox : outbox[i].to = asked.op}
  <2>1. Single /\ Present /\ asked.op \in Waits
    BY DEF AnswerInv, Present
  <2>2. CASE \E i \in DOMAIN inbox : inbox[i].op = asked.op
    <3>1. PICK i \in DOMAIN inbox : inbox[i].op = asked.op
      BY <2>2
    <3>2. I = {i} /\ K = {}
      BY <2>1, <3>1 DEF Single
    <3> HIDE DEF I, K
    <3>3. Cardinality(I) = 1 /\ Cardinality(K) = 0
      BY <3>2, FS_Singleton, FS_EmptySet
    <3> QED BY <3>3 DEF I, K
  <2>3. CASE \E k \in DOMAIN outbox : outbox[k].to = asked.op
    <3>1. PICK k \in DOMAIN outbox : outbox[k].to = asked.op
      BY <2>3
    <3>2. K = {k} /\ I = {}
      BY <2>1, <3>1 DEF Single
    <3> HIDE DEF I, K
    <3>3. Cardinality(K) = 1 /\ Cardinality(I) = 0
      BY <3>2, FS_Singleton, FS_EmptySet
    <3> QED BY <3>3 DEF I, K
  <2> QED BY <2>1, <2>2, <2>3 DEF Present
<1> QED BY <1>1, <1>2, <1>3, <1>4, GdbInitInv, PTL DEF GdbSpec

-----------------------------------------------------------------------------
(* Breakpoints and watchpoints of the terminal interface *)

\* active_ is exact, and an address in passed has used up its skip: it is still a
\* breakpoint and is not the one that skip_once_pc_ lets through.
BpInv ==
  /\ active <=> (pc_breakpoints # {} \/ watchpoints # <<>>)
  /\ passed \subseteq pc_breakpoints
  /\ passed \cap skip_once = {}

LEMMA CycleKeeps ==
  ASSUME BpInv, NEW pc, NEW regs, NEW bare, CheckedCycle(pc, regs, bare)
  PROVE  /\ BpInv'
         /\ bpc \in passed => held'
         /\ (active /\ check_reg_changes(pc, regs)) => held'
<1> DEFINE hit == active /\ check_pc
           changed == active /\ check_reg_changes(pc, regs)
<1>1. /\ skip_once' = IF ~active THEN skip_once ELSE IF hit /\ ~bare THEN {bpc} ELSE {}
      /\ held' = (held \/ hit \/ changed)
      /\ passed' = IF bpc \notin pc_breakpoints \/ hit \/ changed THEN passed \ {bpc} ELSE passed \cup {bpc}
      /\ UNCHANGED <<pc_breakpoints, watchpoints, active>>
  BY DEF CheckedCycle, managerVars
<1>2. bpc \in passed => hit
  BY DEF BpInv, check_pc
<1>3. bpc \in pc_breakpoints => active
  BY DEF BpInv
<1>4. hit => bpc \in pc_breakpoints
  BY DEF check_pc
<1> HIDE DEF hit, changed
<1>5. passed' \subseteq pc_breakpoints
  BY <1>1, <1>4 DEF BpInv
<1>6. passed' \cap skip_once' = {}
  BY <1>1, <1>2, <1>3 DEF BpInv
<1>7. active' <=> (pc_breakpoints' # {} \/ watchpoints' # <<>>)
  BY <1>1 DEF BpInv
<1>8. (bpc \in passed => held') /\ (changed => held')
  BY <1>1, <1>2
<1> QED BY <1>1, <1>5, <1>6, <1>7, <1>8 DEF BpInv, changed

\* What an edit does to the lists keeps active_ exact.
LEMMA EditKeeps ==
  ASSUME BpInv, update_active, UNCHANGED skip_once, passed' \subseteq passed,
         passed' \subseteq pc_breakpoints'
  PROVE  BpInv'
  BY DEF BpInv, update_active

LEMMA BpStep ==
  ASSUME BpInv, [BpNext]_bpVars
  PROVE  BpInv'
<1>1. CASE BpExecute
  BY <1>1, CycleKeeps DEF BpExecute, execute
<1>2. ASSUME NEW p \in BOOLEAN, set_paused(p) PROVE BpInv'
  BY <1>2 DEF set_paused, managerVars, BpInv
<1>3. CASE step_back
  BY <1>3 DEF step_back, managerVars, BpInv
<1>4. ASSUME NEW a, submit_bp(a) PROVE BpInv'
  BY <1>4, EditKeeps DEF submit_bp, add_pc_breakpoint, Edit, BpInv
<1>5. ASSUME NEW w, submit_watch(w) PROVE BpInv'
  BY <1>5, EditKeeps DEF submit_watch, add_watchpoint, Edit, BpInv
<1>6. CASE toggle_pc_breakpoint
  BY <1>6, EditKeeps DEF toggle_pc_breakpoint, add_pc_breakpoint, remove_pc_breakpoint, Edit, BpInv
<1>7. CASE clear_all
  BY <1>7, EditKeeps DEF clear_all, Edit, BpInv
<1>8. CASE open_manage
  BY <1>8 DEF open_manage, Edit, BpInv
<1>9. ASSUME NEW delta, move_cursor(delta) PROVE BpInv'
  BY <1>9 DEF move_cursor, Edit, BpInv
<1>10. CASE remove_at_cursor
  <2>1. /\ update_active /\ UNCHANGED skip_once /\ passed' \subseteq passed /\ passed' \subseteq pc_breakpoints'
    BY <1>10 DEF remove_at_cursor, remove_pc_breakpoint, remove_watchpoint, Edit, BpInv
  <2> QED BY <2>1, EditKeeps
<1>11. CASE UNCHANGED bpVars
  BY <1>11 DEF bpVars, managerVars, cpuVars, BpInv
<1> QED BY <1>1, <1>2, <1>3, <1>4, <1>5, <1>6, <1>7, <1>8, <1>9, <1>10, <1>11 DEF BpNext, BpUser

LEMMA BpInvariant == BpSpec => []BpInv
<1>1. BpInit => BpInv
  BY DEF BpInit, BpInv
<1> QED BY <1>1, BpStep, PTL DEF BpSpec

\* A breakpoint that was passed once pauses the next time, for every program and every
\* sequence of edits, pauses, steps and steps back between.
THEOREM NoSecondPass == BpSpec => NeverPassedTwice
<1>1. BpInv /\ [BpNext]_bpVars => [(bpc \in passed /\ BpExecute) => held']_bpVars
  BY CycleKeeps DEF BpExecute, execute
<1> QED BY <1>1, BpInvariant, PTL DEF BpSpec, NeverPassedTwice

\* A register watchpoint pauses in the cycle of the change: active_ is exact, whatever
\* was added, removed or cleared before.
THEOREM WatchPauses == BpSpec => RegWatchPauses
<1>1. BpInv /\ [BpNext]_bpVars =>
        [BpExecute => \A i \in DOMAIN watchpoints : \A r \in Regs :
           watchpoints[i] = RegWatch(r) /\ bregs'[r] # bregs[r] => held']_bpVars
  <2> SUFFICES ASSUME BpInv, NEW pc, NEW regs, NEW bare, CheckedCycle(pc, regs, bare),
                      NEW i \in DOMAIN watchpoints, NEW r \in Regs,
                      watchpoints[i] = RegWatch(r), bregs'[r] # bregs[r]
               PROVE  held'
    BY DEF BpExecute, execute
  <2>1. active
    BY DEF BpInv
  <2>2. ValueOf(r, pc, regs) # ValueOf(r, bpc, bregs)
    BY WatchAssumption DEF ValueOf, CheckedCycle
  <2>3. watchpoints[i].target = "reg" /\ watchpoints[i].at = r
    BY DEF RegWatch
  <2>4. check_reg_changes(pc, regs)
    BY <2>2, <2>3 DEF check_reg_changes
  <2> QED BY <2>1, <2>4, CycleKeeps
<1> QED BY <1>1, BpInvariant, PTL DEF BpSpec, RegWatchPauses
=============================================================================
