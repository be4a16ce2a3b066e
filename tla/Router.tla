------------------------------- MODULE Router -------------------------------
(***************************************************************************)
(* The bus of the machine: TileLinkBus answers a request from main memory  *)
(* or hands it to MmioRouter, which looks for the device that owns the     *)
(* address.  The framebuffer's range has a hole, its registers 0x10-0x1f,  *)
(* in which the input device lives, so the device whose base comes last    *)
(* before an address is not always its owner.                              *)
(***************************************************************************)
EXTENDS Integers, Sequences, FiniteSets, FiniteSetsExt, SequencesExt

CONSTANTS
  Devices,       \* device names
  base_address, size,   \* of each device
  hole,          \* the addresses of its range that it leaves to others
  read_only,     \* devices that refuse writes
  DramBase, DramSize,
  AddrMax,       \* the last address: 2^64 - 1
  Widths,        \* the bytes of a request: 1, 2, 4 and 8
  ReqMax         \* bound: requests of a behaviour

ASSUME RouterAssumption ==
  /\ DramBase \in Nat /\ DramSize \in Nat /\ AddrMax \in Nat /\ read_only \subseteq Devices
  /\ base_address \in [Devices -> Nat] /\ size \in [Devices -> Nat] /\ Widths \subseteq Nat \ {0}
  /\ "none" \notin Devices /\ "dram" \notin Devices

\* The registers that the framebuffer leaves to the input device are sixteen bytes in a row: no
\* request reaches over them.
ASSUME HoleAssumption ==
  /\ hole \in [Devices -> SUBSET Nat]
  /\ \A d \in Devices : \A x \in hole[d] : \E lo, hi \in hole[d] :
       x \in lo .. hi /\ lo .. hi \subseteq hole[d] /\ \A n \in Widths : n <= hi - lo + 1

VARIABLES
  nodes,         \* nodes_, sorted by base address
  answer,        \* the last request and its response
  count          \* [read, write, error]: the router's counters

routerVars == <<nodes, answer, count>>

NoDevice == "none"
NoAnswer == [op |-> "none", addr |-> 0, bytes |-> 0, by |-> NoDevice, error |-> FALSE]
Ops      == {"Get", "PutFullData", "ArithmeticData"}

contains(d, a) == a >= base_address[d] /\ a - base_address[d] < size[d] /\ a \notin hole[d]
is_dram_access(a, n) == n # 0 /\ n <= DramSize /\ a >= DramBase /\ a - DramBase <= DramSize - n

-----------------------------------------------------------------------------
\* The ranges of two devices may overlap; the bytes they own may not.
OwnsSameByte(d, e) ==
  \E a \in base_address[d] .. base_address[d] + size[d] - 1 : contains(d, a) /\ contains(e, a)
register_device(d) ==
  /\ size[d] # 0 /\ base_address[d] + size[d] <= AddrMax
  /\ d \notin Range(nodes) /\ \A e \in Range(nodes) : ~OwnsSameByte(d, e)
  /\ \E s \in SetToSeqs(Range(nodes) \cup {d}) :
       /\ \A i, j \in DOMAIN s : i < j => base_address[s[i]] <= base_address[s[j]]
       /\ nodes' = s
  /\ UNCHANGED <<answer, count>>

unregister_device(d) ==
  /\ \E i \in DOMAIN nodes : nodes[i] = d /\ nodes' = RemoveAt(nodes, i)
  /\ UNCHANGED <<answer, count>>

clear == nodes' = << >> /\ UNCHANGED <<answer, count>>

\* The last device whose base is not beyond the address, or else the first that owns it.
Below(a) == {i \in DOMAIN nodes : base_address[nodes[i]] <= a}
resolve_device_binary(a) ==
  LET i == Cardinality(Below(a)) IN IF i > 0 /\ contains(nodes[i], a) THEN nodes[i] ELSE NoDevice
resolve_device(a) ==
  LET i      == Cardinality(Below(a))
      owners == {k \in DOMAIN nodes : contains(nodes[k], a)}
  IN  IF i > 0 /\ contains(nodes[i], a) THEN nodes[i]
      ELSE IF owners # {} THEN nodes[Min(owners)] ELSE NoDevice

\* route_request: an access must lie in its device with its first and its last byte.
Refused(op, a, n, d) ==
  \/ d = NoDevice
  \/ op = "ArithmeticData"
  \/ a + n - 1 > AddrMax \/ ~contains(d, a + n - 1)
  \/ op # "Get" /\ d \in read_only

\* The device handles what reaches it (external), perhaps with an error of its own; or it does not
\* handle it, or wants another alignment, which is an error that counts as no access.
route_request(op, a, n) ==
  LET d == resolve_device(a)
  IN  \E outcome \in {"done", "failed", "unhandled"} :
        IF Refused(op, a, n, d)
        THEN /\ outcome = "unhandled"
             /\ answer' = [op |-> op, addr |-> a, bytes |-> n, by |-> NoDevice, error |-> TRUE]
             /\ count' = [count EXCEPT !.error = @ + 1]
        ELSE /\ answer' = [op |-> op, addr |-> a, bytes |-> n, by |-> d, error |-> outcome # "done"]
             /\ count' = [count EXCEPT !.read = @ + (IF op = "Get" /\ outcome # "unhandled" THEN 1 ELSE 0),
                                       !.write = @ + (IF op # "Get" /\ outcome # "unhandled" THEN 1 ELSE 0),
                                       !.error = @ + (IF outcome = "done" THEN 0 ELSE 1)]

\* TileLinkBus: send_request followed by get_response, which ticks until the answer is there.
\* The copy of a written word in Machine::tohost, which ends an ISA test, is not state of the bus.
transact(op, a, n) ==
  /\ count.read + count.write + count.error < ReqMax
  /\ IF op # "ArithmeticData" /\ is_dram_access(a, n)
     THEN answer' = [op |-> op, addr |-> a, bytes |-> n, by |-> "dram", error |-> FALSE] /\ UNCHANGED count
     ELSE IF op = "ArithmeticData"
     THEN answer' = [op |-> op, addr |-> a, bytes |-> n, by |-> NoDevice, error |-> TRUE] /\ UNCHANGED count
     ELSE route_request(op, a, n)
  /\ UNCHANGED nodes

\* A size field above 3 names no width: the bus answers with an error and looks at no address.
InvalidSize(op) ==
  /\ answer' = [NoAnswer EXCEPT !.op = op, !.error = TRUE]
  /\ UNCHANGED <<nodes, count>>

RouterInit == nodes = << >> /\ answer = NoAnswer /\ count = [read |-> 0, write |-> 0, error |-> 0]

RouterNext ==
  \/ \E d \in Devices : register_device(d) \/ unregister_device(d)
  \/ clear
  \/ \E op \in Ops : InvalidSize(op)
  \/ \E op \in Ops, a \in 0 .. AddrMax, n \in Widths : transact(op, a, n)

RouterSpec == RouterInit /\ [][RouterNext]_routerVars

-----------------------------------------------------------------------------
Owners(a) == {d \in Range(nodes) : contains(d, a)}

\* Whatever is registered, in whatever order, an address resolves to the one device that owns it
\* and to none when nobody does, the addresses around the hole included; and a device is never
\* handed an access with a byte that is not its own: testing the first and the last byte is
\* enough, because a hole is wider than the widest access.
RouteExact ==
  /\ \A a \in 0 .. AddrMax : /\ Cardinality(Owners(a)) <= 1
                             /\ resolve_device(a) = IF Owners(a) = {} THEN NoDevice ELSE CHOOSE d \in Owners(a) : TRUE
  /\ answer.by \in Devices
       => \A a \in answer.addr .. answer.addr + answer.bytes - 1 : contains(answer.by, a)
=============================================================================
