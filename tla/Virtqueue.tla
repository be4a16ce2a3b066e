----------------------------- MODULE Virtqueue -----------------------------
(***************************************************************************)
(* A virtio queue (VirtioDevice, VirtioUtil) as the disk and the console's *)
(* transmit queue use it: process_queue runs inside the guest's store to   *)
(* QueueNotify and serves the available ring up to the index it read at    *)
(* the start, one step per iteration of its loop; the guest stands still   *)
(* meanwhile.  The rings and the descriptors live in guest memory, indices *)
(* wrap at IdxMod and select a slot modulo QueueNum; the device's own      *)
(* index is a machine word.  A chain of descriptors is its head, and the   *)
(* driver is the one the virtio protocol prescribes.                       *)
(***************************************************************************)
EXTENDS Integers, Sequences, FiniteSets

CONSTANTS QueueNum,   \* ring size that the driver wrote
          IdxMod,     \* 2^16: the rings' indices
          WordMod,    \* 2^XLEN: last_avail_idx
          Heads,      \* descriptor chains of the driver
          NumSectors, \* sector_storage_.size() in sectors
          Blocks,     \* contents of a sector or of a data buffer
          Requests,   \* the requests that the driver makes
          Kinds       \* the devices: "disk", "console"

ASSUME QueueAssumption ==
  /\ QueueNum \in Nat \ {0} /\ IdxMod \in Nat /\ WordMod \in Nat
  /\ \E k \in 1 .. IdxMod : IdxMod = k * QueueNum
  /\ \E k \in 1 .. WordMod : WordMod = k * IdxMod
  /\ IsFiniteSet(Heads) /\ Cardinality(Heads) <= QueueNum /\ Cardinality(Heads) < IdxMod
  /\ NumSectors \in Nat
  /\ Kinds \subseteq {"disk", "console"}

VARIABLES kind,             \* which device this is
          QueueReady,
          avail_ring, avail_idx, used_ring, used_idx,   \* guest memory
          chain,            \* guest memory: the chain's request, buffer and status
          last_avail_idx,   \* QueueState, a Word
          InterruptStatus,
          medium,           \* the disk's sectors, or the last character written
          stop_idx,         \* avail_idx as process_queue read it; -1: not running
          written,          \* Console::process_queue's flag
          last_used_idx,    \* the driver's position in the used ring
          inflight,         \* the chains that the driver has given to the device
          handling          \* the driver is between acknowledging and an empty ring

guestMem == <<avail_ring, avail_idx, used_ring, used_idx, chain>>
driver   == <<last_used_idx, inflight, handling>>
vqVars   == <<kind, QueueReady, guestMem, last_avail_idx, InterruptStatus, medium,
              stop_idx, written, driver>>

Slot(i) == i % QueueNum

Types    == {"In", "Out", "Flush", "GetId", "Other", "Write"}
Statuses == {"none", "ok", "ioerr", "unsupp"}
\* `sector' = NumSectors stands for a sector beyond the end, `footer' is FALSE for a
\* chain that ends before its status byte.
Request  == [type : Types, sector : 0 .. NumSectors, buf : Blocks \cup {"id"},
             footer : BOOLEAN, status : Statuses]

\* The disk's sectors; of the console's terminal, the last character.
Media(k) == [IF k = "disk" THEN 0 .. NumSectors - 1 ELSE {0} -> Blocks]

\* The requests that a device of kind k is meant for.
RequestsOf(k) == { r \in Requests : (r.type = "Write") <=> (k = "console") }

-----------------------------------------------------------------------------
(* Serving one chain.                                                      *)

InRange(r) == r.sector < NumSectors

\* The status and data that the device stores for request r.  Reads and writes take
\* their footer for granted; the others look for it. (A GetId whose header ends the chain
\* has no buffer either: nothing is stored, as for a Flush without footer.)
Served(r, m) ==
  CASE r.type = "In" /\ InRange(r)   -> [r EXCEPT !.buf = m[r.sector], !.status = "ok"]
    [] r.type = "Out" /\ InRange(r)  -> [r EXCEPT !.status = "ok"]
    [] r.type \in {"In", "Out"} /\ ~InRange(r) -> [r EXCEPT !.status = "ioerr"]
    [] r.type = "Flush" /\ r.footer  -> [r EXCEPT !.status = "ok"]
    [] r.type = "GetId"              -> [r EXCEPT !.buf = "id", !.status = IF r.footer THEN "ok" ELSE @]
    [] r.type = "Other" /\ r.footer  -> [r EXCEPT !.status = "unsupp"]
    [] OTHER                         -> r

After(r, m) ==
  CASE r.type = "Out" /\ InRange(r) -> [m EXCEPT ![r.sector] = r.buf]
    [] r.type = "Write"             -> [m EXCEPT ![0] = r.buf]
    [] OTHER                        -> m

\* Only the device puts its name into a buffer.
ASSUME RequestsAssumption == Requests \subseteq { r \in Request : r.buf \in Blocks }

-----------------------------------------------------------------------------
VqInit ==
  /\ kind \in Kinds
  /\ QueueReady = FALSE
  /\ avail_idx = 0 /\ used_idx = 0 /\ last_avail_idx = 0 /\ last_used_idx = 0
  /\ \E h \in Heads : /\ avail_ring = [s \in 0 .. QueueNum - 1 |-> h]
                      /\ used_ring = [s \in 0 .. QueueNum - 1 |-> h]
  /\ \E r \in RequestsOf(kind) : chain = [h \in Heads |-> r]
  /\ medium \in Media(kind)
  /\ InterruptStatus = FALSE
  /\ stop_idx = -1 /\ written = FALSE
  /\ inflight = {} /\ handling = FALSE

(* The driver, while the device is not in process_queue.                   *)

GuestRuns == stop_idx = -1

\* The driver's set-up ends with a write of QueueReady.
SetQueueReady ==
  /\ GuestRuns /\ ~QueueReady
  /\ QueueReady' = TRUE
  /\ UNCHANGED <<kind, guestMem, last_avail_idx, InterruptStatus, medium, stop_idx, written, driver>>

\* A chain goes into the available ring, and then the index moves.
Offer(h, r) ==
  /\ GuestRuns /\ QueueReady
  /\ h \notin inflight
  /\ inflight' = inflight \cup {h}
  /\ chain' = [chain EXCEPT ![h] = r]
  /\ avail_ring' = [avail_ring EXCEPT ![Slot(avail_idx)] = h]
  /\ avail_idx' = (avail_idx + 1) % IdxMod
  /\ UNCHANGED <<kind, QueueReady, used_ring, used_idx, last_avail_idx, InterruptStatus, medium,
                 stop_idx, written, last_used_idx, handling>>

\* The interrupt handler acknowledges what it saw and then empties the used ring.
InterruptACK ==
  /\ GuestRuns /\ InterruptStatus
  /\ InterruptStatus' = FALSE
  /\ handling' = TRUE
  /\ UNCHANGED <<kind, QueueReady, guestMem, last_avail_idx, medium, stop_idx, written,
                 last_used_idx, inflight>>

Harvest ==
  /\ GuestRuns /\ handling /\ last_used_idx # used_idx
  /\ inflight' = inflight \ {used_ring[Slot(last_used_idx)]}
  /\ last_used_idx' = (last_used_idx + 1) % IdxMod
  /\ UNCHANGED <<kind, QueueReady, guestMem, last_avail_idx, InterruptStatus, medium, stop_idx,
                 written, handling>>

EndHandling ==
  /\ GuestRuns /\ handling /\ last_used_idx = used_idx
  /\ handling' = FALSE
  /\ UNCHANGED <<kind, QueueReady, guestMem, last_avail_idx, InterruptStatus, medium, stop_idx,
                 written, last_used_idx, inflight>>

-----------------------------------------------------------------------------
(* The device.                                                             *)

\* A write of QueueNotify; a queue that is not ready is left alone.
QueueNotify ==
  /\ GuestRuns /\ QueueReady
  /\ stop_idx' = avail_idx
  /\ written' = FALSE
  /\ UNCHANGED <<kind, QueueReady, guestMem, last_avail_idx, InterruptStatus, medium, driver>>

\* Mutant: the console's loop is left after its first chain.
More_once == last_avail_idx % IdxMod # stop_idx /\ ~written

\* The loop's condition: the word is cut to the width of the ring's index.
More == last_avail_idx % IdxMod # stop_idx

next_avail_desc_idx == avail_ring[Slot(last_avail_idx)]

update_descriptor(h) ==
  /\ used_ring' = [used_ring EXCEPT ![Slot(used_idx)] = h]
  /\ used_idx' = (used_idx + 1) % IdxMod

\* Mutant: a write is acknowledged and not carried out.
process_chain_dropped ==
  /\ stop_idx # -1 /\ More
  /\ LET h == next_avail_desc_idx
     IN  /\ chain' = [chain EXCEPT ![h] = Served(@, medium)]
         /\ update_descriptor(h)
  /\ last_avail_idx' = (last_avail_idx + 1) % WordMod
  /\ written' = (written \/ kind = "console")
  /\ InterruptStatus' = (InterruptStatus \/ kind = "disk")
  /\ UNCHANGED <<kind, QueueReady, avail_ring, avail_idx, medium, stop_idx, driver>>

\* One iteration.  The disk interrupts for every chain, the console once at the end.
process_chain ==
  /\ stop_idx # -1 /\ More
  /\ LET h == next_avail_desc_idx
     IN  /\ chain' = [chain EXCEPT ![h] = Served(@, medium)]
         /\ medium' = After(chain[h], medium)
         /\ update_descriptor(h)
  /\ last_avail_idx' = (last_avail_idx + 1) % WordMod
  /\ written' = (written \/ kind = "console")
  /\ InterruptStatus' = (InterruptStatus \/ kind = "disk")
  /\ UNCHANGED <<kind, QueueReady, avail_ring, avail_idx, stop_idx, driver>>

\* Mutant: the flag of the console's loop is tested the wrong way round.
end_process_queue_unwritten ==
  /\ stop_idx # -1 /\ ~More
  /\ InterruptStatus' = (InterruptStatus \/ (kind = "console" /\ ~written))
  /\ stop_idx' = -1
  /\ written' = FALSE
  /\ UNCHANGED <<kind, QueueReady, guestMem, last_avail_idx, medium, driver>>

end_process_queue ==
  /\ stop_idx # -1 /\ ~More
  /\ InterruptStatus' = (InterruptStatus \/ written)
  /\ stop_idx' = -1
  /\ written' = FALSE
  /\ UNCHANGED <<kind, QueueReady, guestMem, last_avail_idx, medium, driver>>

process_queue == process_chain \/ end_process_queue

VqNext ==
  \/ SetQueueReady
  \/ \E h \in Heads, r \in RequestsOf(kind) : Offer(h, r)
  \/ QueueNotify \/ InterruptACK \/ Harvest \/ EndHandling
  \/ process_queue

VqSpec == VqInit /\ [][VqNext]_vqVars

-----------------------------------------------------------------------------
(* Properties.                                                             *)

\* Type invariant; the indices in guest memory stay within their 16 bits.
VqTypeOK ==
  /\ kind \in Kinds /\ QueueReady \in BOOLEAN
  /\ avail_ring \in [0 .. QueueNum - 1 -> Heads] /\ used_ring \in [0 .. QueueNum - 1 -> Heads]
  /\ {avail_idx, used_idx, last_used_idx} \subseteq 0 .. IdxMod - 1
  /\ chain \in [Heads -> Request] /\ medium \in Media(kind)
  /\ last_avail_idx \in 0 .. WordMod - 1
  /\ InterruptStatus \in BOOLEAN /\ written \in BOOLEAN /\ handling \in BOOLEAN
  /\ stop_idx \in -1 .. IdxMod - 1
  /\ inflight \subseteq Heads

\* The chains that wait in the available ring, and those in the used ring that the
\* driver has not yet taken, oldest first.
Pending == [i \in 1 .. (avail_idx - last_avail_idx) % IdxMod |-> avail_ring[Slot(last_avail_idx + i - 1)]]
Done    == [i \in 1 .. (used_idx - last_used_idx) % IdxMod |-> used_ring[Slot(last_used_idx + i - 1)]]

\* A completion that the driver has not seen has an interrupt on its way or a handler
\* at work, once the notification returns.
NoLostCompletion ==
  GuestRuns /\ used_idx # last_used_idx => InterruptStatus \/ handling

\* A notification returns, with nothing left to serve.
NotifyReturns == [](stop_idx # -1 => <>(GuestRuns /\ Pending = <<>>))

Abstract == INSTANCE BlockDevice WITH pending <- Pending, done <- Done,
                                      Contents <- Media("disk") \cup Media("console")

\* The rings, with their wrapping indices, implement the sequential device: chains are
\* served in the order of submission, each once, on the medium as the last one left it,
\* and handed back in that order.
InOrderOnce == Abstract!AbsSpec
=============================================================================
