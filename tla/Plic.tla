-------------------------------- MODULE Plic --------------------------------
(***************************************************************************)
(* The platform-level interrupt controller (PlicMmio, InterruptController) *)
(* with the devices that drive its lines: the virtio devices and the RTC,  *)
(* which call setIrq in the step that changes their level, and the UART,   *)
(* whose level is also changed by host threads that must not touch the     *)
(* PLIC.  The RTC drives the same line as the UART (kRtcIrq and            *)
(* D_UART_IRQ_NUM are both 3).                                             *)
(***************************************************************************)
EXTENDS Mip, Integers

CONSTANTS VirtioIrqs,   \* lines of virtio devices (console 1, disk 2)
          UartIrqs,     \* the line of the UART (3)
          RtcIrqs,      \* the line of the RTC (3 as well)
          MaxPriority   \* bound of the priorities and thresholds written

Irqs       == VirtioIrqs \cup UartIrqs \cup RtcIrqs
Contexts   == 0 .. 1    \* 0 is M-mode, 1 is S-mode
Priorities == 0 .. MaxPriority

ASSUME IrqsAssumption     == Irqs \subseteq 1 .. 31
\* A virtio device shares its line with no other device.
ASSUME LinesAssumption    == VirtioIrqs \cap (UartIrqs \cup RtcIrqs) = {}
ASSUME PriorityAssumption == MaxPriority \in Nat

VARIABLES plic_pending,     \* SUBSET Irqs
          plic_priorities,  \* [Irqs -> Priorities]
          plic_enables,     \* [Contexts -> SUBSET Irqs]
          plic_threshold,   \* [Contexts -> Priorities]
          plic_claim,       \* [Contexts -> Irqs \cup {0}]
          asserted,         \* the irqs whose device wants service: InterruptStatus # 0
                            \* or Uart::is_interrupt_pending()
          alarm,            \* RtcIrqs if Rtc::alarm_status_ is true, else {}
          displaced         \* history: asserted irqs whose claim was overwritten by a
                            \* later claim of the same context

plicRegs == <<plic_priorities, plic_enables, plic_threshold>>
plicVars == <<plic_pending, plicRegs, plic_claim, asserted, alarm, displaced>>

PlicTypeOK ==
  /\ plic_pending \subseteq Irqs
  /\ plic_priorities \in [Irqs -> Priorities]
  /\ plic_enables \in [Contexts -> SUBSET Irqs]
  /\ plic_threshold \in [Contexts -> Priorities]
  /\ plic_claim \in [Contexts -> Irqs \cup {0}]
  /\ asserted \subseteq VirtioIrqs \cup UartIrqs
  /\ alarm \subseteq RtcIrqs
  /\ displaced \subseteq Irqs

\* PlicMmio::reset; the devices start idle.
PlicInit ==
  /\ plic_pending = {}
  /\ plic_priorities = [i \in Irqs |-> 0]
  /\ plic_enables = [c \in Contexts |-> {}]
  /\ plic_threshold = [c \in Contexts |-> 0]
  /\ plic_claim = [c \in Contexts |-> 0]
  /\ asserted = {}
  /\ alarm = {}
  /\ displaced = {}

---------------------------------------------------------------------------
\* The irqs that context c may be given: pending, enabled, above the threshold.
Eligible(c, pend, prio, en, thr) ==
  { i \in pend \cap en[c] : prio[i] > thr[c] }

\* InterruptController::updateMip over the registers' next values: the largest
\* priority of a pending enabled irq exceeds the threshold iff some irq is
\* eligible.
updateMip(pend, prio, en, thr) ==
  LET m_ext == Eligible(0, pend, prio, en, thr) # {}
      s_ext == Eligible(1, pend, prio, en, thr) # {}
      l     == Set(latch, "seip_external", s_ext)
  IN  /\ latch' = l
      /\ mip' = refresh_supervisor_pending(Set(mip, "MEIP", m_ext), l)

\* InterruptController::setIrq, for an irq in 1..31.
setIrq(i, level) ==
  LET pend == IF level THEN plic_pending \cup {i} ELSE plic_pending \ {i}
  IN  /\ plic_pending' = pend
      /\ updateMip(pend, plic_priorities, plic_enables, plic_threshold)
      /\ UNCHANGED plicRegs

\* The claim loop of PlicMmio::mmio_read ends with claim_id = id: the highest
\* priority, the lowest id among equals.
is_claim_id(c, id) ==
  LET el == Eligible(c, plic_pending, plic_priorities, plic_enables, plic_threshold)
  IN  /\ id \in el
      /\ \A j \in el : \/ plic_priorities[j] < plic_priorities[id]
                       \/ plic_priorities[j] = plic_priorities[id] /\ id <= j
---------------------------------------------------------------------------
(* Devices. *)

\* VirtioDevice::trigger_interrupt.
trigger_interrupt(i) ==
  /\ i \in VirtioIrqs
  /\ asserted' = asserted \cup {i}
  /\ displaced' = displaced \ {i}
  /\ setIrq(i, TRUE)
  /\ UNCHANGED <<plic_claim, alarm>>

\* VirtioDevice::mmio_write InterruptACK: `all' is a write that clears the
\* last status bit.
virtio_InterruptACK(i, all) ==
  /\ i \in VirtioIrqs
  /\ asserted' = IF all THEN asserted \ {i} ELSE asserted
  /\ displaced' = displaced \ {i}
  /\ setIrq(i, i \in asserted')
  /\ UNCHANGED <<plic_claim, alarm>>

\* Rtc::evaluate_alarm, when an enabled alarm's time has come at an access of
\* an RTC register.
evaluate_alarm(i) ==
  /\ i \in RtcIrqs \ alarm
  /\ alarm' = alarm \cup {i}
  /\ setIrq(i, TRUE)
  /\ UNCHANGED <<plic_claim, asserted, displaced>>

\* Rtc::handle_request, CLEAR_ALARM and CLEAR_INTERRUPT.
CLEAR_INTERRUPT(i) ==
  /\ i \in RtcIrqs
  /\ alarm' = alarm \ {i}
  /\ setIrq(i, FALSE)
  /\ UNCHANGED <<plic_claim, asserted, displaced>>

\* The guest reads or writes a UART register, or the simulation thread polls:
\* uart_update_irq recomputes the line.  `on' is the level after the access.
uart_update_irq(i, on) ==
  /\ i \in UartIrqs
  /\ asserted' = Set(asserted, i, on)
  /\ displaced' = displaced \ {i}
  /\ setIrq(i, on)
  /\ UNCHANGED <<plic_claim, alarm>>

\* A host thread pushes a byte into the receive FIFO: the level may rise, the
\* PLIC is not told.
uart_push_rx_byte(i) ==
  /\ i \in UartIrqs
  /\ asserted' = asserted \cup {i}
  /\ UNCHANGED <<plic_pending, plicRegs, plic_claim, alarm, displaced, mipVars>>
---------------------------------------------------------------------------
(* The guest's accesses to the PLIC registers. *)

PlicWriteReg(prio, en, thr) ==
  /\ plic_priorities' = prio
  /\ plic_enables' = en
  /\ plic_threshold' = thr
  /\ updateMip(plic_pending, prio, en, thr)
  /\ UNCHANGED <<plic_pending, plic_claim, asserted, alarm, displaced>>

WritePriority(i, p) ==
  PlicWriteReg([plic_priorities EXCEPT ![i] = p], plic_enables, plic_threshold)

WriteEnables(c, S) ==
  PlicWriteReg(plic_priorities, [plic_enables EXCEPT ![c] = S], plic_threshold)

WriteThreshold(c, t) ==
  PlicWriteReg(plic_priorities, plic_enables, [plic_threshold EXCEPT ![c] = t])

\* Mutant: the claim clears pending without re-evaluating mip.
Claim_stale(c, id) ==
  /\ is_claim_id(c, id)
  /\ plic_pending' = plic_pending \ {id}
  /\ plic_claim' = [plic_claim EXCEPT ![c] = id]
  /\ displaced' = (displaced \cup ({plic_claim[c]} \cap asserted)) \ {id}
  /\ UNCHANGED <<plicRegs, asserted, alarm, mipVars>>

\* mmio_read of the claim register.  When nothing is eligible it returns 0 and
\* changes nothing.
Claim(c, id) ==
  /\ is_claim_id(c, id)
  /\ plic_pending' = plic_pending \ {id}
  /\ plic_claim' = [plic_claim EXCEPT ![c] = id]
  /\ displaced' = (displaced \cup ({plic_claim[c]} \cap asserted)) \ {id}
  /\ updateMip(plic_pending', plic_priorities, plic_enables, plic_threshold)
  /\ UNCHANGED <<plicRegs, asserted, alarm>>

\* Mutant: completion never looks at the device again.
StillAsserted_never(w) == FALSE

\* Whether complete looks at the device behind irq w and finds it asserted.
StillAsserted(w) == w \in asserted \cap (VirtioIrqs \cup UartIrqs)

\* mmio_write of the claim register: a write that does not match the context's
\* claim only re-evaluates mip.
Complete(c, w) ==
  LET match == plic_claim[c] = w /\ w # 0
      raise == match /\ StillAsserted(w)
      pend  == IF raise THEN plic_pending \cup {w} ELSE plic_pending
  IN  /\ plic_claim' = IF match THEN [plic_claim EXCEPT ![c] = 0] ELSE plic_claim
      /\ plic_pending' = pend
      /\ displaced' = IF raise THEN displaced \ {w} ELSE displaced
      /\ updateMip(pend, plic_priorities, plic_enables, plic_threshold)
      /\ UNCHANGED <<plicRegs, asserted, alarm>>

PlicNext ==
  \/ \E i \in Irqs :
       \/ trigger_interrupt(i)
       \/ \E all \in BOOLEAN : virtio_InterruptACK(i, all)
       \/ evaluate_alarm(i)
       \/ CLEAR_INTERRUPT(i)
       \/ \E on \in BOOLEAN : uart_update_irq(i, on)
       \/ uart_push_rx_byte(i)
       \/ \E p \in Priorities : WritePriority(i, p)
  \/ \E c \in Contexts :
       \/ \E S \in SUBSET Irqs : WriteEnables(c, S)
       \/ \E t \in Priorities : WriteThreshold(c, t)
       \/ \E id \in Irqs : Claim(c, id)
       \/ \E w \in Irqs \cup {0} : Complete(c, w)

PlicAlone == MipInit /\ PlicInit

PlicSpec ==
  /\ PlicAlone
  /\ [][PlicNext \/ (MipNext /\ UNCHANGED plicVars)]_<<plicVars, mipVars>>

---------------------------------------------------------------------------
(* Properties. *)

\* MEIP and the external component of SEIP are exactly the PLIC's current
\* answer for the two contexts: no register write, claim, completion, device
\* event or CSR write leaves a stale external interrupt behind, and none is
\* missed (updateMip after every change of the PLIC's state).
ExternalPending ==
  LET el(c) == Eligible(c, plic_pending, plic_priorities, plic_enables, plic_threshold)
  IN  /\ "MEIP" \in mip <=> el(0) # {}
      /\ "seip_external" \in latch <=> el(1) # {}

\* No interrupt of a virtio device is lost: while its InterruptStatus is not
\* zero, its line is pending, or claimed and so re-raised by the completion; the
\* one exception is a claim that a later claim of the same context overwrote,
\* because plic_claim remembers one id per context.
LineAccounted ==
  \A i \in VirtioIrqs \cap asserted :
    i \in plic_pending \/ i \in displaced \/ \E c \in Contexts : plic_claim[c] = i
=============================================================================
