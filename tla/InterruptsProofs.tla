-------------------------- MODULE InterruptsProofs --------------------------
(***************************************************************************)
(* Interrupts as they are signalled and as they are taken: the consistency *)
(* of mip with its sources, for every set of irqs, every priority range,   *)
(* every register width and clock divider; and the legality of privilege   *)
(* and of delivery and the confinement of supervisor software, for every   *)
(* misa profile, every operand of a CSR write and every set of lines.      *)
(***************************************************************************)
EXTENDS Interrupts, Trap, Arithmetic, TLAPS

\* What the external, supervisor and timer parts of the invariant need to know
\* of one another is only the type of mip and of the latches.
IInv == TypeOK /\ SignalsConsistent

---------------------------------------------------------------------------
(* The three ways in which mip and the latches are written. *)

\* A CSR write of mip changes SSIP and the software latches only.
LEMMA WriteMipFact ==
  ASSUME MipTypeOK, NEW w \in SUBSET Bits, write_mip(w)
  PROVE  /\ MipTypeOK' /\ SupervisorPending'
         /\ \A y \in MBits : y \in mip' <=> y \in mip
         /\ \A y \in {"seip_external", "stip_timer"} : y \in latch' <=> y \in latch
<1> USE DEF write_mip, MipTypeOK, Bits, SBits, MBits, Latches, mip_writable
<1>1. latch' \subseteq Latches
  BY DEF Set
<1>2. mip' \subseteq Bits
  BY DEF refresh_supervisor_pending
<1>3. SupervisorPending'
  BY DEF refresh_supervisor_pending, SupervisorPending
<1>4. \A y \in MBits : y \in mip' <=> y \in mip
  BY DEF refresh_supervisor_pending
<1>5. \A y \in {"seip_external", "stip_timer"} : y \in latch' <=> y \in latch
  BY DEF Set
<1> QED BY <1>1, <1>2, <1>3, <1>4, <1>5

\* updateMip sets MEIP and seip_external and leaves the timer's part alone.
LEMMA UpdateMipFact ==
  ASSUME MipTypeOK, NEW pend, NEW prio, NEW en, NEW thr,
         updateMip(pend, prio, en, thr)
  PROVE  /\ MipTypeOK' /\ SupervisorPending'
         /\ "MEIP" \in mip' <=> Eligible(0, pend, prio, en, thr) # {}
         /\ "seip_external" \in latch' <=> Eligible(1, pend, prio, en, thr) # {}
         /\ "MTIP" \in mip' <=> "MTIP" \in mip
         /\ "stip_timer" \in latch' <=> "stip_timer" \in latch
<1> DEFINE m_ext == Eligible(0, pend, prio, en, thr) # {}
           s_ext == Eligible(1, pend, prio, en, thr) # {}
<1>1. /\ latch' = Set(latch, "seip_external", s_ext)
      /\ mip' = refresh_supervisor_pending(Set(mip, "MEIP", m_ext), latch')
  BY DEF updateMip
<1> HIDE DEF m_ext, s_ext
<1> USE DEF MipTypeOK, Bits, SBits, MBits, Latches
<1>2. MipTypeOK'
  BY <1>1 DEF Set, refresh_supervisor_pending
<1>3. SupervisorPending'
  BY <1>1 DEF refresh_supervisor_pending, SupervisorPending
<1>4. "MEIP" \in mip' <=> m_ext
  BY <1>1 DEF Set, refresh_supervisor_pending
<1>5. "seip_external" \in latch' <=> s_ext
  BY <1>1 DEF Set
<1>6. "MTIP" \in mip' <=> "MTIP" \in mip
  BY <1>1 DEF Set, refresh_supervisor_pending
<1>7. "stip_timer" \in latch' <=> "stip_timer" \in latch
  BY <1>1 DEF Set
<1> QED BY <1>2, <1>3, <1>4, <1>5, <1>6, <1>7 DEF m_ext, s_ext

\* evaluate_timer_interrupt sets MTIP and stip_timer and leaves the external
\* part alone.
LEMMA EvaluateFact ==
  ASSUME MipTypeOK, NEW time, NEW cmp, NEW sup \in BOOLEAN,
         evaluate_timer_interrupt(time, cmp, sup)
  PROVE  /\ MipTypeOK' /\ SupervisorPending'
         /\ "MTIP" \in mip' <=> ~sup /\ time >= cmp
         /\ "stip_timer" \in latch' <=> sup /\ time >= cmp
         /\ "MEIP" \in mip' <=> "MEIP" \in mip
         /\ "seip_external" \in latch' <=> "seip_external" \in latch
<1> DEFINE m == ~sup /\ time >= cmp
           s == sup /\ time >= cmp
<1>1. /\ latch' = Set(latch, "stip_timer", s)
      /\ mip' = refresh_supervisor_pending(Set(mip, "MTIP", m), latch')
  BY DEF evaluate_timer_interrupt
<1> HIDE DEF m, s
<1> USE DEF MipTypeOK, Bits, SBits, MBits, Latches
<1>2. MipTypeOK'
  BY <1>1 DEF Set, refresh_supervisor_pending
<1>3. SupervisorPending'
  BY <1>1 DEF refresh_supervisor_pending, SupervisorPending
<1>4. "MTIP" \in mip' <=> m
  BY <1>1 DEF Set, refresh_supervisor_pending
<1>5. "stip_timer" \in latch' <=> s
  BY <1>1 DEF Set
<1>6. "MEIP" \in mip' <=> "MEIP" \in mip
  BY <1>1 DEF Set, refresh_supervisor_pending
<1>7. "seip_external" \in latch' <=> "seip_external" \in latch
  BY <1>1 DEF Set
<1> QED BY <1>2, <1>3, <1>4, <1>5, <1>6, <1>7 DEF m, s
---------------------------------------------------------------------------
(* The three groups of actions. *)

\* CSR writes of mip and the SBI's send_ipi keep every signal at its source.
LEMMA MipStep ==
  ASSUME IInv, MipNext, UNCHANGED <<plicVars, clintVars>>
  PROVE  IInv'
<1> USE DEF IInv, TypeOK
<1>1. PlicTypeOK' /\ ClintTypeOK'
  BY DEF plicVars, plicRegs, clintVars, clock, batch, PlicTypeOK, ClintTypeOK
<1>2. /\ MipTypeOK' /\ SupervisorPending'
      /\ \A y \in MBits : y \in mip' <=> y \in mip
      /\ \A y \in {"seip_external", "stip_timer"} : y \in latch' <=> y \in latch
  <2>1. CASE \E w \in SUBSET Bits : write_mip(w)
    BY <2>1, WriteMipFact
  <2>2. CASE send_ipi
    BY <2>2 DEF send_ipi, MipTypeOK, Bits, SBits, MBits, Latches,
                SignalsConsistent, SupervisorPending
  <2>3. ASSUME NEW rs \in MipWrites, CsrrwMip(rs) \/ CsrrsMip(rs) \/ CsrrcMip(rs)
        PROVE  \E w \in SUBSET Bits : write_mip(w)
    <3>1. rs \in SUBSET Bits
      BY MipAssumption
    <3>2. mip_rmw_base \in SUBSET Bits
      BY DEF mip_rmw_base, MipTypeOK, Bits, SBits, MBits, interrupt_implemented
    <3> QED BY <2>3, <3>1, <3>2 DEF CsrrwMip, CsrrsMip, CsrrcMip
  <2>4. ASSUME NEW w \in MipWrites, write_sip({"SSIP"}, w)
        PROVE  /\ MipTypeOK' /\ SupervisorPending'
               /\ \A y \in MBits : y \in mip' <=> y \in mip
               /\ \A y \in {"seip_external", "stip_timer"} : y \in latch' <=> y \in latch
    BY <2>4 DEF write_sip, MipTypeOK, Bits, SBits, MBits, Latches, SignalsConsistent, SupervisorPending
  <2> QED BY <2>1, <2>2, <2>3, <2>4 DEF MipNext
<1>3. ExternalPending'
  BY <1>2 DEF SignalsConsistent, ExternalPending, plicVars, plicRegs, MBits, Eligible
<1>4. TimerPending'
  BY <1>2 DEF SignalsConsistent, TimerPending, clintVars, clock, MBits
<1> QED BY <1>1, <1>2, <1>3, <1>4 DEF SignalsConsistent

\* Every step of the PLIC that ends in updateMip re-establishes the signals.
LEMMA UpdateMipStep ==
  ASSUME IInv, PlicTypeOK',
         updateMip(plic_pending', plic_priorities', plic_enables', plic_threshold'),
         UNCHANGED clintVars
  PROVE  IInv'
<1> USE DEF IInv, TypeOK
<1>1. ClintTypeOK'
  BY DEF clintVars, clock, batch, ClintTypeOK
<1>2. MipTypeOK' /\ SupervisorPending' /\ ExternalPending'
  BY UpdateMipFact DEF ExternalPending
<1>3. TimerPending'
  BY UpdateMipFact DEF SignalsConsistent, TimerPending, clintVars, clock
<1> QED BY <1>1, <1>2, <1>3 DEF SignalsConsistent

\* Device events and guest accesses of the PLIC.
LEMMA PlicStep ==
  ASSUME IInv, PlicNext, UNCHANGED clintVars
  PROVE  IInv'
<1> USE DEF IInv, TypeOK
<1> DEFINE updated ==
      updateMip(plic_pending', plic_priorities', plic_enables', plic_threshold')
<1>1. ASSUME NEW i \in Irqs, trigger_interrupt(i)
      PROVE  PlicTypeOK' /\ updated
  BY <1>1 DEF trigger_interrupt, setIrq, plicRegs, PlicTypeOK
<1>2. ASSUME NEW i \in Irqs, NEW all \in BOOLEAN, virtio_InterruptACK(i, all)
      PROVE  PlicTypeOK' /\ updated
  BY <1>2 DEF virtio_InterruptACK, setIrq, plicRegs, PlicTypeOK
<1>3. ASSUME NEW i \in Irqs, NEW on \in BOOLEAN, uart_update_irq(i, on)
      PROVE  PlicTypeOK' /\ updated
  BY <1>3 DEF uart_update_irq, setIrq, Set, plicRegs, PlicTypeOK
<1>4. ASSUME NEW i \in Irqs, uart_push_rx_byte(i)
      PROVE  IInv'
  BY <1>4 DEF uart_push_rx_byte, plicRegs, mipVars, clintVars, clock, batch, PlicTypeOK,
              ClintTypeOK, MipTypeOK, SignalsConsistent, ExternalPending,
              SupervisorPending, TimerPending, Eligible
<1>11. ASSUME NEW i \in Irqs, evaluate_alarm(i)
      PROVE  PlicTypeOK' /\ updated
  BY <1>11 DEF evaluate_alarm, setIrq, plicRegs, PlicTypeOK
<1>12. ASSUME NEW i \in Irqs, CLEAR_INTERRUPT(i)
      PROVE  PlicTypeOK' /\ updated
  BY <1>12 DEF CLEAR_INTERRUPT, setIrq, plicRegs, PlicTypeOK
<1>5. ASSUME NEW i \in Irqs, NEW p \in Priorities, WritePriority(i, p)
      PROVE  PlicTypeOK' /\ updated
  BY <1>5 DEF WritePriority, PlicWriteReg, PlicTypeOK
<1>6. ASSUME NEW c \in Contexts, NEW on \in SUBSET Irqs, WriteEnables(c, on)
      PROVE  PlicTypeOK' /\ updated
  BY <1>6 DEF WriteEnables, PlicWriteReg, PlicTypeOK
<1>7. ASSUME NEW c \in Contexts, NEW t \in Priorities, WriteThreshold(c, t)
      PROVE  PlicTypeOK' /\ updated
  BY <1>7 DEF WriteThreshold, PlicWriteReg, PlicTypeOK
<1>8. ASSUME NEW c \in Contexts, NEW id \in Irqs, Claim(c, id)
      PROVE  PlicTypeOK' /\ updated
  BY <1>8 DEF Claim, plicRegs, PlicTypeOK, Irqs
<1>9. ASSUME NEW c \in Contexts, NEW w \in Irqs \cup {0}, Complete(c, w)
      PROVE  PlicTypeOK' /\ updated
  BY <1>9 DEF Complete, StillAsserted, plicRegs, PlicTypeOK
<1> HIDE DEF updated
<1>10. PlicTypeOK' /\ updated => IInv'
  BY UpdateMipStep DEF updated
<1> QED BY <1>1, <1>2, <1>3, <1>4, <1>5, <1>6, <1>7, <1>8, <1>9, <1>10, <1>11, <1>12
        DEF PlicNext

\* Every step of the CLINT that evaluates the comparator on its new registers
\* re-establishes the signals.
LEMMA EvaluateStep ==
  ASSUME IInv, ClintTypeOK',
         evaluate_timer_interrupt(mtime', mtimecmp', supervisor_timer'),
         UNCHANGED plicVars
  PROVE  IInv'
<1> USE DEF IInv, TypeOK
<1>1. PlicTypeOK'
  BY DEF plicVars, plicRegs, PlicTypeOK
<1>2. supervisor_timer' \in BOOLEAN
  BY DEF ClintTypeOK
<1>3. MipTypeOK' /\ SupervisorPending' /\ TimerPending'
  BY <1>2, EvaluateFact DEF TimerPending
<1>4. ExternalPending'
  BY <1>2, EvaluateFact DEF SignalsConsistent, ExternalPending, plicVars, plicRegs, Eligible
<1> QED BY <1>1, <1>3, <1>4 DEF SignalsConsistent

\* A step that moves neither mtime nor the comparator, nor mip.
LEMMA QuietStep ==
  ASSUME IInv, ClintTypeOK', UNCHANGED <<mtime, mtimecmp, supervisor_timer, mipVars, plicVars>>
  PROVE  IInv'
BY DEF IInv, TypeOK, plicVars, plicRegs, mipVars, PlicTypeOK, MipTypeOK, SignalsConsistent,
       ExternalPending, SupervisorPending, TimerPending, Eligible

\* The arithmetic of the halves and of the divider stays in range.
LEMMA RangeFact ==
  /\ Range64 \in Nat /\ Range64 >= 2
  /\ \A n \in Int : n % Range64 \in Times
  /\ \A v \in Times : v % Range64 = v
  /\ \A v \in Times, x \in 0 .. Half - 1 : WithLo(v, x) \in Times /\ WithHi(v, x) \in Times
<1> USE ClintAssumption
<1>1. Range64 \in Nat /\ Range64 >= 2
  BY Z3 DEF Range64
<1>2. \A n \in Int : n % Range64 \in Times
  <2> SUFFICES ASSUME NEW r \in Nat, r >= 2 PROVE \A n \in Int : n % r \in 0 .. r - 1
    BY <1>1 DEF Times
  <2> QED OBVIOUS
<1>5. \A v \in Times : v % Range64 = v
  <2> SUFFICES ASSUME NEW r \in Nat, r >= 2 PROVE \A v \in 0 .. r - 1 : v % r = v
    BY <1>1 DEF Times
  <2> QED BY Z3
<1>3. ASSUME NEW a \in 0 .. Half - 1, NEW b \in 0 .. Half - 1
      PROVE  a * Half + b \in Times
  <2>1. a * Half <= (Half - 1) * Half /\ a * Half \in Nat
    BY Z3
  <2>2. (Half - 1) * Half = Half * Half - Half
    BY Z3
  <2>3. Half * Half \in Nat
    BY Z3
  <2> QED BY <2>1, <2>2, <2>3 DEF Times, Range64
<1>4. ASSUME NEW v \in Times
      PROVE  lo(v) \in 0 .. Half - 1 /\ hi(v) \in 0 .. Half - 1
  <2>1. lo(v) \in 0 .. Half - 1
    BY DEF lo, Times
  <2>2. v \in Nat /\ v < Half * Half
    BY <1>1 DEF Times, Range64
  <2>3. v \div Half \in Nat /\ v \div Half < Half
    BY <2>2, Z3
  <2> QED BY <2>1, <2>3 DEF hi
<1> QED BY <1>1, <1>2, <1>3, <1>4, <1>5 DEF WithLo, WithHi

\* n more cycles.
LEMMA AdvanceStep ==
  ASSUME IInv, NEW n \in Nat, Advance(n), UNCHANGED plicVars,
         iter' \in 0 .. BatchSize, cached_ops' \in 0 .. iter'
  PROVE  IInv'
<1> USE DEF IInv, TypeOK
<1> DEFINE d == rtc_divider + n
<1>1. d \in Nat /\ d \div Divider \in Nat /\ d % Divider \in 0 .. Divider - 1
      /\ (d < Divider => d \div Divider = 0)
  BY ClintAssumption DEF ClintTypeOK
<1>2. /\ rtc_divider' = d % Divider
      /\ mtime' = (mtime + d \div Divider) % Range64
      /\ mcycle' = (mcycle + n) % Range64
      /\ UNCHANGED <<mtimecmp, supervisor_timer, mode, skew>>
  BY DEF Advance
<1>3. mtime \in Int /\ mcycle \in Int
  BY DEF ClintTypeOK, Times
<1>4. ClintTypeOK'
  <2>1. mtime' \in Times
    <3>1. mtime + d \div Divider \in Int
      BY <1>1, <1>3
    <3> QED BY <1>2, <3>1, RangeFact
  <2>2. mcycle' \in Times
    <3>1. mcycle + n \in Int
      BY <1>3
    <3> QED BY <1>2, <3>1, RangeFact
  <2> QED BY <1>1, <1>2, <2>1, <2>2 DEF ClintTypeOK
<1>5. CASE d >= Divider
  BY <1>2, <1>4, <1>5, EvaluateStep DEF Advance
<1>6. CASE ~(d >= Divider)
  <2>1. d \div Divider = 0
    BY <1>1, <1>6, ClintAssumption
  <2>2. mtime' = mtime
    <3>1. mtime' = mtime % Range64
      BY <1>2, <1>3, <2>1
    <3> QED BY <3>1, RangeFact DEF ClintTypeOK
  <2>3. UNCHANGED mipVars
    BY <1>6 DEF Advance
  <2> QED BY <1>2, <1>4, <2>2, <2>3, QuietStep
<1> QED BY <1>5, <1>6

\* Guest accesses of the CLINT, set_timer, and the clock.
LEMMA ClintStep ==
  ASSUME IInv, ClintNext, UNCHANGED plicVars
  PROVE  IInv'
<1> USE DEF IInv, TypeOK
<1>1. ASSUME NEW v \in Times, write_mtimecmp(v) PROVE IInv'
  <2>1. ClintTypeOK'
    BY <1>1 DEF write_mtimecmp, ClintTypeOK, clock, batch
  <2> QED BY <1>1, <2>1, EvaluateStep DEF write_mtimecmp, clock
<1>2. ASSUME NEW v \in Times, write_mtime(v) PROVE IInv'
  <2>1. NewSkew(v, rtc_divider, mcycle) \in Times
    BY RangeFact, ClintAssumption DEF NewSkew, ClintTypeOK, Times
  <2>2. ClintTypeOK'
    BY <1>2, <2>1 DEF write_mtime, ClintTypeOK, batch
  <2> QED BY <1>2, <2>2, EvaluateStep DEF write_mtime
<1>3. ASSUME WriteTimer PROVE IInv'
  <2>1. mtime \in Times /\ mtimecmp \in Times
    BY DEF ClintTypeOK
  <2> QED BY <1>1, <1>2, <1>3, <2>1, RangeFact DEF WriteTimer
<1>4. ASSUME NEW on \in BOOLEAN, write_msip(on) PROVE IInv'
  <2>1. /\ MipTypeOK'
        /\ \A y : y # "MSIP" => (y \in mip' <=> y \in mip)
    BY <1>4 DEF write_msip, Set, MipTypeOK, Bits, MBits
  <2> QED
    BY <1>4, <2>1 DEF write_msip, clintVars, clock, batch, plicVars, plicRegs, PlicTypeOK,
       ClintTypeOK, SignalsConsistent, ExternalPending, SupervisorPending, TimerPending, Eligible
<1>5. ASSUME NEW v \in Times, write_mcycle(v) PROVE IInv'
  <2>1. NewSkew(mtime, rtc_divider, v) \in Times
    BY RangeFact, ClintAssumption DEF NewSkew, ClintTypeOK, Times
  <2>2. ClintTypeOK'
    BY <1>5, <2>1 DEF write_mcycle, ClintTypeOK, batch
  <2> QED BY <1>5, <2>2, QuietStep DEF write_mcycle
<1>6. ASSUME NEW v \in Times, set_timer(v) PROVE IInv'
  <2>1. ClintTypeOK'
    BY <1>6 DEF set_timer, ClintTypeOK, clock, batch
  <2> QED BY <1>6, <2>1, EvaluateStep DEF set_timer, clock
<1>7. ASSUME NEW n \in 1 .. MaxStep, RunCycleAccurate(n) PROVE IInv'
  BY <1>7, AdvanceStep, ClintAssumption DEF RunCycleAccurate, batch, ClintTypeOK
<1>8. ASSUME RunCycle PROVE IInv'
  BY <1>8, AdvanceStep, ClintAssumption DEF RunCycle, batch, ClintTypeOK
<1>9. ASSUME CachedOp PROVE IInv'
  <2>1. ClintTypeOK'
    BY <1>9, ClintAssumption DEF CachedOp, ClintTypeOK, clock
  <2> QED BY <1>9, <2>1, QuietStep DEF CachedOp, clock
<1>10. ASSUME BatchEnd PROVE IInv'
  BY <1>10, AdvanceStep, ClintAssumption DEF BatchEnd, ClintTypeOK
<1> QED
  BY <1>3, <1>4, <1>5, <1>6, <1>7, <1>8, <1>9, <1>10 DEF ClintNext, Clock

---------------------------------------------------------------------------
\* In every reachable state of the hart's interrupt sources every variable has
\* its type and every bit of mip that software may not write shows its source:
\* MEIP and SEIP the PLIC's current answer, MTIP and STIP the comparator's.
THEOREM Consistency == Spec => [](TypeOK /\ SignalsConsistent)
<1>1. Init => IInv
  <2> SUFFICES ASSUME Init PROVE IInv
    OBVIOUS
  <2> USE DEF Init, MipInit, PlicInit, ClintInit
  <2>1. MipTypeOK
    BY DEF MipTypeOK
  <2>2. PlicTypeOK
    BY PriorityAssumption DEF PlicTypeOK, Contexts, Priorities
  <2>3. ClintTypeOK
    <3>1. 1 \in Times /\ Range64 - 1 \in Times /\ (Divider - 1) % Range64 \in Times
      BY RangeFact, ClintAssumption DEF Times
    <3>2. 0 \in 0 .. Divider - 1 /\ 0 \in 0 .. BatchSize /\ 0 \in 0 .. 0
      BY ClintAssumption
    <3> QED BY <3>1, <3>2 DEF ClintTypeOK
  <2>4. ExternalPending /\ SupervisorPending
    BY DEF ExternalPending, SupervisorPending, Eligible
  <2>5. TimerPending
    BY RangeFact, ClintAssumption, Z3 DEF TimerPending, Range64
  <2> QED BY <2>1, <2>2, <2>3, <2>4, <2>5 DEF IInv, TypeOK, SignalsConsistent
<1>2. IInv /\ [Next]_vars => IInv'
  <2> SUFFICES ASSUME IInv, [Next]_vars PROVE IInv'
    OBVIOUS
  <2>1. CASE UNCHANGED vars
    BY <2>1 DEF IInv, vars, TypeOK, plicVars, plicRegs, clintVars, clock, batch, mipVars,
       PlicTypeOK, ClintTypeOK, MipTypeOK, SignalsConsistent, ExternalPending,
       SupervisorPending, TimerPending, Eligible
  <2> QED BY <2>1, MipStep, PlicStep, ClintStep DEF Next
<1>3. QED BY <1>1, <1>2, PTL DEF Spec, IInv

---------------------------------------------------------------------------
\* A step of the PLIC accounts for every virtio line that is still asserted.
LEMMA AccountedStep ==
  ASSUME PlicTypeOK, LineAccounted, PlicNext
  PROVE  LineAccounted'
<1> USE DEF LineAccounted, PlicTypeOK
<1>1. ASSUME NEW i \in Irqs, trigger_interrupt(i) PROVE LineAccounted'
  BY <1>1 DEF trigger_interrupt, setIrq
<1>2. ASSUME NEW i \in Irqs, NEW all \in BOOLEAN, virtio_InterruptACK(i, all) PROVE LineAccounted'
  BY <1>2 DEF virtio_InterruptACK, setIrq
<1>3. ASSUME NEW i \in Irqs, NEW on \in BOOLEAN, uart_update_irq(i, on) PROVE LineAccounted'
  BY <1>3 DEF uart_update_irq, setIrq, Set
<1>4. ASSUME NEW i \in Irqs, uart_push_rx_byte(i) PROVE LineAccounted'
  BY <1>4, LinesAssumption DEF uart_push_rx_byte
<1>8. ASSUME NEW i \in Irqs, evaluate_alarm(i) PROVE LineAccounted'
  BY <1>8 DEF evaluate_alarm, setIrq
<1>9. ASSUME NEW i \in Irqs, CLEAR_INTERRUPT(i) PROVE LineAccounted'
  BY <1>9, LinesAssumption DEF CLEAR_INTERRUPT, setIrq
<1>5. ASSUME NEW prio, NEW en, NEW thr, PlicWriteReg(prio, en, thr) PROVE LineAccounted'
  BY <1>5 DEF PlicWriteReg
<1>6. ASSUME NEW c \in Contexts, NEW id \in Irqs, Claim(c, id) PROVE LineAccounted'
  BY <1>6 DEF Claim
<1>7. ASSUME NEW c \in Contexts, NEW w \in Irqs \cup {0}, Complete(c, w) PROVE LineAccounted'
  BY <1>7 DEF Complete, StillAsserted
<1> QED BY <1>1, <1>2, <1>3, <1>4, <1>5, <1>6, <1>7, <1>8, <1>9
        DEF PlicNext, WritePriority, WriteEnables, WriteThreshold

\* No virtio interrupt is lost for any set of lines: in every interleaving of
\* device events, claims, completions, clock steps and CSR writes an asserted
\* line is pending, claimed, or was displaced by a second claim.  The CLINT and
\* the CSR file do not touch the lines.
THEOREM NoLostLine == Spec => []LineAccounted
<1>1. Init => LineAccounted
  BY DEF Init, PlicInit, LineAccounted
<1>2. TypeOK /\ LineAccounted /\ [Next]_vars => LineAccounted'
  <2> SUFFICES ASSUME TypeOK, LineAccounted, [Next]_vars PROVE LineAccounted'
    OBVIOUS
  <2>1. CASE PlicNext
    BY <2>1, AccountedStep DEF TypeOK
  <2>2. CASE UNCHANGED plicVars
    BY <2>2 DEF plicVars, LineAccounted
  <2> QED BY <2>1, <2>2 DEF Next, vars
<1>3. Spec => []TypeOK
  BY Consistency, PTL
<1> QED BY <1>1, <1>2, <1>3, PTL DEF Spec

---------------------------------------------------------------------------
(* The clock and the cycle counter *)

\* n more cycles move both sides alike, whatever wraps.
LEMMA AdvanceFact ==
  ASSUME NEW n \in Nat, ClintTypeOK, NoDrift, Advance(n)
  PROVE  NoDrift'
<1> DEFINE d == rtc_divider + n
           q == d \div Divider
           r == d % Divider
           a == (mtime * Divider) + rtc_divider
           c == mcycle + n
           b == mcycle + skew
           t == mtime + q
<1>1. /\ Range64 \in Nat \ {0} /\ Divider \in Nat \ {0} /\ d \in Int /\ a \in Int /\ c \in Int /\ b \in Int
      /\ mtime \in Int /\ skew \in Int /\ mcycle \in Int
  BY RangeFact, ClintAssumption DEF ClintTypeOK, Times
<1>2. q \in Int /\ r \in Int /\ d = (Divider * q) + r
  <2> HIDE DEF d
  <2> QED BY <1>1, ModDef
<1>3. mtime' = t % Range64 /\ rtc_divider' = r /\ mcycle' = c % Range64 /\ skew' = skew
  BY DEF Advance
<1>4. a % Range64 = b % Range64
  BY DEF NoDrift
<1>5. t \in Int /\ (t * Divider) + r = a + n /\ c + skew = b + n
  <2>1. t * Divider = (mtime * Divider) + (Divider * q)
    BY <1>1, <1>2
  <2>2. t \in Int /\ c + skew = b + n
    BY <1>1, <1>2
  <2>3. rtc_divider \in Int /\ mtime * Divider \in Int /\ Divider * q \in Int
    BY <1>1, <1>2 DEF ClintTypeOK
  <2>4. (Divider * q) + r = rtc_divider + n
    BY <1>2
  <2> HIDE DEF r, q, t
  <2>5. (t * Divider) + r = ((mtime * Divider) + rtc_divider) + n
    BY <1>2, <2>1, <2>3, <2>4
  <2> QED BY <2>2, <2>5
<1> HIDE DEF d, q, r, a, b, c, t
<1>6. (((t % Range64) * Divider) + r) % Range64 = ((t * Divider) + r) % Range64
  <2>1. t \in Int /\ Divider \in Int /\ r \in Int /\ Range64 \in Nat \ {0}
    BY <1>1, <1>2, <1>5
  <2> QED BY <2>1, ModTimes, ZenonT(60)
<1>7. ((c % Range64) + skew) % Range64 = (c + skew) % Range64
  BY <1>1, ModInner, Zenon
<1>8. (a + n) % Range64 = (b + n) % Range64
  <2>1. n \in Int
    OBVIOUS
  <2>2. a \in Int /\ b \in Int /\ Range64 \in Nat \ {0}
    BY <1>1
  <2> QED BY <1>4, <2>1, <2>2, ModShift
<1>9. ((mtime' * Divider) + rtc_divider') % Range64 = (mcycle' + skew') % Range64
  BY <1>3, <1>5, <1>6, <1>7, <1>8
<1> QED BY <1>9 DEF NoDrift, Range64

\* A guest write of mtime or mcycle sets the difference that is kept from then on.
LEMMA SkewFact ==
  ASSUME NEW time \in Times, NEW div \in Int, NEW cyc \in Times, NEW s, s = NewSkew(time, div, cyc)
  PROVE  ((time * Divider) + div) % Range64 = (cyc + s) % Range64
<1> DEFINE a == time * Divider + div - cyc
<1>1. Range64 \in Nat \ {0} /\ a \in Int /\ cyc \in Int /\ a + cyc = (time * Divider) + div
  BY RangeFact, ClintAssumption DEF Times
<1>2. s = a % Range64
  BY DEF NewSkew
<1> HIDE DEF a
<1>3. ((a % Range64) + cyc) % Range64 = (a + cyc) % Range64
  BY <1>1, ModInner, Zenon
<1>4. s + cyc = cyc + s
  BY <1>1, <1>2, ModDef
<1> QED BY <1>1, <1>2, <1>3, <1>4

\* The wall clock and the cycle counter move together for every divider, batch size and
\* register width, through the four ways of counting cycles and across every wrap.
THEOREM ClocksAgree == Spec => []NoDrift
<1>1. Init => NoDrift
  <2> SUFFICES ASSUME Init PROVE NoDrift
    OBVIOUS
  <2> DEFINE a == Divider - 1
  <2>1. a \in Int /\ Range64 \in Nat \ {0} /\ 1 \in Int /\ a + 1 = Divider
    BY RangeFact, ClintAssumption
  <2> HIDE DEF a
  <2>2. ((a % Range64) + 1) % Range64 = (a + 1) % Range64
    BY <2>1, ModInner, Zenon
  <2>3. a % Range64 \in Int
    BY <2>1, ModDef
  <2>4. skew = a % Range64 /\ mtime = 1 /\ rtc_divider = 0 /\ mcycle = 1
    BY DEF Init, ClintInit, a
  <2>5. (mtime * Divider) + rtc_divider = Divider /\ mcycle + skew = (a % Range64) + 1
    BY <2>3, <2>4, ClintAssumption
  <2> QED BY <2>1, <2>2, <2>5 DEF NoDrift
<1>2. TypeOK /\ NoDrift /\ [Next]_vars => NoDrift'
  <2> SUFFICES ASSUME TypeOK, NoDrift, [Next]_vars PROVE NoDrift'
    OBVIOUS
  <2>0. ClintTypeOK
    BY DEF TypeOK
  <2>1. CASE UNCHANGED clintVars
    BY <2>1 DEF clintVars, clock, NoDrift
  <2>2. CASE WriteTimer
    <3>1. ASSUME NEW v, write_mtimecmp(v) PROVE NoDrift'
      BY <3>1 DEF write_mtimecmp, clock, NoDrift
    <3>2. ASSUME NEW v \in Times, write_mtime(v) PROVE NoDrift'
      BY <2>0, <3>2, SkewFact DEF write_mtime, NoDrift, ClintTypeOK
    <3> QED BY <2>0, <2>2, <3>1, <3>2, RangeFact DEF WriteTimer, ClintTypeOK
  <2>3. ASSUME NEW on \in BOOLEAN, write_msip(on) PROVE NoDrift'
    BY <2>1, <2>3 DEF write_msip
  <2>4. ASSUME NEW v \in Times, write_mcycle(v) PROVE NoDrift'
    BY <2>0, <2>4, SkewFact DEF write_mcycle, NoDrift, ClintTypeOK
  <2>5. ASSUME NEW v \in Times, set_timer(v) PROVE NoDrift'
    BY <2>5 DEF set_timer, clock, NoDrift
  <2>6. ASSUME NEW n \in 1 .. MaxStep, RunCycleAccurate(n) PROVE NoDrift'
    BY <2>0, <2>6, AdvanceFact DEF RunCycleAccurate
  <2>7. CASE RunCycle
    BY <2>0, <2>7, AdvanceFact DEF RunCycle
  <2>8. CASE CachedOp
    BY <2>8 DEF CachedOp, clock, NoDrift
  <2>9. CASE BatchEnd
    BY <2>0, <2>9, AdvanceFact DEF BatchEnd, ClintTypeOK
  <2> QED BY <2>1, <2>2, <2>3, <2>4, <2>5, <2>6, <2>7, <2>8, <2>9 DEF Next, ClintNext, Clock, vars
<1>3. Spec => []TypeOK
  BY Consistency, PTL
<1> QED BY <1>1, <1>2, <1>3, PTL DEF Spec

-----------------------------------------------------------------------------
(* Traps. *)

\* What a register of `hart' may hold.
Legal(h) ==
  /\ h \in HartType
  /\ h.priv \in Supported /\ h.mpp \in Supported
  /\ ~HasS => (h.mstatus \cup h.mideleg) \cap (SStatus \cup SBits) = {}
  /\ h.mideleg \subseteq SBits /\ h.medeleg \subseteq Delegable

---------------------------------------------------------------------------
(* The functions of TrapController and CsrFile keep the state legal. *)

\* A trap enters a supported mode and stacks a supported one.
LEMMA RaiseLegal ==
  ASSUME NEW h, Legal(h), NEW cause
  PROVE  Legal(raiseException(h, cause))
<1> USE DEF Legal, HartType
<1>1. CASE delegated(h, cause)
  BY <1>1, TrapAssumption DEF raiseException, delegated, Move, Supported, Levels, U, S, M,
     Status, SStatus, MStatus, SBits
<1>2. CASE ~delegated(h, cause)
  BY <1>2 DEF raiseException, Move, Supported, Levels, U, S, M, Status, SStatus, MStatus, SBits
<1> QED BY <1>1, <1>2

\* A return goes to a supported mode and leaves a supported one in MPP.
LEMMA ReturnLegal ==
  ASSUME NEW h, Legal(h)
  PROVE  Legal(mret(h)) /\ (HasS => Legal(sret(h)))
<1> USE DEF Legal, HartType, Move, Supported, Levels, U, S, M, Status, SStatus, MStatus, SBits
<1>1. Legal(mret(h))
  BY TrapAssumption, ZenonT(60) DEF mret, least_supported_mpp
<1>2. ASSUME HasS PROVE Legal(sret(h))
  BY <1>2, TrapAssumption DEF sret
<1> QED BY <1>1, <1>2

\* So does every CSR write.
LEMMA WriteLegal ==
  ASSUME NEW h, Legal(h)
  PROVE  /\ \A w \in SUBSET Status, p \in 0 .. 3 : Legal(write_mstatus(h, w, p))
         /\ \A w \in SUBSET Status : Legal(write_sstatus(h, w))
         /\ \A w \in SUBSET Bits : Legal(write_mie(h, w)) /\ Legal(write_sie(h, w))
         /\ \A w : Legal(write_mideleg(h, w)) /\ Legal(write_medeleg(h, w))
         /\ \A lvl \in {S, M}, zero \in BOOLEAN : Legal(write_tvec(h, lvl, zero))
         /\ \A r \in BOOLEAN : Legal([h EXCEPT !.reserved = r])
<1> USE DEF Legal, HartType
<1>1. \A w \in SUBSET Status, p \in 0 .. 3 : Legal(write_mstatus(h, w, p))
  <2> SUFFICES ASSUME NEW w \in SUBSET Status, NEW p \in 0 .. 3
               PROVE  Legal(write_mstatus(h, w, p))
    OBVIOUS
  <2>1. mstatus_legalize_mpp(p) \in Supported /\ Supported \subseteq Levels
    BY DEF mstatus_legalize_mpp, Supported, Levels, U, S, M
  <2>2. w \cap mstatus_writable \in SUBSET Status
    BY DEF Status, MStatus
  <2>3. ~HasS => (w \cap mstatus_writable) \cap (SStatus \cup SBits) = {}
    BY DEF mstatus_writable, SStatus, SBits
  <2>4. ~HasS => h.mideleg \cap (SStatus \cup SBits) = {}
    OBVIOUS
  <2> HIDE DEF HartType
  <2>5. write_mstatus(h, w, p) \in HartType
    BY <2>1, <2>2 DEF write_mstatus, HartType
  <2> QED BY <2>1, <2>2, <2>3, <2>4, <2>5 DEF write_mstatus, HartType
<1>2. \A w \in SUBSET Status : Legal(write_sstatus(h, w))
  <2> SUFFICES ASSUME NEW w \in SUBSET Status PROVE Legal(write_sstatus(h, w))
    OBVIOUS
  <2>1. (h.mstatus \ SStatus) \cup (w \cap SStatus) \in SUBSET Status
    BY DEF Status
  <2>2. h.mpp \in 0 .. 3
    BY DEF Levels, U, S, M
  <2> QED BY <1>1, <2>1, <2>2 DEF write_sstatus
<1>3. \A w \in SUBSET Bits : Legal(write_mie(h, w)) /\ Legal(write_sie(h, w))
  BY DEF write_mie, write_sie
<1>4. \A w : Legal(write_mideleg(h, w)) /\ Legal(write_medeleg(h, w))
  BY DEF write_mideleg, write_medeleg, SBits, Bits, MBits, Delegable, Exceptions, SStatus
<1>5. \A lvl \in {S, M}, zero \in BOOLEAN : Legal(write_tvec(h, lvl, zero))
  BY DEF write_tvec
<1>6. \A r \in BOOLEAN : Legal([h EXCEPT !.reserved = r])
  OBVIOUS
<1> QED BY <1>1, <1>2, <1>3, <1>4, <1>5, <1>6
---------------------------------------------------------------------------
(* One step. *)

TrapInv == TrapTypeOK /\ InterruptLegal /\ Prompt

\* The end of an instruction that left the legal state h and a legal mip.
LEMMA CommitStep ==
  ASSUME NEW h, Legal(h), MipTypeOK', halted \in BOOLEAN, Commit(h)
  PROVE  TrapInv'
<1> DEFINE mask == interrupt_mask(h, mip')
<1>1. CASE mask = {} /\ hart' = h /\ took' = "commit" /\ UNCHANGED halted
  <2>1. TrapTypeOK'
    BY <1>1 DEF TrapTypeOK, Legal
  <2>2. InterruptLegal'
    BY <1>1 DEF InterruptLegal, Bits, SBits, MBits
  <2>3. Prompt'
    BY <1>1 DEF Prompt, TrapsToM, TrapsToS, interrupt_mask, enable_interrupts, Legal, HartType,
       Levels, U, S, M
  <2> QED BY <2>1, <2>2, <2>3 DEF TrapInv
<1>2. ASSUME NEW b \in mask, Raise(h, b)
      PROVE  TrapInv'
  <2>1. b \in Bits /\ b \in mip' /\ b \in h.mie /\ b \in enable_interrupts(h)
    BY <1>2 DEF interrupt_mask, MipTypeOK
  <2>2. hart' = raiseException(h, b) /\ halted' \in BOOLEAN /\ took' = b
    BY <1>2 DEF Raise, Stops
  <2>3. TrapTypeOK'
    BY <2>1, <2>2, RaiseLegal DEF TrapTypeOK, Legal
  <2>4. InterruptLegal'
    <3>1. b \notin h.medeleg
      BY <2>1 DEF Legal, Delegable, Bits, SBits, MBits
    <3>2. CASE delegated(h, b)
      BY <2>1, <2>2, <3>1, <3>2 DEF raiseException, delegated, InterruptLegal, Move,
         enable_interrupts, Legal, HartType, Levels, U, S, M
    <3>3. CASE ~delegated(h, b)
      BY <2>1, <2>2, <3>1, <3>3 DEF raiseException, delegated, InterruptLegal, Move,
         enable_interrupts, Legal, HartType, Levels, U, S, M
    <3> QED BY <3>2, <3>3
  <2>5. Prompt'
    BY <2>1, <2>2 DEF Prompt, Bits, SBits, MBits
  <2> QED BY <2>3, <2>4, <2>5 DEF TrapInv
<1> QED BY <1>1, <1>2 DEF Commit

\* An exception.
LEMMA ExceptionStep ==
  ASSUME NEW h, Legal(h), MipTypeOK', NEW cause \in Exceptions, Raise(h, cause)
  PROVE  TrapInv'
<1>1. hart' = raiseException(h, cause) /\ halted' \in BOOLEAN /\ took' = cause
  BY DEF Raise, Stops
<1>2. TrapTypeOK'
  BY <1>1, RaiseLegal DEF TrapTypeOK, Legal
<1>3. InterruptLegal' /\ Prompt'
  BY <1>1 DEF InterruptLegal, Prompt, Exceptions, Delegable, Bits, SBits, MBits
<1> QED BY <1>2, <1>3 DEF TrapInv

\* CSR writes of mip keep its type.
LEMMA MipWriteType ==
  ASSUME MipTypeOK,
         \/ \E rs \in MipWrites : CsrrwMip(rs) \/ CsrrsMip(rs) \/ CsrrcMip(rs)
         \/ \E w \in MipWrites : write_sip(hart.mideleg, w)
  PROVE  MipTypeOK'
<1>1. ASSUME NEW w \in SUBSET Bits, write_mip(w) PROVE MipTypeOK'
  <2> USE DEF write_mip, MipTypeOK, Bits, SBits, MBits, Latches, mip_writable
  <2>1. latch' \subseteq Latches
    BY <1>1 DEF Set
  <2>2. mip' \subseteq Bits
    BY <1>1 DEF refresh_supervisor_pending
  <2> QED BY <2>1, <2>2
<1>2. mip_rmw_base \in SUBSET Bits
  BY DEF mip_rmw_base, MipTypeOK, Bits, SBits, MBits, interrupt_implemented
<1>3. ASSUME NEW rs \in MipWrites, CsrrwMip(rs) \/ CsrrsMip(rs) \/ CsrrcMip(rs) PROVE MipTypeOK'
  <2>1. rs \in SUBSET Bits
    BY MipAssumption
  <2> QED BY <1>1, <1>2, <1>3, <2>1 DEF CsrrwMip, CsrrsMip, CsrrcMip
<1>4. ASSUME NEW w \in MipWrites, write_sip(hart.mideleg, w) PROVE MipTypeOK'
  BY <1>4, MipAssumption DEF write_sip, MipTypeOK, Bits, SBits
<1> QED BY <1>3, <1>4

\* A step of the environment.
LEMMA DeviceStep ==
  ASSUME TrapInv, Device
  PROVE  TrapInv'
<1> USE DEF TrapInv, TrapTypeOK
<1>1. MipTypeOK'
  <2>1. PICK b \in Lines, on \in BOOLEAN :
          IF b \in MBits
          THEN mip' = Set(mip, b, on) /\ UNCHANGED latch
          ELSE /\ latch' = Set(latch, b, on)
               /\ mip' = refresh_supervisor_pending(mip, latch')
    BY DEF Device
  <2>2. CASE b \in MBits
    BY <2>1, <2>2 DEF Set, MipTypeOK, Bits
  <2>3. CASE b \notin MBits
    <3>1. b \in Latches
      BY <2>3, BoundsAssumption DEF Latches
    <3>2. latch' \subseteq Latches
      BY <2>1, <2>3, <3>1 DEF Set, MipTypeOK
    <3>3. mip' \subseteq Bits
      BY <2>1, <2>3 DEF refresh_supervisor_pending, MipTypeOK, Bits, SBits
    <3> QED BY <3>2, <3>3 DEF MipTypeOK
  <2> QED BY <2>2, <2>3
<1>2. InterruptLegal' /\ Prompt'
  BY DEF Device, InterruptLegal, Prompt, Bits, SBits, MBits
<1> QED BY <1>1, <1>2 DEF Device

\* The direct SBI returns to the caller.
LEMMA SbiStep ==
  ASSUME TrapInv, SbiEcall
  PROVE  TrapInv'
<1> USE DEF TrapInv
<1>1. MipTypeOK'
  BY DEF TrapTypeOK, SbiEcall, send_ipi, Set, refresh_supervisor_pending, MipTypeOK, mipVars,
     Bits, SBits, MBits, Latches
<1>2. Legal(hart')
  BY WriteLegal DEF SbiEcall, TrapTypeOK, Legal
<1>3. took' = "sbi" /\ halted' \in BOOLEAN
  BY DEF SbiEcall, TrapTypeOK
<1>4. TrapTypeOK'
  BY <1>1, <1>2, <1>3 DEF TrapTypeOK, Legal
<1>5. InterruptLegal' /\ Prompt'
  BY <1>3 DEF InterruptLegal, Prompt, Bits, SBits, MBits
<1> QED BY <1>4, <1>5

\* Every step.
LEMMA TrapStep ==
  ASSUME TrapInv, TrapNext
  PROVE  TrapInv'
<1> USE DEF TrapInv
<1>1. Legal(hart) /\ MipTypeOK /\ halted \in BOOLEAN
  BY DEF TrapTypeOK, Legal
<1>2. UNCHANGED mipVars => MipTypeOK'
  BY <1>1 DEF mipVars, MipTypeOK
<1>3. CASE Ordinary
  BY <1>1, <1>2, <1>3, WriteLegal, CommitStep DEF Ordinary
<1>4. CASE Fault
  <2>1. "Fault" \in Exceptions
    BY DEF Exceptions, Delegable
  <2> QED BY <1>1, <1>2, <1>4, <2>1, ExceptionStep DEF Fault
<1>5. CASE Mret
  BY <1>1, <1>2, <1>5, ReturnLegal, CommitStep DEF Mret
<1>6. CASE Sret
  BY <1>1, <1>2, <1>6, ReturnLegal, CommitStep DEF Sret
<1>7. CASE Ecall
  <2>1. \E cause \in Exceptions : Raise(hart, cause)
    BY <1>1, <1>7 DEF Ecall, Exceptions, Delegable, Legal, HartType, Levels, U, S, M
  <2> QED BY <1>1, <1>2, <1>7, <2>1, ExceptionStep DEF Ecall
<1>8. CASE SbiEcall
  BY <1>8, SbiStep
<1>9. CASE CsrMachine
  <2>1. ASSUME NEW w \in MstatusWrites, NEW p \in 0 .. 3, Commit(write_mstatus(hart, w, p)),
               UNCHANGED mipVars
        PROVE  TrapInv'
    BY <1>1, <1>2, <2>1, BoundsAssumption, WriteLegal, CommitStep
  <2>2. ASSUME NEW w \in MieWrites, Commit(write_mie(hart, w)), UNCHANGED mipVars
        PROVE  TrapInv'
    BY <1>1, <1>2, <2>2, BoundsAssumption, WriteLegal, CommitStep
  <2>3. ASSUME NEW w \in DelegWrites, UNCHANGED mipVars,
               Commit(write_mideleg(hart, w)) \/ Commit(write_medeleg(hart, w))
        PROVE  TrapInv'
    BY <1>1, <1>2, <2>3, WriteLegal, CommitStep
  <2>4. ASSUME NEW zero \in BOOLEAN, Commit(write_tvec(hart, M, zero)), UNCHANGED mipVars
        PROVE  TrapInv'
    BY <1>1, <1>2, <2>4, WriteLegal, CommitStep
  <2>5. ASSUME NEW rs \in MipWrites, CsrrwMip(rs) \/ CsrrsMip(rs) \/ CsrrcMip(rs), Commit(hart)
        PROVE  TrapInv'
    BY <1>1, <2>5, MipWriteType, CommitStep
  <2> QED BY <1>9, <2>1, <2>2, <2>3, <2>4, <2>5 DEF CsrMachine
<1>10. CASE CsrSupervisor
  <2>1. ASSUME NEW w \in MstatusWrites, Commit(write_sstatus(hart, w)), UNCHANGED mipVars
        PROVE  TrapInv'
    BY <1>1, <1>2, <2>1, BoundsAssumption, WriteLegal, CommitStep
  <2>2. ASSUME NEW w \in MieWrites, Commit(write_sie(hart, w)), UNCHANGED mipVars
        PROVE  TrapInv'
    BY <1>1, <1>2, <2>2, BoundsAssumption, WriteLegal, CommitStep
  <2>3. ASSUME NEW zero \in BOOLEAN, Commit(write_tvec(hart, S, zero)), UNCHANGED mipVars
        PROVE  TrapInv'
    BY <1>1, <1>2, <2>3, WriteLegal, CommitStep
  <2>4. ASSUME NEW w \in MipWrites, write_sip(hart.mideleg, w), Commit(hart)
        PROVE  TrapInv'
    BY <1>1, <2>4, MipWriteType, CommitStep
  <2> QED BY <1>10, <2>1, <2>2, <2>3, <2>4 DEF CsrSupervisor
<1>11. CASE Halted
  BY <1>11 DEF Halted, trapVars, mipVars, TrapTypeOK, MipTypeOK, InterruptLegal, Prompt,
     TrapsToM, TrapsToS
<1> QED BY <1>3, <1>4, <1>5, <1>6, <1>7, <1>8, <1>9, <1>10, <1>11, DeviceStep
        DEF TrapNext, Instruction

\* Privilege and its registers stay legal, interrupts strike only where the
\* architecture allows them, and none that it requires is left behind by a
\* completed instruction.
THEOREM DeliveryCorrect == TrapSpec => [](TrapTypeOK /\ InterruptLegal /\ Prompt)
<1>1. TrapInit => TrapInv
  <2> SUFFICES ASSUME TrapInit PROVE TrapInv
    OBVIOUS
  <2>1. hart \in HartType
    BY TrapAssumption DEF TrapInit, HartType, Levels, U, S, M
  <2>2. /\ hart.priv \in Supported /\ hart.mpp \in Supported
        /\ hart.mstatus = {} /\ hart.mideleg = {} /\ hart.medeleg = {}
    BY TrapAssumption DEF TrapInit, Supported, U, S, M
  <2>3. MipTypeOK /\ halted \in BOOLEAN /\ took = "reset"
    BY DEF MipInit, TrapInit, MipTypeOK
  <2>4. TrapTypeOK
    BY <2>1, <2>2, <2>3 DEF TrapTypeOK
  <2> QED BY <2>3, <2>4 DEF TrapInv, InterruptLegal, Prompt, Bits, SBits, MBits
<1>2. TrapInv /\ [TrapNext]_<<trapVars, mipVars>> => TrapInv'
  <2> SUFFICES ASSUME TrapInv, UNCHANGED <<trapVars, mipVars>> PROVE TrapInv'
    BY TrapStep
  <2> QED BY DEF TrapInv, trapVars, mipVars, TrapTypeOK, MipTypeOK, InterruptLegal, Prompt,
     TrapsToM, TrapsToS
<1>3. QED BY <1>1, <1>2, PTL DEF TrapSpec, TrapInv

---------------------------------------------------------------------------
(* Confinement of supervisor software. *)

\* h and g agree on what belongs to M-mode.
Kept(h, g) ==
  /\ g.mideleg = h.mideleg /\ g.medeleg = h.medeleg /\ g.mpp = h.mpp
  /\ g.mie \ h.mideleg = h.mie \ h.mideleg
  /\ g.mstatus \cap {"MIE", "MPIE", "TSR"} = h.mstatus \cap {"MIE", "MPIE", "TSR"}
  /\ "MPRV" \in g.mstatus => "MPRV" \in h.mstatus
  /\ M \in g.vector <=> M \in h.vector

SoftwareLatches == {"seip_software", "stip_software"}

\* A trap that stays below M-mode was delegated, and keeps what belongs to M-mode.
LEMMA DelegatedKept ==
  ASSUME NEW h, Legal(h), NEW cause, raiseException(h, cause).priv < M
  PROVE  Kept(h, raiseException(h, cause))
<1>1. delegated(h, cause)
  BY DEF raiseException, M, Legal, HartType
<1> QED BY <1>1 DEF raiseException, Move, Kept, Legal, HartType, S

\* The end of an instruction that kept it.
LEMMA CommitKept ==
  ASSUME NEW h, Legal(h), Kept(hart, h), Commit(h), hart'.priv < M
  PROVE  Kept(hart, hart')
<1>1. CASE hart' = h
  BY <1>1
<1>2. CASE \E b : Raise(h, b)
  <2>1. PICK b : Raise(h, b)
    BY <1>2
  <2>2. Kept(h, hart')
    BY <2>1, DelegatedKept DEF Raise
  <2> QED BY <2>2 DEF Kept
<1> QED BY <1>1, <1>2 DEF Commit

\* The CSR writes and the return that S-mode may execute keep it.
LEMMA SupervisorWriteKept ==
  ASSUME NEW h, Legal(h), HasS
  PROVE  /\ \A w \in SUBSET Status : Kept(h, write_sstatus(h, w))
         /\ \A w \in SUBSET Bits : Kept(h, write_sie(h, w))
         /\ \A zero \in BOOLEAN : Kept(h, write_tvec(h, S, zero))
         /\ Kept(h, sret(h))
<1>1. \A w \in SUBSET Status : Kept(h, write_sstatus(h, w))
  <2> SUFFICES ASSUME NEW w \in SUBSET Status PROVE Kept(h, write_sstatus(h, w))
    OBVIOUS
  <2>1. mstatus_legalize_mpp(h.mpp) = h.mpp
    BY DEF mstatus_legalize_mpp, Legal
  <2> QED BY <2>1 DEF write_sstatus, write_mstatus, mstatus_writable, Kept, Legal, HartType, SStatus
<1>2. \A w \in SUBSET Bits : Kept(h, write_sie(h, w))
  BY DEF write_sie, Kept, Legal, HartType
<1>3. \A zero \in BOOLEAN : Kept(h, write_tvec(h, S, zero))
  BY DEF write_tvec, Kept, Legal, HartType, S, M
<1>4. Kept(h, sret(h))
  BY DEF sret, Move, Kept, Legal, HartType
<1> QED BY <1>1, <1>2, <1>3, <1>4

\* Every step that starts and ends below M-mode.
LEMMA ConfinedStep ==
  ASSUME TrapTypeOK, [TrapNext]_<<trapVars, mipVars>>, hart.priv < M, hart'.priv < M
  PROVE  Kept(hart, hart') /\ latch' \cap SoftwareLatches = latch \cap SoftwareLatches
<1>1. Legal(hart) /\ Kept(hart, hart) /\ hart.priv # M
  BY DEF TrapTypeOK, Legal, Kept, M
<1>2. CASE Ordinary
  <2>1. PICK r \in BOOLEAN : Commit([hart EXCEPT !.reserved = r])
    BY <1>2 DEF Ordinary
  <2>2. Legal([hart EXCEPT !.reserved = r])
    BY <1>1, WriteLegal
  <2>3. Kept(hart, [hart EXCEPT !.reserved = r])
    BY <1>1 DEF Kept, Legal, HartType
  <2> QED BY <1>2, <2>1, <2>2, <2>3, CommitKept DEF Ordinary, mipVars
<1>3. CASE Fault \/ Ecall
  <2>1. PICK cause : Raise(hart, cause)
    BY <1>3 DEF Fault, Ecall
  <2> QED BY <1>1, <1>3, <2>1, DelegatedKept DEF Raise, Fault, Ecall, mipVars
<1>4. CASE Sret
  BY <1>1, <1>4, ReturnLegal, SupervisorWriteKept, CommitKept DEF Sret, mipVars
<1>5. CASE SbiEcall
  <2>1. Kept(hart, hart')
    BY <1>1, <1>5 DEF SbiEcall, Kept, Legal, HartType
  <2>2. latch' \cap SoftwareLatches = latch \cap SoftwareLatches
    BY <1>5 DEF SbiEcall, send_ipi, Set, mipVars, SoftwareLatches
  <2> QED BY <2>1, <2>2
<1>6. CASE CsrSupervisor
  <2>1. latch' = latch
    BY <1>6 DEF CsrSupervisor, write_sip, mipVars
  <2>2. HasS
    BY <1>6 DEF CsrSupervisor
  <2>3. PICK h : Legal(h) /\ Kept(hart, h) /\ Commit(h)
    BY <1>1, <1>6, <2>2, BoundsAssumption, WriteLegal, SupervisorWriteKept DEF CsrSupervisor
  <2> QED BY <2>1, <2>3, CommitKept
<1>7. CASE Device
  <2>1. hart' = hart
    BY <1>7 DEF Device
  <2>2. latch' \cap SoftwareLatches = latch \cap SoftwareLatches
    <3>1. PICK b \in Lines, on \in BOOLEAN :
            IF b \in MBits THEN UNCHANGED latch ELSE latch' = Set(latch, b, on)
      BY <1>7 DEF Device
    <3>2. b \notin SoftwareLatches
      BY BoundsAssumption DEF MBits, SoftwareLatches
    <3> QED BY <3>1, <3>2 DEF Set
  <2> QED BY <1>1, <2>1, <2>2
<1>8. CASE Halted \/ UNCHANGED <<trapVars, mipVars>>
  BY <1>1, <1>8 DEF Halted, trapVars, mipVars
<1>9. ~Mret /\ ~CsrMachine
  BY <1>1 DEF Mret, CsrMachine
<1> QED BY <1>2, <1>3, <1>4, <1>5, <1>6, <1>7, <1>8, <1>9 DEF TrapNext, Instruction

\* The privilege, status and delegation registers hold only what the misa profile allows,
\* whatever is written to them, trapped or returned.
THEOREM TrapTyped == TrapSpec => []TrapTypeOK
BY DeliveryCorrect, PTL

\* At the first instruction of an interrupt handler the interrupt is pending, enabled and
\* taken in the mode that mideleg names, from a context that could be interrupted, for
\* every misa profile and every write that uncovers it.
THEOREM InterruptsLegal == TrapSpec => []InterruptLegal
BY DeliveryCorrect, PTL

\* Software below M-mode changes nothing that belongs to M-mode, whatever it
\* executes and whatever the devices do.
THEOREM Confinement == TrapSpec => SupervisorConfined
<1>1. TrapTypeOK /\ [TrapNext]_<<trapVars, mipVars>>
        => [hart.priv < M /\ hart'.priv < M =>
              /\ \A f \in {"mideleg", "medeleg", "mpp"} : hart'[f] = hart[f]
              /\ hart'.mie \ hart.mideleg = hart.mie \ hart.mideleg
              /\ hart'.mstatus \cap {"MIE", "MPIE", "TSR"}
                   = hart.mstatus \cap {"MIE", "MPIE", "TSR"}
              /\ "MPRV" \in hart'.mstatus => "MPRV" \in hart.mstatus
              /\ M \in hart'.vector <=> M \in hart.vector
              /\ latch' \cap {"seip_software", "stip_software"}
                   = latch \cap {"seip_software", "stip_software"}]_<<trapVars, mipVars>>
  BY ConfinedStep DEF Kept, SoftwareLatches
<1>2. TrapSpec => []TrapTypeOK
  BY DeliveryCorrect, PTL
<1>3. QED BY <1>1, <1>2, PTL DEF TrapSpec, SupervisorConfined
=============================================================================
