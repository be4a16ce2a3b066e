-------------------------------- MODULE Mip --------------------------------
(***************************************************************************)
(* The interrupt-pending register of SimRV's single hart: CSR mip together *)
(* with the four latches ArchState keeps beside it (seip_software,         *)
(* seip_external, stip_software, stip_timer), and every operation of the   *)
(* CSR file and of the direct SBI that writes mip.                         *)
(*                                                                         *)
(* A CSR is the set of its one bits.  The latches are the set of those     *)
(* that are true.                                                          *)
(***************************************************************************)
CONSTANTS HasS,      \* misa has the S extension
          MipWrites  \* bound: the operands of the CSR instructions on mip

VARIABLES mip, latch

mipVars == <<mip, latch>>

SBits  == {"SSIP", "STIP", "SEIP"}
MBits  == {"MSIP", "MTIP", "MEIP"}
Bits   == SBits \cup MBits
ASSUME MipAssumption == HasS \in BOOLEAN /\ MipWrites \subseteq SUBSET Bits

Latches == {"seip_software", "seip_external", "stip_software", "stip_timer"}

\* interrupt_implemented_mask, mip_writable_mask, mideleg_writable_mask.
interrupt_implemented == IF HasS THEN Bits ELSE MBits
mip_writable          == IF HasS THEN SBits ELSE {}

MipTypeOK ==
  /\ mip \subseteq Bits
  /\ latch \subseteq Latches

MipInit == mip = {} /\ latch = {}

\* ArchState::refresh_supervisor_pending: SEIP and STIP are recomputed from
\* the latches, everything else is kept.
refresh_supervisor_pending(m, l) ==
  (m \ {"SEIP", "STIP"})
    \cup (IF l \cap {"seip_software", "seip_external"} # {} THEN {"SEIP"} ELSE {})
    \cup (IF l \cap {"stip_software", "stip_timer"}    # {} THEN {"STIP"} ELSE {})

\* `on' says whether the latch x is set.
Set(l, x, on) == IF on THEN l \cup {x} ELSE l \ {x}

---------------------------------------------------------------------------
(* CSR writes. *)

\* CsrFile::write, case Mip: SSIP is an ordinary bit, SEIP and STIP go to the
\* software latches, MSIP, MTIP and MEIP are read-only.
write_mip(w) ==
  LET ordinary == mip_writable \ {"SEIP", "STIP"}
      l1 == Set(latch, "seip_software", "SEIP" \in w \cap mip_writable)
      l2 == Set(l1,    "stip_software", "STIP" \in w \cap mip_writable)
  IN  /\ latch' = l2
      /\ mip' = refresh_supervisor_pending((mip \ ordinary) \cup (w \cap ordinary), l2)

\* mip_rmw_base: what CSRRS and CSRRC combine with their operand.
mip_rmw_base ==
  LET visible == mip \cap interrupt_implemented
  IN  (visible \ {"SEIP"}) \cup (IF "seip_software" \in latch THEN {"SEIP"} ELSE {})

\* The CSR instructions on mip with operand rs (the x0 forms do not write).
CsrrwMip(rs) == write_mip(rs)
CsrrsMip(rs) == write_mip(mip_rmw_base \cup rs)
CsrrcMip(rs) == write_mip(mip_rmw_base \ rs)

\* Sbi::handle_ipi, send_ipi with the local hart selected.
send_ipi == HasS /\ mip' = mip \cup {"SSIP"} /\ UNCHANGED latch

\* CsrFile::write, case Sip: SSIP, where mideleg delegates it.
write_sip(mideleg, w) ==
  LET mask == {"SSIP"} \cap mideleg
  IN  mip' = (mip \ mask) \cup (w \cap mask) /\ UNCHANGED latch

MipNext ==
  \/ \E rs \in MipWrites : CsrrwMip(rs) \/ CsrrsMip(rs) \/ CsrrcMip(rs)
  \/ \E w \in MipWrites : HasS /\ write_sip({"SSIP"}, w)
  \/ send_ipi

---------------------------------------------------------------------------
\* SEIP and STIP always are the OR of their software and hardware components,
\* whichever of the CSR file, the PLIC, the timer and the SBI wrote last
\* (refresh_supervisor_pending after every write).
SupervisorPending ==
  /\ "SEIP" \in mip <=> latch \cap {"seip_software", "seip_external"} # {}
  /\ "STIP" \in mip <=> latch \cap {"stip_software", "stip_timer"} # {}

=============================================================================
