-------------------------------- MODULE Trap --------------------------------
(***************************************************************************)
(* Privilege, traps and interrupt delivery (TrapController, the commit     *)
(* stages, the cached-instruction paths, and the CSR file's writes of the  *)
(* status, enable and delegation registers).                               *)
(*                                                                         *)
(* A step is one instruction: its effect on the architectural state, then, *)
(* if it raised no exception, the interrupt check on the state it left.    *)
(* TrapController's functions take and return the part of ArchState they   *)
(* work on, the record `hart'.  mip and its latches are those of Mip; the  *)
(* PLIC, the CLINT and the host threads behind them are an environment     *)
(* that moves the hardware-driven bits at any time between two steps.      *)
(***************************************************************************)
EXTENDS Mip, Integers

CONSTANTS HasU,          \* misa has the U extension
          DirectSbi,     \* ~use_opensbi: supervisor ECALLs are served by the simulator
          MstatusWrites,  \* bound: the operands of writes to mstatus and sstatus
          MieWrites,     \* bound: the operands of writes to mie and sie
          DelegWrites,   \* bound: the operands of writes to mideleg and medeleg
          Lines          \* bound: the hardware-driven bits that the environment moves

\* Every profile of misa_profile_bits has S and U together.
ASSUME TrapAssumption == HasU \in BOOLEAN /\ DirectSbi \in BOOLEAN /\ (HasS => HasU)

U == 0
S == 1
M == 3
Levels == {U, S, M}
Supported == {M} \cup (IF HasS THEN {S} ELSE {}) \cup (IF HasU THEN {U} ELSE {})

\* Exceptions, by what tells them apart here.
Delegable  == {"Fault", "UserEcall"}       \* kMedelegWritableMask
Exceptions == Delegable \cup {"SupervisorEcall", "MachineEcall"}

SStatus == {"SIE", "SPIE", "SPP"}          \* kSstatusMask
MStatus == {"MIE", "MPIE", "MPRV", "TSR"}
Status  == SStatus \cup MStatus

ASSUME BoundsAssumption ==
  /\ MstatusWrites \subseteq SUBSET Status
  /\ MieWrites \subseteq SUBSET Bits
  /\ Lines \subseteq MBits \cup {"seip_external", "stip_timer"}

VARIABLES hart,     \* the fields of ArchState below
          halted,   \* Machine::stop or request_reboot was called
          took      \* history: what ended the last step

trapVars == <<hart, halted, took>>

HartType ==
  [priv : Levels, mstatus : SUBSET Status, mpp : Levels,
   mie : SUBSET Bits, mideleg : SUBSET Bits, medeleg : SUBSET Exceptions,
   vector : SUBSET {S, M},        \* the modes whose xtvec has a base other than 0
   reserved : BOOLEAN]            \* an LR reservation is held

\* One type invariant: no register ever holds a privilege mode, a delegation or a
\* supervisor status bit that misa does not have (WARL legalisation in
\* mstatus_legalize_mpp, mstatus_writable_mask, least_supported_mpp).
TrapTypeOK ==
  /\ MipTypeOK
  /\ hart \in HartType
  /\ hart.priv \in Supported /\ hart.mpp \in Supported
  /\ ~HasS => (hart.mstatus \cup hart.mideleg) \cap (SStatus \cup SBits) = {}
  /\ hart.mideleg \subseteq SBits /\ hart.medeleg \subseteq Delegable
  /\ halted \in BOOLEAN
  /\ took \in {"reset", "commit", "device", "sbi"} \cup Bits \cup Exceptions

\* CPU::reset.
TrapInit ==
  /\ MipInit
  /\ hart = [priv |-> M, mstatus |-> {}, mpp |-> IF HasU THEN U ELSE M,
             mie |-> {}, mideleg |-> {}, medeleg |-> {}, vector |-> {}, reserved |-> FALSE]
  /\ halted = FALSE
  /\ took = "reset"

---------------------------------------------------------------------------
(* TrapController. *)

\* The status bit `to' gets the value of the status bit `from'.
Move(ms, to, from) == IF from \in ms THEN ms \cup {to} ELSE ms \ {to}

\* TrapController::raiseException after the SBI declined: where the trap goes,
\* and the state at the handler's first instruction.
delegated(h, cause) ==
  HasS /\ h.priv <= S /\ cause \in h.mideleg \cup h.medeleg

raiseException(h, cause) ==
  IF delegated(h, cause)
  THEN [h EXCEPT !.mstatus  = ((Move(@, "SPIE", "SIE") \ {"SPP", "SIE"})
                                 \cup (IF h.priv = S THEN {"SPP"} ELSE {})),
                 !.priv     = S,
                 !.reserved = FALSE]
  ELSE [h EXCEPT !.mstatus  = Move(@, "MPIE", "MIE") \ {"MIE"},
                 !.mpp      = h.priv,
                 !.priv     = M,
                 !.reserved = FALSE]

\* Whether a trap stops the machine: it does when the handler's address is 0.  In
\* vectored mode, a bit of xtvec left out here, only exceptions go to the base.
Stops(h, cause) ==
  IF raiseException(h, cause).priv \in h.vector THEN {FALSE}
  ELSE IF cause \in Bits THEN BOOLEAN ELSE {TRUE}

least_supported_mpp == IF HasU THEN U ELSE IF HasS THEN S ELSE M

mret(h) ==
  [h EXCEPT !.mstatus  = (Move(@, "MIE", "MPIE") \cup {"MPIE"})
                           \ (IF h.mpp < M THEN {"MPRV"} ELSE {}),
            !.mpp      = least_supported_mpp,
            !.priv     = h.mpp,
            !.reserved = FALSE]

sret(h) ==
  [h EXCEPT !.mstatus  = (Move(@, "SIE", "SPIE") \cup {"SPIE"}) \ {"SPP", "MPRV"},
            !.priv     = IF "SPP" \in h.mstatus THEN S ELSE U,
            !.reserved = FALSE]

---------------------------------------------------------------------------
(* CSR writes. *)

mstatus_writable ==
  {"MIE", "MPIE"} \cup (IF HasS THEN SStatus \cup {"TSR"} ELSE {})
                  \cup (IF HasU THEN {"MPRV"} ELSE {})

\* Mutant: a reserved MPP encoding is stored as it is written.
mstatus_any_mpp(p) == p

mstatus_legalize_mpp(p) == IF p \in Supported THEN p ELSE M

\* CsrFile::setMstatus with the bits w and the MPP field p.
write_mstatus(h, w, p) ==
  [h EXCEPT !.mstatus = w \cap mstatus_writable, !.mpp = mstatus_legalize_mpp(p)]

write_sstatus(h, w) ==
  write_mstatus(h, (h.mstatus \ SStatus) \cup (w \cap SStatus), h.mpp)

\* Mutant: sie is written through to every bit of mie.
write_sie_all(h, w) == [h EXCEPT !.mie = w \cap interrupt_implemented]

write_mie(h, w) == [h EXCEPT !.mie = w \cap interrupt_implemented]
write_sie(h, w) == [h EXCEPT !.mie = (@ \ h.mideleg) \cup (w \cap h.mideleg)]

write_mideleg(h, w) == [h EXCEPT !.mideleg = w \cap (IF HasS THEN SBits ELSE {})]
write_medeleg(h, w) == [h EXCEPT !.medeleg = w \cap Delegable]

write_tvec(h, mode, zero) ==
  [h EXCEPT !.vector = IF zero THEN @ \ {mode} ELSE @ \cup {mode}]

---------------------------------------------------------------------------
(* Interrupt delivery. *)

\* Mutant: S-mode takes delegated interrupts whatever SIE says.
enable_interrupts_nosie(h) ==
  IF h.priv = M THEN (IF "MIE" \in h.mstatus THEN Bits \ h.mideleg ELSE {}) ELSE Bits

\* The switch on the privilege in the commit stages and in
\* dispatch_pending_interrupts.
enable_interrupts(h) ==
  CASE h.priv = M -> IF "MIE" \in h.mstatus THEN Bits \ h.mideleg ELSE {}
    [] h.priv = S -> (Bits \ h.mideleg) \cup (IF "SIE" \in h.mstatus THEN h.mideleg ELSE {})
    [] h.priv = U -> Bits

interrupt_mask(h, pend) == pend \cap h.mie \cap enable_interrupts(h)

\* kPriorityOrder.
Rank == [MEIP |-> 1, MSIP |-> 2, MTIP |-> 3, SEIP |-> 4, SSIP |-> 5, STIP |-> 6]

\* select_highest_priority_interrupt(mask) returns b.
is_highest_priority_interrupt(b, mask) == b \in mask /\ \A c \in mask : Rank[b] <= Rank[c]

\* raise_exception as an outcome of the step.
Raise(h, cause) ==
  /\ hart' = raiseException(h, cause)
  /\ halted' \in Stops(h, cause)
  /\ took' = cause

\* Mutant: the interrupt check looks at the state before the instruction.
Commit_early(h) ==
  LET mask == interrupt_mask(hart, mip)
  IN  \/ \E b \in mask : is_highest_priority_interrupt(b, mask) /\ Raise(h, b)
      \/ mask = {} /\ hart' = h /\ took' = "commit" /\ UNCHANGED halted

\* The end of commit_control_flow_and_traps, run_commit_stage_baremetal,
\* advance_cached_pc and commit_cached_branch_target: h is the state the
\* instruction leaves, and the interrupt check looks at it and at the new mip.
Commit(h) ==
  LET mask == interrupt_mask(h, mip')
  IN  \/ \E b \in mask : is_highest_priority_interrupt(b, mask) /\ Raise(h, b)
      \/ mask = {} /\ hart' = h /\ took' = "commit" /\ UNCHANGED halted

---------------------------------------------------------------------------
(* Instructions. *)

Running == ~halted

\* Any instruction without an effect on these registers; a load-reserved takes the
\* reservation, a store, an AMO or a store-conditional ends it.
Ordinary ==
  /\ Running
  /\ UNCHANGED mipVars
  /\ \E r \in BOOLEAN : Commit([hart EXCEPT !.reserved = r])

\* A fetch, decode, execute or memory exception, among them the illegal-instruction
\* exception of an access that canAccessCsr or canExecutePrivilegedInstruction
\* refuses: no interrupt check.
Fault ==
  /\ Running
  /\ Raise(hart, "Fault")
  /\ UNCHANGED mipVars

Mret == Running /\ hart.priv = M /\ UNCHANGED mipVars /\ Commit(mret(hart))

Sret ==
  /\ Running
  /\ HasS /\ hart.priv >= S /\ ~(hart.priv = S /\ "TSR" \in hart.mstatus)
  /\ UNCHANGED mipVars
  /\ Commit(sret(hart))

Ecall ==
  /\ Running
  /\ ~(DirectSbi /\ hart.priv = S)
  /\ Raise(hart, CASE hart.priv = U -> "UserEcall"
                   [] hart.priv = S -> "SupervisorEcall"
                   [] hart.priv = M -> "MachineEcall")
  /\ UNCHANGED mipVars

\* Sbi::handle_ecall: base, rfence and the unsupported calls only return; a system reset
\* and the legacy shutdown stop the machine; send_ipi posts SSIP; set_timer hands the
\* comparator to STIP.  The privilege stays and there is no interrupt check.
SbiEcall ==
  /\ Running
  /\ DirectSbi /\ hart.priv = S
  /\ hart' = [hart EXCEPT !.reserved = FALSE]
  /\ took' = "sbi"
  /\ \/ UNCHANGED mipVars /\ halted' \in BOOLEAN
     \/ send_ipi /\ UNCHANGED halted
     \/ \E on \in BOOLEAN :
          /\ latch' = Set(latch, "stip_timer", on)
          /\ mip' = refresh_supervisor_pending(mip \ {"MTIP"}, latch')
          /\ UNCHANGED halted

\* CSR instructions that canAccessCsr allows in M-mode only.
CsrMachine ==
  /\ Running
  /\ hart.priv = M
  /\ \/ /\ UNCHANGED mipVars
        /\ \/ \E w \in MstatusWrites, p \in 0 .. 3 : Commit(write_mstatus(hart, w, p))
           \/ \E w \in MieWrites : Commit(write_mie(hart, w))
           \/ \E w \in DelegWrites :
                HasS /\ (Commit(write_mideleg(hart, w)) \/ Commit(write_medeleg(hart, w)))
           \/ \E zero \in BOOLEAN : Commit(write_tvec(hart, M, zero))
     \/ (\E rs \in MipWrites : CsrrwMip(rs) \/ CsrrsMip(rs) \/ CsrrcMip(rs)) /\ Commit(hart)

\* CSR instructions that S-mode may execute too.
CsrSupervisor ==
  /\ Running
  /\ HasS /\ hart.priv >= S
  /\ \/ /\ UNCHANGED mipVars
        /\ \/ \E w \in MstatusWrites : Commit(write_sstatus(hart, w))
           \/ \E w \in MieWrites : Commit(write_sie(hart, w))
           \/ \E zero \in BOOLEAN : Commit(write_tvec(hart, S, zero))
     \/ \E w \in MipWrites : write_sip(hart.mideleg, w) /\ Commit(hart)

Instruction ==
  Ordinary \/ Fault \/ Mret \/ Sret \/ Ecall \/ SbiEcall \/ CsrMachine \/ CsrSupervisor

\* The PLIC, the CLINT and the clock between two instructions.
Device ==
  /\ Running
  /\ \E b \in Lines, on \in BOOLEAN :
       IF b \in MBits
       THEN mip' = Set(mip, b, on) /\ UNCHANGED latch
       ELSE /\ latch' = Set(latch, b, on)
            /\ mip' = refresh_supervisor_pending(mip, latch')
  /\ took' = "device"
  /\ UNCHANGED <<hart, halted>>

Halted == halted /\ UNCHANGED <<trapVars, mipVars>>

TrapNext == Instruction \/ Device \/ Halted

TrapSpec == TrapInit /\ [][TrapNext]_<<trapVars, mipVars>>
---------------------------------------------------------------------------
(* Properties. *)

\* The architecture's rule for where, if anywhere, interrupt b traps.
TrapsToM(b) ==
  b \in (mip \cap hart.mie) \ hart.mideleg /\ (hart.priv < M \/ "MIE" \in hart.mstatus)
TrapsToS(b) ==
  /\ b \in mip \cap hart.mie \cap hart.mideleg
  /\ hart.priv = U \/ (hart.priv = S /\ "SIE" \in hart.mstatus)

\* At the first instruction of an interrupt handler: the interrupt is pending and
\* enabled, the handler runs in the mode that mideleg names, and the context it
\* saved shows that the interrupted mode could be interrupted (its own xIE was
\* set, or it was less privileged), also when the interrupt strikes in the very
\* step of an MRET, an SRET or a CSR write.
InterruptLegal ==
  took \in Bits =>
    /\ took \in mip \cap hart.mie
    /\ hart.priv = (IF took \in hart.mideleg THEN S ELSE M)
    /\ IF hart.priv = M THEN hart.mpp = M => "MPIE" \in hart.mstatus
                        ELSE "SPP" \in hart.mstatus => "SPIE" \in hart.mstatus

\* An instruction that completes leaves no interrupt behind that the architecture
\* would take: one that the instruction itself enabled (CSR write of mie, mip,
\* mideleg or mstatus, MRET, SRET) strikes before the next instruction.
Prompt ==
  took = "commit" => \A b \in Bits : ~TrapsToM(b) /\ ~TrapsToS(b)

\* What runs below M-mode, whatever it does with its CSRs, its traps and the SBI,
\* changes nothing that belongs to M-mode: the delegations, the M-level enables,
\* M's trap stack, its vector, the software-posted interrupts, and it cannot set
\* MPRV (write_sstatus, write_sie, write_sip, sret, delegated traps).
SupervisorConfined ==
  [][hart.priv < M /\ hart'.priv < M =>
       /\ \A f \in {"mideleg", "medeleg", "mpp"} : hart'[f] = hart[f]
       /\ hart'.mie \ hart.mideleg = hart.mie \ hart.mideleg
       /\ hart'.mstatus \cap {"MIE", "MPIE", "TSR"} = hart.mstatus \cap {"MIE", "MPIE", "TSR"}
       /\ "MPRV" \in hart'.mstatus => "MPRV" \in hart.mstatus
       /\ M \in hart'.vector <=> M \in hart.vector
       /\ latch' \cap {"seip_software", "stip_software"}
            = latch \cap {"seip_software", "stip_software"}]_<<trapVars, mipVars>>
=============================================================================
