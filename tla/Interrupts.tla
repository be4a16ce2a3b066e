----------------------------- MODULE Interrupts -----------------------------
(***************************************************************************)
(* The interrupt sources of the hart together: PLIC, CLINT, the CSR file's *)
(* writes of mip and the direct SBI share the one mip register.            *)
(***************************************************************************)
EXTENDS Plic, Clint

vars == <<plicVars, clintVars, mipVars>>

TypeOK == MipTypeOK /\ PlicTypeOK /\ ClintTypeOK

Init == MipInit /\ PlicInit /\ ClintInit

Next ==
  \/ PlicNext  /\ UNCHANGED clintVars
  \/ ClintNext /\ UNCHANGED plicVars
  \/ MipNext   /\ UNCHANGED <<plicVars, clintVars>>

Spec == Init /\ [][Next]_vars

\* Every bit of mip that software may not write shows its source, and SEIP and
\* STIP show the OR of theirs, in every interleaving of guest accesses, device
\* events and clock steps. This is about forward execution: a step back restores mip and the
\* CLINT and leaves the PLIC as it is (perform_backstep).
SignalsConsistent == ExternalPending /\ SupervisorPending /\ TimerPending
=============================================================================
