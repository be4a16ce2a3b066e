---------------------------- MODULE Reservation ----------------------------
(***************************************************************************)
(* The memory stage's reservation of LR and SC: load_res remembers the     *)
(* address of the last LR, reserved whether it still holds.  fault says    *)
(* that the access of an instruction traps.                                *)
(***************************************************************************)
CONSTANT Words       \* addresses LR and SC are used on

ASSUME WordsAssumption == Words # {} /\ "none" \notin Words

VARIABLES
  load_res,      \* state.load_res
  reserved,      \* state.reserved
  link,          \* history: the word of an LR after which came no scalar store, AMO, SC or trap, or NoLink
  sc             \* history: the last SC that did not trap

resVars == <<load_res, reserved, link, sc>>

NoLink == "none"
NoSc   == [rd |-> 1, wrote |-> FALSE, linked |-> FALSE, agreed |-> FALSE]

ResInit ==
  /\ load_res \in Words /\ reserved = FALSE
  /\ link = NoLink /\ sc = NoSc

\* Traps and their returns end the reservation.
raise_exception == reserved' = FALSE /\ link' = NoLink /\ UNCHANGED sc

\* memory_load_phase takes the reservation even when the load has trapped; the trap that
\* follows in the same step ends it.
LoadReserved(a, fault) ==
  /\ load_res' = a
  /\ IF fault THEN raise_exception
     ELSE reserved' = TRUE /\ link' = a /\ UNCHANGED sc

\* Mutant: only a store that was performed ends the reservation.
memory_store_phase_kept(a, store, fault) ==
  IF store /\ fault THEN raise_exception
  ELSE reserved' = (reserved /\ ~store) /\ link' = NoLink

memory_store_phase(a, store, fault) ==
  IF store /\ fault THEN raise_exception
  ELSE reserved' = FALSE /\ link' = NoLink

\* agreed: in lockstep the reference simulator may fail an SC that would succeed.
StoreConditional(a, agreed, fault) ==
  LET native_success == a = load_res /\ reserved
      wb_data == IF native_success /\ agreed THEN 0 ELSE 1
      store == wb_data = 0 /\ reserved
  IN /\ memory_store_phase(a, store, fault)
     /\ sc' = IF store /\ fault THEN sc
              ELSE [rd |-> wb_data, wrote |-> store, linked |-> link = a, agreed |-> agreed]
     /\ UNCHANGED load_res

\* A scalar store or an AMO.
PlainStore(a, fault) == memory_store_phase(a, TRUE, fault) /\ UNCHANGED <<load_res, sc>>

\* A vector store stores in the execute stage, and run_memory_stage returns before the phases
\* that end a reservation; only a fault ends it.
VectorStore(fault) ==
  /\ IF fault THEN raise_exception ELSE UNCHANGED <<reserved, link, sc>>
  /\ UNCHANGED load_res

TrapOrReturn == raise_exception /\ UNCHANGED load_res

ResNext ==
  \/ \E a \in Words, f \in BOOLEAN : LoadReserved(a, f) \/ PlainStore(a, f)
  \/ \E a \in Words, g, f \in BOOLEAN : StoreConditional(a, g, f)
  \/ \E f \in BOOLEAN : VectorStore(f)
  \/ TrapOrReturn

ResSpec == ResInit /\ [][ResNext]_resVars

-----------------------------------------------------------------------------
\* A store-conditional that reports success has stored, and one that reports failure has not;
\* it succeeds only on the word of a load-reserved after which the hart made no scalar store,
\* AMO, store-conditional or trap, and then it does succeed, also after a vector store, which the
\* architecture allows. (memory_load_phase, memory_store_phase, run_memory_stage, raise_exception)
ScExact ==
  /\ sc.rd = 0 <=> sc.wrote
  /\ sc.rd = 0 => sc.linked
  /\ sc.linked /\ sc.agreed => sc.rd = 0
=============================================================================
