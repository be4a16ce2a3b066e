---------------------------- MODULE MCInterrupts ----------------------------
(* The interrupt sources.  A behaviour looks closely at the PLIC (a virtio line *)
(* and a line that the UART and the RTC share), or closely at the clock, or at   *)
(* both with the UART's line alone and the clock in functional mode outside a    *)
(* batch, in step with mcycle.                                                   *)
EXTENDS Interrupts

VARIABLE focus

mcVars == <<focus, vars>>

OneClock == mode = "functional" /\ iter = 0 /\ skew = (Divider - 1) % Range64
OneLine  == /\ plic_pending \cup asserted \cup plic_enables[0] \cup plic_enables[1] \subseteq UartIrqs
            /\ alarm = {} /\ plic_threshold = [c \in Contexts |-> 0] /\ \A i \in VirtioIrqs : plic_priorities[i] = 0

McInit ==
  /\ Init
  /\ focus \in {"plic", "clint", "both"}
  /\ focus \in {"plic", "both"} => mode = "functional"

PlicPart  == /\ focus \in {"plic", "both"}
             /\ PlicNext /\ UNCHANGED <<clintVars, focus>>
             /\ focus = "both" => OneLine'
ClintPart(A) == /\ focus \in {"clint", "both"}
                /\ A /\ UNCHANGED <<plicVars, focus>>
                /\ focus = "both" => OneClock'

McNext ==
  \/ PlicPart
  \/ ClintPart(ClintNext)
  \/ MipNext /\ UNCHANGED <<plicVars, clintVars, focus>>

\* The simulation loop goes on executing instructions, and a batch comes to its end.
McSpec == McInit /\ [][McNext]_mcVars /\ WF_mcVars(ClintPart(Clock))
=============================================================================
