-------------------------------- MODULE Uart --------------------------------
(***************************************************************************)
(* The 16550 UART.  The guest's register accesses and the polling run on   *)
(* the simulation thread, which alone may drive the PLIC line; received    *)
(* bytes come from host threads (the stdin thread of a command-line        *)
(* session; the PTY reader and the keyboard of a TUI session), which share *)
(* the receive FIFO under rx_mutex_ and otherwise only the flag rx_ready_. *)
(* A critical section is one step; what the simulation thread does between *)
(* two of them is not.                                                     *)
(***************************************************************************)
EXTENDS Naturals, Sequences

CONSTANTS Bytes,        \* received bytes
          FifoMax,      \* kMaxRxFifoSize, 2048
          Sessions      \* the kinds of session: "cli", "tui", "tui_batch"

ASSUME UartAssumption ==
  FifoMax \in Nat \ {0} /\ Sessions \subseteq {"cli", "tui", "tui_batch"}

VARIABLES session,          \* chosen at start
          rx_fifo, rx_ready,
          uart_ier,         \* the enables that matter: "RX" and "TX"
          dlab,             \* uart_lcr_ & kUartLcrDlabMask
          tx_irq_pending,
          line,             \* the level last given to plic_set_irq
          sim,              \* where the simulation thread is
          unseen            \* history: bytes came after the line was last decided

uartRegs == <<uart_ier, dlab, tx_irq_pending>>
uartVars == <<session, rx_fifo, rx_ready, uartRegs, line, sim, unseen>>

UartInit ==
  /\ session \in Sessions
  /\ rx_fifo = <<>> /\ rx_ready = FALSE
  /\ uart_ier = {} /\ dlab = FALSE /\ tx_irq_pending = FALSE
  /\ line = FALSE /\ sim = "guest" /\ unseen = FALSE

-----------------------------------------------------------------------------
(* Host threads.                                                           *)

Full == Len(rx_fifo) = FifoMax

\* Mutant: the room is not tested.
input_thread_full(b) ==
  /\ session = "cli"
  /\ Len(rx_fifo) <= FifoMax
  /\ rx_fifo' = Append(rx_fifo, b)
  /\ rx_ready' = TRUE
  /\ unseen' = TRUE
  /\ UNCHANGED <<session, uartRegs, line, sim>>

\* The stdin thread: a byte for which there is no room is dropped.
input_thread(b) ==
  /\ session = "cli"
  /\ rx_fifo' = IF Full THEN rx_fifo ELSE Append(rx_fifo, b)
  /\ rx_ready' = (rx_fifo' # <<>>)
  /\ unseen' = TRUE
  /\ UNCHANGED <<session, uartRegs, line, sim>>

\* The PTY reader appends what it read, as far as there is room.
pty_reader(bs) ==
  /\ session # "cli"
  /\ rx_fifo' = LET s == rx_fifo \o bs IN SubSeq(s, 1, IF Len(s) > FifoMax THEN FifoMax ELSE Len(s))
  /\ rx_ready' = TRUE
  /\ unseen' = TRUE
  /\ UNCHANGED <<session, uartRegs, line, sim>>

\* A key typed at the TUI.
push_rx_byte(b) ==
  /\ session # "cli"
  /\ ~Full
  /\ rx_fifo' = Append(rx_fifo, b)
  /\ rx_ready' = TRUE
  /\ unseen' = TRUE
  /\ UNCHANGED <<session, uartRegs, line, sim>>

-----------------------------------------------------------------------------
(* The guest's register accesses.                                          *)

\* Drive the line, for the receive state has_rx.
update_uart_irq(has_rx, ier, tx) ==
  line' = (("RX" \in ier /\ has_rx) \/ ("TX" \in ier /\ tx))

\* The line is decided from the FIFO itself, under the lock.
Decide(ier, tx) == update_uart_irq(rx_fifo # <<>>, ier, tx) /\ unseen' = FALSE

\* A read of RBR takes a byte.
ReadRbr ==
  /\ sim = "guest" /\ ~dlab
  /\ rx_fifo' = IF rx_fifo = <<>> THEN <<>> ELSE Tail(rx_fifo)
  /\ rx_ready' = (rx_fifo' # <<>>)
  /\ update_uart_irq(rx_fifo' # <<>>, uart_ier, tx_irq_pending)
  /\ unseen' = FALSE
  /\ UNCHANGED <<session, uartRegs, sim>>

\* Mutant: the transmit interrupt is acknowledged and the line is left alone.
ReadIir_level ==
  /\ sim = "guest"
  /\ rx_fifo = <<>> /\ tx_irq_pending /\ "TX" \in uart_ier
  /\ tx_irq_pending' = FALSE
  /\ UNCHANGED <<session, rx_fifo, rx_ready, uart_ier, dlab, line, sim, unseen>>

\* A read of IIR that reports the transmitter acknowledges it.
ReadIir ==
  /\ sim = "guest"
  /\ rx_fifo = <<>> /\ tx_irq_pending /\ "TX" \in uart_ier
  /\ tx_irq_pending' = FALSE
  /\ Decide(uart_ier, FALSE)
  /\ UNCHANGED <<session, rx_fifo, rx_ready, uart_ier, dlab, sim>>

\* A write of THR: the byte is out at once.
WriteThr ==
  /\ sim = "guest" /\ ~dlab
  /\ tx_irq_pending' = TRUE
  /\ Decide(uart_ier, TRUE)
  /\ UNCHANGED <<session, rx_fifo, rx_ready, uart_ier, dlab, sim>>

WriteIer(ier) ==
  /\ sim = "guest" /\ ~dlab
  /\ uart_ier' = ier
  /\ tx_irq_pending' = (tx_irq_pending \/ "TX" \in ier)
  /\ Decide(ier, tx_irq_pending')
  /\ UNCHANGED <<session, rx_fifo, rx_ready, dlab, sim>>

\* A write of FCR empties the FIFO in one critical section and decides the line
\* in another.
WriteFcr(clear) ==
  /\ sim = "guest"
  /\ rx_fifo' = IF clear THEN <<>> ELSE rx_fifo
  /\ rx_ready' = IF clear THEN FALSE ELSE rx_ready
  /\ sim' = "fcr"
  /\ UNCHANGED <<session, uartRegs, line, unseen>>

EndFcr ==
  /\ sim = "fcr"
  /\ sim' = "guest"
  /\ Decide(uart_ier, tx_irq_pending)
  /\ UNCHANGED <<session, rx_fifo, rx_ready, uartRegs>>

WriteLcr ==
  /\ sim = "guest"
  /\ dlab' = ~dlab
  /\ UNCHANGED <<session, rx_fifo, rx_ready, uart_ier, tx_irq_pending, line, sim, unseen>>

-----------------------------------------------------------------------------
\* Uart::is_input_thread_running: the thread is joinable from the start of
\* Machine::run to its end.
is_input_thread_running == session = "cli"

\* Mutant: the test of the thread is the wrong way round.
Polls_running == is_input_thread_running

\* finalize_cycle polls unless the stdin thread runs; the loop of fast batches does
\* not reach it in a TUI session.
Polls == ~is_input_thread_running /\ session # "tui_batch"

\* non_tui_poll_input in a TUI session reads the flag without the lock...
Poll ==
  /\ sim = "guest" /\ Polls
  /\ sim' = IF rx_ready THEN "data" ELSE "no_data"
  /\ unseen' = FALSE
  /\ UNCHANGED <<session, rx_fifo, rx_ready, uartRegs, line>>

\* ... and then drives the line.
EndPoll ==
  /\ sim \in {"data", "no_data"}
  /\ sim' = "guest"
  /\ update_uart_irq(sim = "data", uart_ier, tx_irq_pending)
  /\ UNCHANGED <<session, rx_fifo, rx_ready, uartRegs, unseen>>

UartHost ==
  \/ \E b \in Bytes : input_thread(b) \/ push_rx_byte(b)
  \/ \E n \in 1..2 : \E bs \in [1..n -> Bytes] : pty_reader(bs)

UartGuest ==
  \/ ReadRbr \/ ReadIir \/ WriteThr \/ WriteLcr
  \/ \E ier \in SUBSET {"RX", "TX"} : WriteIer(ier)
  \/ \E clear \in BOOLEAN : WriteFcr(clear)


\* What the simulation thread does of itself.
UartThread == Poll \/ EndPoll \/ EndFcr

UartNext == UartHost \/ UartGuest \/ UartThread

UartSpec == UartInit /\ [][UartNext]_uartVars

-----------------------------------------------------------------------------
(* Properties.                                                             *)

\* Type invariant; the FIFO keeps its bound whichever thread fills it.
UartTypeOK ==
  /\ session \in Sessions
  /\ rx_fifo \in Seq(Bytes) /\ Len(rx_fifo) <= FifoMax /\ rx_ready \in BOOLEAN
  /\ uart_ier \subseteq {"RX", "TX"} /\ dlab \in BOOLEAN /\ tx_irq_pending \in BOOLEAN
  /\ line \in BOOLEAN /\ sim \in {"guest", "fcr", "data", "no_data"} /\ unseen \in BOOLEAN

\* Uart::is_interrupt_pending.
is_interrupt_pending == ("RX" \in uart_ier /\ rx_fifo # <<>>) \/ ("TX" \in uart_ier /\ tx_irq_pending)

\* The flag that polling relies on tells the truth about the FIFO, whichever thread
\* changed it last.
ReadyExact == rx_ready <=> rx_fifo # <<>>

\* While the guest runs, the PLIC line is never up without cause, and down with
\* cause only for bytes that came since the simulation thread last looked.
LineExact ==
  sim = "guest" => /\ line => is_interrupt_pending
                   /\ is_interrupt_pending => line \/ unseen

\* In a TUI session whose cycles are finalized one by one, a received byte that the guest
\* wants to hear of reaches the PLIC, unless the guest takes it first or changes its mind.
RxReported ==
  LET wanted == "RX" \in uart_ier /\ rx_fifo # <<>>
  IN  session = "tui" => [](wanted => <>(line \/ ~wanted))
=============================================================================
