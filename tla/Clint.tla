-------------------------------- MODULE Clint --------------------------------
(***************************************************************************)
(* The core-local interruptor: the clock (mtime, advanced every Divider    *)
(* cycles through rtc_divider), the timer comparator, the software         *)
(* interrupt bit, and the two owners of the timer signal.  A CLINT write   *)
(* makes the comparator machine-owned (it drives MTIP); the direct SBI's   *)
(* set_timer makes it supervisor-owned (it drives the stip_timer latch).   *)
(*                                                                         *)
(* Counters keep their width: a value is hi * Half + lo with both halves   *)
(* below Half (2^32 in the code), and addition wraps.                      *)
(***************************************************************************)
EXTENDS Mip, Integers

CONSTANTS Half,        \* values of a register half: 2^32
          Divider,     \* cycles per mtime tick: 10
          MaxStep,     \* bound: cycles of one cycle-accurate step
          BatchSize    \* bound: iterations of one fast batch: 65536

ASSUME ClintAssumption ==
  /\ Half \in Nat /\ Half >= 2
  /\ Divider \in Nat \ {0}
  /\ MaxStep \in Nat \ {0}
  /\ BatchSize \in Nat \ {0}

Range64 == Half * Half
Times   == 0 .. Range64 - 1
Modes   == {"functional", "cycle_accurate"}

VARIABLES mtime, mtimecmp, supervisor_timer,
          rtc_divider,  \* cycles since the last tick, < Divider between steps
          mcycle,       \* cycle counter
          mode,         \* s_cycle_accurate, fixed for a run
          iter,         \* iterations done in the current fast batch; 0 outside
          cached_ops,   \* instructions of the batch whose cycles are not yet counted
          skew          \* history: mtime * Divider + rtc_divider - mcycle, as last
                        \* set by a guest write to mtime or mcycle

clock     == <<mtime, rtc_divider, mcycle>>
batch     == <<iter, cached_ops>>
clintVars == <<clock, mtimecmp, supervisor_timer, mode, batch, skew>>

ClintTypeOK ==
  /\ mtime \in Times
  /\ mtimecmp \in Times
  /\ supervisor_timer \in BOOLEAN
  /\ rtc_divider \in 0 .. Divider - 1
  /\ mcycle \in Times
  /\ mode \in Modes
  /\ iter \in 0 .. BatchSize
  /\ cached_ops \in 0 .. iter
  /\ skew \in Times

\* ClintMmio::reset.
ClintInit ==
  /\ mtime = 1
  /\ mtimecmp = Range64 - 1
  /\ supervisor_timer = FALSE
  /\ rtc_divider = 0
  /\ mcycle = 1
  /\ mode \in Modes
  /\ iter = 0
  /\ cached_ops = 0
  /\ skew = (Divider - 1) % Range64

---------------------------------------------------------------------------

\* CPU::evaluate_timer_interrupt over the comparator's next values.
evaluate_timer_interrupt(time, cmp, sup) ==
  LET pending == time >= cmp
      l       == Set(latch, "stip_timer", sup /\ pending)
  IN  /\ latch' = l
      /\ mip' = refresh_supervisor_pending(Set(mip, "MTIP", ~sup /\ pending), l)

\* The skew a guest write leaves behind.
NewSkew(time, div, cyc) == (time * Divider + div - cyc) % Range64

lo(v) == v % Half
hi(v) == v \div Half
WithLo(v, x) == hi(v) * Half + x
WithHi(v, x) == x * Half + lo(v)

---------------------------------------------------------------------------
(* Guest accesses.  A guest instruction runs inside a step of the clock; the *)
(* registers it touches are the ones below.                                  *)

\* ClintMmio::handle_request / mmio_write: mtimecmp, all of it or one half.
write_mtimecmp(v) ==
  /\ supervisor_timer' = FALSE
  /\ mtimecmp' = v
  /\ evaluate_timer_interrupt(mtime, v, FALSE)
  /\ UNCHANGED <<clock, mode, batch, skew>>

\* The same for mtime; rtc_divider keeps its phase.
write_mtime(v) ==
  /\ supervisor_timer' = FALSE
  /\ mtime' = v
  /\ evaluate_timer_interrupt(v, mtimecmp, FALSE)
  /\ skew' = NewSkew(v, rtc_divider, mcycle)
  /\ UNCHANGED <<rtc_divider, mcycle, mtimecmp, mode, batch>>

WriteTimer ==
  \/ \E v \in Times : write_mtimecmp(v) \/ write_mtime(v)
  \/ \E x \in 0 .. Half - 1 :
       \/ write_mtimecmp(WithLo(mtimecmp, x)) \/ write_mtimecmp(WithHi(mtimecmp, x))
       \/ write_mtime(WithLo(mtime, x)) \/ write_mtime(WithHi(mtime, x))

write_msip(on) ==
  /\ mip' = Set(mip, "MSIP", on)
  /\ UNCHANGED <<latch, clintVars>>

\* CsrFile::write, case Mcycle (mcycle and mcycleh).
write_mcycle(v) ==
  /\ mcycle' = v
  /\ skew' = NewSkew(mtime, rtc_divider, v)
  /\ UNCHANGED <<mtime, rtc_divider, mtimecmp, supervisor_timer, mode, batch, mipVars>>

\* Sbi::handle_time: set_timer.
set_timer(v) ==
  /\ HasS
  /\ supervisor_timer' = TRUE
  /\ mtimecmp' = v
  /\ evaluate_timer_interrupt(mtime, v, TRUE)
  /\ UNCHANGED <<clock, mode, batch, skew>>

---------------------------------------------------------------------------
(* The clock. *)

\* n more cycles: mtime advances by the whole ticks, the rest stays in
\* rtc_divider, and the comparator is evaluated only when mtime moved.
Advance(n) ==
  LET d == rtc_divider + n
  IN  /\ mcycle' = (mcycle + n) % Range64
      /\ rtc_divider' = d % Divider
      /\ mtime' = (mtime + d \div Divider) % Range64
      /\ IF d >= Divider
         THEN evaluate_timer_interrupt(mtime', mtimecmp, supervisor_timer)
         ELSE UNCHANGED mipVars
      /\ UNCHANGED <<mtimecmp, supervisor_timer, mode, skew>>

\* CPU::run_cycle in cycle-accurate mode: the step's latency in cycles.
RunCycleAccurate(n) ==
  /\ mode = "cycle_accurate"
  /\ Advance(n)
  /\ UNCHANGED batch

\* CPU::run_cycle and run_cycle_baremetal in functional mode, outside a batch
\* or as one iteration of it (a decode-cache miss).
RunCycle ==
  /\ mode = "functional"
  /\ Advance(1)
  /\ \/ iter = 0 /\ UNCHANGED batch
     \/ iter < BatchSize /\ iter' = iter + 1 /\ UNCHANGED cached_ops

\* An iteration of run_fast_baremetal_batch that hits the decode cache: its
\* cycle is counted when the batch ends.
CachedOp ==
  /\ mode = "functional"
  /\ iter < BatchSize
  /\ iter' = iter + 1
  /\ cached_ops' = cached_ops + 1
  /\ UNCHANGED <<clock, mtimecmp, supervisor_timer, mode, skew, mipVars>>

\* Mutant: the batch counts its cycles but the clock starts from zero phase.
BatchEnd_phase ==
  /\ iter > 0
  /\ mcycle' = (mcycle + cached_ops) % Range64
  /\ rtc_divider' = cached_ops % Divider
  /\ mtime' = (mtime + cached_ops \div Divider) % Range64
  /\ evaluate_timer_interrupt(mtime', mtimecmp, supervisor_timer)
  /\ iter' = 0 /\ cached_ops' = 0
  /\ UNCHANGED <<mtimecmp, supervisor_timer, mode, skew>>

\* Mutant: the batch forgets to advance the clock.
BatchEnd_forgets ==
  /\ iter > 0
  /\ iter' = 0 /\ cached_ops' = 0
  /\ UNCHANGED <<clock, mtimecmp, supervisor_timer, mode, skew, mipVars>>

\* The tail of run_fast_baremetal_batch, after the last iteration or an early
\* break (tohost written, or the machine stopped).
BatchEnd ==
  /\ iter > 0
  /\ Advance(cached_ops)
  /\ iter' = 0
  /\ cached_ops' = 0

Clock == (\E n \in 1 .. MaxStep : RunCycleAccurate(n)) \/ RunCycle \/ CachedOp \/ BatchEnd

ClintNext ==
  \/ WriteTimer
  \/ \E on \in BOOLEAN : write_msip(on)
  \/ \E v \in Times : write_mcycle(v) \/ set_timer(v)
  \/ Clock

ClintAlone == MipInit /\ ClintInit

ClintSpec ==
  /\ ClintAlone
  /\ [][ClintNext \/ (MipNext /\ UNCHANGED clintVars)]_<<clintVars, mipVars>>

\* Whatever the guest does, the simulation loop goes on executing instructions
\* and a batch comes to its end.
FairClintSpec == ClintSpec /\ WF_<<clintVars, mipVars>>(Clock)

---------------------------------------------------------------------------
(* Properties. *)

\* The timer signal always is the comparator's current output, on the line of
\* the comparator's current owner and on no other: a stale MTIP or stip_timer
\* cannot survive a write of mtime or mtimecmp, a change of owner, a tick, or a
\* batch that counts its cycles late (evaluate_timer_interrupt and its callers).
TimerPending ==
  /\ "MTIP" \in mip <=> ~supervisor_timer /\ mtime >= mtimecmp
  /\ "stip_timer" \in latch <=> supervisor_timer /\ mtime >= mtimecmp

\* The wall clock and the cycle counter never drift apart, whichever of the
\* four ways of counting cycles a step takes: outside the cycles a running batch
\* still owes to both, mtime * Divider + rtc_divider moves with mcycle.
NoDrift == (mtime * Divider + rtc_divider) % Range64 = (mcycle + skew) % Range64

\* The ticks that one step, or the end of one batch, can add to mtime at once.
Jump == (Divider - 1 + (IF MaxStep > BatchSize THEN MaxStep ELSE BatchSize)) \div Divider

\* When the guest stops writing timer registers the comparator fires again and
\* again, also in fast batches that postpone the clock: several ticks at once never
\* carry mtime past it unseen, unless the comparator is so close to the largest
\* value (as the reset value is) that the wrap hides it.
TimerFires ==
  (<>[][Clock]_<<clintVars, mipVars>> /\ <>[](mtimecmp <= Range64 - Jump))
    => []<>("MTIP" \in mip \/ "stip_timer" \in latch)
=============================================================================
