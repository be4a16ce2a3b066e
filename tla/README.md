# SimRV in TLA+

SimRV is a RISC-V system simulator: one hart with M, S and U modes, virtual memory,
the SiFive-style PLIC and CLINT, virtio devices, a UART, a terminal user interface, a
GDB stub and reverse execution. This directory holds TLA+ modules that model its
control logic, TLC configurations that check them on small instances, and TLAPS proofs
of the most important results.

Paths below are relative to the repository.

## 1. Inventory

| Component | State | Operations | Interacts with |
|---|---|---|---|
| Interrupt pending register (`ArchState`, `CsrFile`) | `mip`, latches `seip_software`, `seip_external`, `stip_software`, `stip_timer` | CSR instructions on `mip`, SBI `send_ipi`, `refresh_supervisor_pending` | written by PLIC, CLINT, CSR file, SBI; read at every commit |
| PLIC (`PlicMmio`, `InterruptController`) | pending, priorities, enables, thresholds, one claim per context | `setIrq`, register writes, claim (a read), complete, `updateMip` | devices raise and lower lines; completion looks back at the device |
| CLINT and clock (`ClintMmio`, `CPU`) | `mtime`, `mtimecmp`, `supervisor_timer`, `rtc_divider`, `mcycle` | register writes (64 bit or halves), SBI `set_timer`, tick, batch end | drives MTIP or `stip_timer` |
| Traps and privilege (`TrapController`, commit stages) | privilege, `mstatus`, delegation, enables, vectors, LR reservation | `raiseException`, `mret`, `sret`, interrupt check, CSR writes | every instruction |
| Direct SBI (`Sbi`) | none | time, ipi, rfence, reset, base calls | CLINT, `mip`, TLBs, machine |
| Address translation (`Mmu`, `Tlb`, soft TLB, decode cache) | three TLBs, a direct-mapped soft TLB with an epoch, decoded instructions by PC | page walk, A/D update, lookup, flushes | `satp`, `mstatus`, SFENCE.VMA, FENCE.I, DMA |
| Machine run control (`Machine`) | `execution_state_`, `is_running_`, `is_shutdown_`, reboot request | pause, resume, step, stop, reboot, exit, main loop | TUI and GDB threads, devices |
| Reverse execution (`CPU`) | a bounded deque of undo records | push, record write, backstep | memory, registers |
| UART | receive FIFO, IER, flags, host input and PTY threads | register accesses, `push_rx_byte`, polling | PLIC, host threads |
| Virtio transport, console, disk | device status, queues, interrupt status | MMIO registers, `process_queue`, interrupt | guest memory, PLIC |
| RTC | alarm, enable | register accesses | PLIC |
| Caches (`ICache`, `DCache`) | lines, LRU stamps | lookup, fill, store, flush | memory behind them, which others write too |
| MMIO router, TileLink bus (`MmioRouter`, `TileLinkBus`) | registered devices, the request in flight | register, resolve, read, write | devices, RAM |
| In-order pipeline model (`InOrderPipeline`) | stage latches, stall counters, predictors, statistics, saved copies | one tick, `step_instruction`, save, restore, configure | cycles go to the clock |
| Decoder, execute units | `fcsr`, `vtype`, `vl`, `vstart`, `vxsat`, LR reservation | decode, integer, FP and vector execution, vector memory accesses | two implementations: stages and cached fast path |
| GDB stub (`GdbStub`) | connection, software breakpoints, single-step flag | `poll`, `notify_breakpoint`, one handler per packet | socket, memory, main loop |
| Breakpoints (`BreakpointManager`, its modal) | breakpoints, watchpoints, `skip_once_pc_`, `active_` | edit, check before and after an instruction | run control, step back |
| Lockstep, symbols | a peer process, a table | compare, look up | |
| TUI, command line, tracer, explainer | presentation | | run control |

What makes the system hard: four independent writers of one `mip` register; level
signals that host threads change while only the simulation thread may tell the PLIC;
a clock that the fast path advances late, in batches; several cached copies of a
translation and of an instruction that must be dropped by the right events;
one execution state written by several threads; device queues in guest memory whose
indices wrap; a trap that may strike in the very step that changes what it depends on;
instructions implemented twice; vector instructions that read and write one register file
element by element and can be restarted in the middle; caches that half of the writers
bypass; a timing model reconfigured and rolled back while it runs; a debugger that takes a
running machine for stopped.
`PROJECT.json` lists each of these hazards at its line.

What makes each component correct:

* *Pending register, PLIC, CLINT*: every bit shows its source at all times; no device
  interrupt is lost between assertion and acknowledgement; clock and cycle counter
  agree; the comparator fires.
* *Traps*: privilege registers hold only supported modes; interrupts strike exactly
  where the architecture allows; supervisor software cannot change M-mode's state.
* *Translation*: a cached translation or instruction is never used after the event
  that the architecture lets software rely on.
* *Run control*: no request of the user interface is lost, nobody waits for ever.
* *Queues*: each buffer that the guest offers is consumed and returned once.
* *Caches, bus*: a cached byte differs from memory only where a writer that bypasses the cache
  wrote it; every address reaches its one owner.
* *Decoder, units*: every defined encoding means what the manual says, on every path, also
  after a fault in the middle.
* *Timing model*: no operand is used before it is there, no cycle is lost, every call returns.
* *Debugging*: breakpoints are invisible to the program, every command is answered once, a
  step executes one instruction, a breakpoint or watchpoint pauses.

## 2. Plan

| | Modules | Composed in | Status |
|---|---|---|---|
| 1 | `Mip`, `Plic`, `Clint`, `Interrupts` | `Interrupts`, `MCInterrupts` | checked and proved |
| 2 | `Trap` | `MCTrap` | checked and proved |
| 3 | `Translation` | `MCHart` | checked and proved |
| 4 | `Uart`; `Virtqueue` implements `BlockDevice` | `MCMachine` | checked, safety and refinement proved |
| 5 | `RunControl` | `MCMachine` | checked, safety proved |
| 6 | `Cache`, `DataPath`, `Router` | `MCMachine` | checked and proved |
| 7 | `Decode`, `WordMath`, `IntegerUnit`, `HostFloat`, `FloatUnit`, `FixedPoint`, `VectorAlu`, `VectorUnit`, `VectorMemory`, each with its reference; `Reservation` | `MCExecute` | checked; `Reservation`, `WordMath` and `FixedPoint` proved |
| 8 | `Pipeline`, `Breakpoints`, `GdbStub` | `MCHart` | checked and proved |

Possible extensions, in this order:

* the levels of the page walk and superpages as an algorithm;
* the CLI session, the HTIF protocol and the transport registers of the virtio devices;
* vector floating point on top of `HostFloat`.

## 3. Modules

**`Mip`.** A CSR is the set of its one bits. `mip` and `latch` are `ArchState::mip` and
the four latches. `write_mip` and `write_sip` are the Mip and Sip cases of `CsrFile::write`; `mip_rmw_base` what
CSRRS and CSRRC read; `refresh_supervisor_pending` the OR of the components.

**`Plic`.** The variables carry the names of the fields of `PlicMmio`. `asserted` is the
devices' side (`InterruptStatus # 0`, `Uart::is_interrupt_pending()`), `alarm` the RTC's.
`Claim` and `Complete` are the read and the write of the claim register, the other
writes end in `updateMip` as in the code. `push_rx_byte` is a host thread: it changes
the UART's level and not the PLIC. `displaced` is a history variable that marks the one
known way to lose a re-raise, a second claim before the first completion.

**`Clint`.** `mtime`, `mtimecmp`, `mcycle` wrap at `Half * Half`. `Advance(n)` counts n
cycles; `RunCycleAccurate`, `RunCycle`, `CachedOp` and `BatchEnd` are the four ways in
which the code counts them. `skew` is a history variable: the difference that guest
writes put between the two counters.

**`Interrupts`** composes the three on the one `mip`.

**`Trap`.** `hart` is the part of `ArchState` that `TrapController` works on. A step is
one instruction: its effect, then `Commit`, the interrupt check on the state that it
leaves, unless it raised an exception or was an ECALL that the direct SBI served.
An SBI call may also shut the machine down (`halted`).
The PLIC and the CLINT are an environment, `Device`, that moves the hardware bits.
`took` remembers what ended the step.

**`RunControl`.** A TUI session: `main`'s frame loop on the "ui" thread and `Machine::run`
on the "sim" thread. They share only atomics, so `Machine::stop`, `request_reboot`,
`request_exit` and `Tui::set_paused` are sequences of stores that the other thread can
interrupt anywhere: `code[t]` is what thread t still has to do. The loads count as well: `set_paused`
looks at `is_shutdown_` first and at `paused_` later (`DoSetPaused`, `DoTestPaused`). Both threads execute
both kinds of work, because the Step key runs a guest cycle on the ui thread and the
sim thread reads the keyboard at the end of a fast batch and in a breakpoint trap. A
guest cycle is a choice of its effect on the run state. `UiJoin` is the join and either
the new `Machine` of a reboot or the end of the process.

**`Translation`.** `pt` holds the leaf PTEs of each address space: `LeafOf` names the slot
in which the walk for a page ends, and a PTE without V stands for every descent that
faults. `tlb` is the three tables of class `Tlb` with their two ways and LRU bits, `soft`
the two direct-mapped soft TLBs, whose entries live only in the generation `epoch`,
`decode` the decode cache. `Data` is a load or store that misses the soft TLB, `Fetch` a
fetch that misses the decode cache, with the two lookups and the one or two walks of an
instruction that may lie across a page boundary. Hits of the fast paths and faults change
nothing here. MPP may be any value at any time; a decode entry remembers the privilege
that fetched it, which the code does not (a history variable, like `dirty`, the pages
whose PTE the guest changed and has not fenced since).

**`Uart`.** `rx_fifo`, `rx_ready`, `uart_ier`, `dlab` and `tx_irq_pending` are the fields of
class `Uart`, `line` is what it last told the PLIC. `input_thread`, `pty_reader` and
`push_rx_byte` are the host threads, each critical section under `rx_mutex_` one step; the
register accesses are steps of the simulation thread, except that FCR (`WriteFcr`,
`EndFcr`) and a poll (`Poll`, `EndPoll`) can be interrupted by the host threads. `session`
tells where the run loop polls: in a TUI session's `finalize_cycle` (`tui`), not in one
that executes batches (`tui_batch`), and not in a command-line session (`cli`), because
each of the four calls of `non_tui_poll_input` is guarded by `is_input_thread_running`
or by the session's kind. `unseen` is a history variable: bytes came since the line
was decided.

**`Virtqueue`.** The rings and the chains in guest memory, `QueueState`, `InterruptStatus`
and what is behind the device: the disk's sectors or the terminal's last character.
`process_queue` runs inside the guest's store; its loop is one `process_chain` per
iteration and `end_process_queue`, with `stop_idx` the index that it read first, and the
guest does nothing meanwhile (`GuestRuns`). A chain is its head and a record of its
request, buffer and status byte; the rest of the descriptors' layout is left out. The
driver (`Offer`, `Harvest`, `EndHandling`) is the guest's and follows the virtio
protocol: it acknowledges before it empties the used ring and reuses a chain only once it
has it back. **`BlockDevice`** is what this amounts to: a sequence of submitted chains, a sequence of
served ones, and a medium. `Pending` and `Done` read the two sequences off the rings.

**`Cache`** is `BaseCache` with the look-ups of `ICache` and `DCache`: a record of lines and
of `access_tick_`, on which LRU is decided. **`DataPath`** puts the two caches and memory
together: `run_cycle` is one instruction's loads, stores and fetch in the mode it runs in,
`run_cycle_baremetal` the same by the functional stages of a bare-metal session (`Baremetal`), whose
scalar accesses go to memory whatever the mode, whose vector accesses do so only in high-performance
mode, and whose fetches avoid the instruction cache until `write_satp` sets `s_mmu_ever_used`;
`memory_write` everyone who writes behind the cache (a device, the page walker, the
debugger), `submit` the settings modal, `perform_backstep` the newest checkpoint taken back.
A checkpoint remembers, as history, memory before the instruction and the bytes that others
wrote since; `stale` is the history of the bytes that bypassed a cache.

**`Router`** is the registration of devices, `resolve`'s search for the last base at or below
the address, the hole in the framebuffer, the refusal of accesses that do not fit, are not
allowed or name no width (`InvalidSize`), and the request and response of `TileLinkBus`.

**`Decode`** is the decode stage: the expansion of the compressed encodings, the tables of the
decoder and the checks of extension, width, FS and VS. A 32-bit word is the record of its
fields, a halfword a number. **`DecodeReference`** is the manual's own arrangement: one row
per instruction with the fields that fix it, and the bit of the immediate that each bit of a
compressed encoding carries.

**`WordMath`** is the arithmetic behind the integer unit that is not plain: the products that
`Math.hpp` puts together from halves and magnitudes because there is no type twice as wide, the
quotients with their special cases, the comparisons of the branches in both paths.
**`IntegerUnit`** has both implementations of the integer instructions, the stages (`aluInt32`,
`aluInt`, `aluIntW`, `aluIntB`, `aluAmo`, `branchTaken`, `execute_core`, the commit's jump
check) and `execute_cached_op_fast`. An int has `IntBits` bits and a register
twice as many. **`IntegerReference`** defines the results bit by bit or on the integers.
**`Reservation`** is LR and SC: the two fields of the hart, with the link that the manual speaks of
and the last SC as history. A scalar store, an AMO, an SC and a trap end the reservation; a vector
store, made in the execute stage, ends it only by faulting (`VectorStore`).

**`HostFloat`** is external: IEEE arithmetic as the host's compiler and processor give it.
**`FloatUnit`** is how `ExecuteUnitFloat.cpp` makes instructions of it: boxing, canonical NaNs,
rounding mode, flags, conversions. **`FloatReference`** says what each is defined to do.

**`FixedPoint`** and **`VectorAlu`** are the element functions of the vector unit.
**`VectorUnit`** is the register file as one array of bytes, `vsetvl` and the element loops with
the dispatch above them; an instruction reads its sources from the file that it is writing.
**`VectorReference`** reads all sources first. **`VectorMemory`** adds loads and stores under
demand paging: `MemExecute` is one attempt, which ends at the first fault with the element's
index in `vstart`, and `PageIn` (external) is a handler that maps the page that the trap value
names.

**`Pipeline`** is `InOrderPipeline`. A step is one tick inside `step_instruction`: write-back
to fetch, hazards, penalties, predictors, branch target buffer. `hand_over` gives it the next
instruction, `apply_config` is the configuration modal, `restore_state` a step back. The execute
counter is unsigned (`CounterMod`), so that a divider configured with latency 0 wraps. `avail`
(when each register can be forwarded), `returned`, `fed` and `waited` are history variables.

**`GdbStub`** is the main loop around the stub: `poll` after an instruction,
`notify_breakpoint` with its command loop after an EBREAK or a step, one case per packet.
The debugger is external and follows the remote protocol: one command at a time, `^C` only
while it takes the target for running, a refused packet is sent again. Packets can be damaged
and connections dropped. `program` is memory as the debugger wrote it, breakpoints aside, and
`unreported` counts the instructions since the last stop reply or resumption.

**`Breakpoints`** is `BreakpointManager`, the modal and keys that edit it and the checks
around every instruction, with the step back. The loop of a bare-metal session runs
`run_cycle_baremetal`, which does not set `skip_once_pc_`; the Step key runs `run_cycle` in every
session. `passed` marks addresses whose breakpoint was let through.

`MCInterrupts`, `MCHart`, `MCMachine` and `MCExecute` put several components into one run.
Where two of them share nothing, a variable (`focus`, `unit`) chooses the part that is at work
in a behaviour and the others rest in one state; the components that do interact (PLIC, CLINT
and CSR file on `mip`; caches and reverse execution; UART threads and polling) are interleaved.

Each module defines, next to the operators that model the code, *mutants* of them:
plausible mistakes that the properties must catch. Nothing but the mutation runs
listed in `PROJECT.json` uses them.

## 4. Runs

Passing:

| Run | Shows |
|---|---|
| `interrupts` | every bit of `mip` shows its source (`SignalsConsistent`); no virtio interrupt is lost (`LineAccounted`); `mtime` and `mcycle` never drift apart (`NoDrift`); the comparator fires again and again (`TimerFires`) |
| `trap` | privilege stays legal (`TrapTypeOK`); interrupts strike where allowed and at once (`InterruptLegal`, `Prompt`); S-mode cannot change M-mode's state (`SupervisorConfined`) |
| `hart` | no stale translation or instruction is used (`TlbCoherent`, `SoftCoherent`, `DecodeCoherent`); the timing model (`OperandsReady`, `Accounted`, `StepReturns`); GDB (`BreakpointsTransparent`, `Answered`, `StepStops`); breakpoints (`NeverPassedTwice`, `RegWatchPauses`) |
| `machine` | caches and reverse execution (`OnlyBypassStale`, `BackstepRestores`); the bus (`RouteExact`); the UART (`LineExact`, `RxReported`); virtio (`NoLostCompletion`, `NotifyReturns`, and that `Virtqueue` implements `BlockDevice`, `InOrderOnce`); the threads (`PauseHonoured`, `Teardown`, `RunResumes`); the type invariants of the last three (`MachineTypes`) |
| `execute` | decoder (`DecompressExact`, `DecodeExact`), integer unit (`StagesExact`, `PathsAgree`, `ScExact`), floating point (`FloatExact`), vector unit (`VectorExact`), restarted vector accesses (`RestartTransparent`, `RestartCompletes`) |

### Bounds

* `interrupts`: a virtio line and a line shared by UART and RTC, priorities 0 and 1 (the code
  only compares them); 2-bit counters, written in halves of one bit (`Half`), `Divider` 2, steps of up
  to `MaxStep` = 4 cycles (two ticks and a remainder), batches of 3.
* `trap`: one M-level and two S-level interrupts, delegated or not; operands of CSR writes that
  set and clear every bit that a property names.
* `hart`, translation: two pages that share a TLB set, a soft TLB index and one instruction; two
  address spaces with one ASID, the second empty; two generations (`EpochMax`), so that the
  epoch wraps; two TLB entries at a time (`EntryMax`), all for data or all for code (`Few`),
  because the data and the code tables only meet in the page tables and the flushes.
* `hart`, timing: programs of 4, 4 and 6 instructions that compute, miss and branch; a branch
  target buffer and history table of two entries, so that branches collide; histories of two
  cycles; one saved state; the configuration changes in the middle; latencies of 0, 3 and 4, with
  counters modulo 16 (`CounterMod`).
  The bound of `StepReturns` (`LongestWait`) is one tick for every stage and penalty that the
  instructions in flight can still meet: two loads behind each other pay the miss twice, and each
  instruction was timed by the configuration that it was issued under.
* `hart`, GDB: three commands per session (`CmdMax`) out of every kind, three of them damaged;
  three words of code. Breakpoints: two addresses, one register, two watchpoints (`WatchMax`).
* `machine`, caches: one set of two ways, lines of two bytes, eight bytes of RAM: three
  lines fight for two ways, accesses cross lines; a bare-metal session, which has both kinds of
  cycle; two checkpoints (`UndoMax`), up to five ticks (`TickMax`; seven in `backstep`). Bus: five devices, among them one in the hole of another, one that
  overlaps and one that does not fit; every address and length, one request at a time.
* `machine`, UART: a FIFO of two bytes, so that it fills up. Virtio: rings of two slots, indices
  modulo 4 and a word modulo 8, so that all three wrap, at different times; two chains; every
  request type. Threads: keyboard operation without Step, Back, `q` and the footer's Quit and Reboot,
  which lead to what `run_owner` and `run_teardown` show and to the deviation of Back below; all guest outcomes; two bytes per frame (`KeyMax`), which is what a pause behind another key
  takes; one level of nested work (`CodeMax`).
* `execute`, decoder: every halfword in both widths, and every value of the selecting fields of
  every opcode, in five profiles and with FS or VS off. Integers: 21 values at the ends of byte,
  int and register, in all pairs, with registers of 16 bits and ints of 8. Floats:
  singles of 6 bits (3 exponent, 2 fraction) and doubles of 12 (5 and 6), which have
  every class of number and every rounding case. Vectors: bytes of two bits, six
  registers of eight bytes, ints of 8 bits, SEW 8, 16 and 32 (the code's 64-bit copies are
  the same templates; SEW 64 for the extensions, of which `vf8` has no other), `vmv4r.v` and
  `vmv8r.v` by the loop of `vmv2r.v`; every integer, fixed-point, mask and permutation instruction
  that the decoder knows, with `vrsub`, which is decoded and not executed (`NoCaseOps`); the
  scalar and immediate forms where they have code of their own, sources and destination apart
  and shared, masked or not, two register files, ten settings of SEW, LMUL and `vl`, every
  `vxrm`. Vector floating point is not modelled. Vector memory: unit, strided and indexed accesses, segments and whole registers over
  three pages of eight bytes, of which none or two are present.

### Fairness

`interrupts` assumes that the simulation loop goes on (weak fairness of the clock steps
together), which is what `Machine::run` does while it runs; a batch ends because its iterations
are bounded. `machine` assumes weak fairness of each host thread, which is what the operating
system's scheduler gives them, and that the simulation thread finishes `process_queue` and a
register access that it has begun and polls where the loop polls (the code does when `mtime`
is a multiple of 8192, so this takes the clock to pass through such a value). `execute` assumes
that the processor executes the pending instruction again and that the guest's handler maps
a page. Nothing is assumed of the user, the debugger or the guest's program.

### Violations

Each is a disagreement between the code and its documentation or comments.

* `run_owner`, `CpuOwned`: Step does not wait until the sim thread has left its cycle;
  `sim_thread_is_sleeping_` is stored and never read.
* `run_teardown`, `Teardown`: a pause handled after a quit overwrites `Stopped` with `Paused`,
  on which the sim thread then waits for ever.
* `fetch_priv`, `SupervisorFetch`: the decode cache is looked up by PC alone and no trap flushes
  it, so an instruction fetched in U-mode from a user page is executed in S-mode, where the walk
  that it skips would fault.
* `crossing`, `FaultAddressSuffices`: an access that crosses into an absent page reports the
  address of its first byte, and a handler that maps that byte's page repeats the fault for ever.
* `rv32_shift`, `ShiftsAgree`: on a 32-bit hart of the 64-bit build the fast path shifts
  sign-extended 64-bit registers by six bits of rs2.
* `backstep`, `BackstepVisible`: a step back restores memory and leaves the data cache.
* `btb`, `NeverThrows`: a branch target buffer configured larger than the one that was built
  makes the model index past its end.

### Known deviations

Properties name the following as exceptions, or are stated so that they do not speak of them;
no run is about them.

*Interrupts and traps.* The RTC drives the UART's PLIC source (`PlicMmio`), and its alarm is
evaluated only when the guest accesses one of its registers. `mip_rmw_base` strips only SEIP, so
a CSRRS of another bit latches the SBI timer's STIP as software's
(`docs/architecture/compliance.md:77`). `select_highest_priority_interrupt` applies one
flat order to all enabled interrupts, so a delegated SEI is taken in S-mode before a
non-delegated STI. A step back restores `mip` and the CLINT and not the PLIC (`perform_backstep`,
`Cpu.cpp:1297-1324`), so that SEIP may show an older state of the PLIC until its next event:
`SignalsConsistent` is about forward execution.

*Run control.* `set_paused(false)` tests `is_shutdown_` before its stores, so a poweroff in
between is undone; a new session has `paused_` set and `execution_state_` Running, so the sim
thread spins until the first pause or resume; a poweroff while paused ends `Machine::run`, and
the step back that revives the flags does not restart it (which is why `RunResumes` is checked
without Back); in a GUI-only session `Machine::stop` leaves `is_running_` set; in a batch session,
where both threads read keys, a `q` (or Ctrl-C) on the paused screen that races a resume and is
followed by a pause key reaches the state of `run_teardown` as well.

*Translation.* A step back over a `satp` write flushes the soft TLB only. SFENCE.VMA with an
address inside a superpage drops the one 4 KiB fragment that it names.

*Devices.* In a command-line session nothing polls the UART (`Polls`): `RxReported` is stated
for the sessions that poll. A write of 0 to `Status` does not reset a virtio device's queues,
`QueueNum` is one register for all queues of a device and may exceed `QueueNumMax`, and the
length reported for an identification request is 1 whatever was stored. Devices write behind
the data cache, which nothing then invalidates (`stale`). An identification request whose header ends
the chain stores nothing (`Disk.cpp:132`).

*Caches.* With high-performance mode off, the functional memory stage of a bare-metal session
(`Cpu.cpp:421-604`) loads and stores DRAM without the data cache, while its vector loads, the
cycle-accurate mode and the Step key read the cache: a guest's own scalar store can leave a line
stale, and `OnlyBypassStale` counts it among the writers that bypass the cache. The stage also takes
addresses in the range of DRAM as physical and does not test the alignment of an AMO.

*Decoder.* Five of the eight mask logicals change places and four unary operations of Zvbb
have another meaning (`Deviates`); the B extension is executed without misa.B; `vlm.v` and
`vle*ff.v` are decoded as `vle`. `requires_rv64` (`Common.hpp:400-432`) lacks the word operations of B
(CLZW, CTZW, CPOPW, ROLW, RORW, RORIW, PACKW, ADD.UW, SHxADD.UW, SLLI.UW), and the decoder does not
look at bit 25 of BSETI, BCLRI, BINVI, BEXTI and RORI nor at the width of REV8 and PACK: these encodings
are accepted on harts of the other width. `DecodeExact` names them (`WidthIgnored`) and requires every
other encoding of the other width to be illegal.

*Integer unit.* On a misaligned jump target both paths have written rd before they trap; the
fast path notices a branch to a misaligned target only at the fetch (`FastDeviates`). A vector store
between LR and SC leaves the reservation (the architecture allows it; a scalar store ends it).

*Floating point* (`FloatDeviates`). RMM rounds to even (documented); `fnmadd` and `fnmsub` round
before they negate; a saturating conversion raises NX besides NV; a long becomes a single by
way of a double.

*Vector unit* (`KnownDeviation`, `MemDeviation`). `vrsub.vx` and `vrsub.vi` are decoded
(`Decoder.cpp:1108-1109`) and no case executes them: vd keeps its value without an exception; `vwmulu` and `vwmulsu` at SEW 32; reductions
and `vmv.s.x` with an empty body write; `vslidedown` reads up to vl instead of VLMAX;
slide offsets are cut to 32 bits; `vnclipu` takes its source as signed; a rounding bias can
overflow the arithmetic type; indexed stores with 64-bit indices store nothing, indices are
sign-extended; the fields of a segment access lie one register apart also when EMUL is
larger.

*Timing model.* A `div_latency` of 0, which `CpuConfigParser` accepts, makes the counter wrap and every
division last 2^32 - 1 cycles; a `mul_latency` above 3 has no effect; committed instructions behind a
mispredicted branch are dropped; a bubble moves a load before its miss penalty is paid; a step
back does not restore the number of the next instruction.

*GDB.* The machine runs on after a connection is accepted; `^C` handled by `poll` is answered
without stopping; a refused packet leaves the command loop as if it resumed; EBREAKs stay in
memory when the debugger detaches; writes of floating-point registers are answered OK and
ignored; writes of memory and breakpoints (`M`, `Z`, `z`) bypass the data and instruction caches and the
decode cache, so that a hart that keeps an old decoded entry does not see an EBREAK just set.

*Breakpoints.* Memory watchpoints never pause; the instruction at a breakpoint is executed
before the loop sees the pause; `skip_once_pc_` can be stale and let one execution pass, never
two (`NeverPassedTwice`).

## 5. Proofs

What a loop or a list does is shown by induction on the number of its steps: `Arithmetic` proves
the form of it that is used, `SetInduction` (a set of numbers that holds 0 and with every number
the next holds them all), with the least number of a set and the laws of `%` that counters with
a width need. Loops are written as recursive functions over 0 .. n for that reason.

`InterruptsProofs` proves of `Interrupts`, for every set of lines, every priority bound, counter
width, divider and batch size

* `Consistency`: `Spec => [](TypeOK /\ SignalsConsistent)`. The conjunction is
  inductive: `SupervisorPending` is needed because the other two speak of latches and
  the guest sees the bits. Its lemmas say of `updateMip`, `evaluate_timer_interrupt` and
  `write_mip` that each leaves the components of the others alone.
* `NoLostLine`: `Spec => []LineAccounted`, from the type invariant.
* `ClocksAgree`: `Spec => []NoDrift`. `Advance(n)` adds n to both sides, whether or not `mtime`
  or `mcycle` wraps, and a write of either puts the difference into `skew`. The four ways of
  counting differ in when they call it.

and of `Trap`, for every misa profile, operand set and set of lines

* `DeliveryCorrect`: `TrapSpec => [](TrapTypeOK /\ InterruptLegal /\ Prompt)`. `Legal` is
  the part of the type invariant that speaks of `hart`; the lemmas show that each
  function of `TrapController` and `CsrFile` keeps it, and `CommitStep` derives the two
  properties from the definition of the interrupt mask. `TrapTyped` and `InterruptsLegal` are
  its parts.
* `Confinement`: `TrapSpec => SupervisorConfined`, an action property, from the same
  invariant: `Kept` is transitive over an instruction and the delegated trap behind it.

`TranslationProofs` proves for every memory layout, TLB geometry, set of address spaces
and number of soft TLB generations

* `Coherence`: `TrSpec => [](TrTypeOK /\ TlbCoherent /\ SoftCoherent /\ ReadYourWrites /\
  DecodeCoherent)`, with the parts `TlbsCoherent` and `DecodesCoherent`. The inductive invariant
  `CohInv` adds two facts: no soft TLB entry is
  of a later generation than `epoch` (`SoftPast`), without which a flush could revive one,
  and a decoded instruction is good for the privilege that fetched it while another one
  runs (`DecodeGood`). The argument goes over `Good`, a translation that may be used:
  `GoodKept` says which steps keep it good, and one lemma per cache says that a step only
  adds good entries or drops them. The theorem does not need the bounds of the run
  (`EpochMax`, `EntryMax`, `Few`).

`MemoryProofs` proves for every set of devices, geometry of the caches, size of memory and program

* `RoutesExact`: `RouterSpec => []RouteExact`. `RouterInv` says that two registered devices own no
  byte together (`register_device` refuses the second) and that the last access was the device's
  own, whatever was registered, removed or cleared before. `resolve_device`, which tries the last base at or below the address and then the whole
  list, finds the one owner either way. Testing the first and the last byte of an access suffices because a
  hole is at least as wide as the widest access (`HoleAssumption`).
* `CachesFollow`: `PathSpec => []OnlyBypassStale`. A cache is `Sound` when every valid line has its
  own set, no two lines of a set have one tag, and bytes that differ from memory are in `stale`.
  The theorem covers both kinds of session and both kinds of cycle.
  The second is what makes `write`, which updates the first line that matches, enough.
* `BackstepsRestore`: `PathSpec => BackstepRestores`. By `Reversible`: for every checkpoint on the
  stack, its writes taken back in reverse from the memory that followed its instruction give the
  memory before it, except where others wrote. Taking back is an induction over the writes
  (`TakenBack`); that a byte written several times comes out right is where the order matters.

* `ScsExact`: `ResSpec => []ScExact`, by `Held`: `reserved` is set exactly while there is a link, and
  `load_res` is then its word; otherwise `load_res` may be anything. Vector stores are among the steps.

`PipelineProofs` proves for every program and every finite set of configurations, switched between
any two instructions, and every step back

* `CyclesAddUp`: `PipeSpec => []Accounted`. `Balanced` is the invariant: a tick counts one cycle, a
  stall with one cause when it is stalled, and takes the instruction out of the fetch stage when it
  is not.
* `OperandsWaited`: `PipeSpec => OperandsReady`, an action property. `OnItsWay` says where a
  result that is not there yet can be, in the execute or in the memory stage with enough of its
  latency left, and `Settled` that the divider is busy as long as its result is missing: these are
  the stages that `check_stall_id` compares.
* `CallsReturn`: `PipeSpec => []StepReturns`. `Left` is what the counters and the instructions in
  flight may still cost; every tick of a waiting call makes it smaller (`Short` bounds it at the
  start). This also shows that the loop of `step_instruction` terminates, with a latency of 0 after a
  whole turn of the counter (`DivTicks`).

The invariants speak of the parts that a checkpoint saves, so that saved states have them as well
(`Kept`) and a step back restores them.

`DeviceProofs` proves for every FIFO size and set of bytes, every ring size, index width and set
of requests

* `UartCorrect`: `UartSpec => [](UartTypeOK /\ ReadyExact /\ LineExact)`. The invariant adds
  `PollSound`: bytes that a poll saw are still there when it drives the line, because only
  its own thread takes bytes, and bytes that it did not see are marked `unseen`.
* `CompletionsAnnounced`: `VqSpec => []NoLostCompletion`, by `Owed`: inside the loop the
  console's `written` stands for the interrupt that is still to come.
* `RingsImplementDevice`: `VqSpec => InOrderOnce`, the refinement of `BlockDevice`: the initial states
  map to initial states and every step to a step or a stutter. `Pending` and `Done` are
  windows of the rings (`Window`); the lemmas say how a window moves when an index
  that wraps at its own width goes one further. `RingInv` is why nothing is overwritten: the
  chains that wait, the chains done and those that the driver has are all different, so there
  are never more of them than slots.
* `OwnedWithoutStep`: `RunSpec => []CpuOwned` if the user has
  no Step key, so that this key is the whole reason for what `run_owner` shows. The invariant
  `RunInv` says for each place of the two threads which operations can be left in its `code`:
  none where it waits or is done (`Idle`), and on the ui thread only stores of the run state as
  long as it does not step (`UiCalm`).
* `MachineTyped`: `McSpec => []MachineTypes`. Of `Virtqueue` the invariant is `VqInv`: a request
  that is offered is `Fitting`, of the kind of the device, and stays so when it is served, because
  only the device's own answers are put into its buffer and status. The lemma `PartsWork` carries
  the invariants of the parts over to the composed machine.

`AluProofs` proves for every width of int, every element width and every operand

* `MultipliesExact`: MUL, MULH, MULHSU and MULHU of registers (by halves, and by magnitudes that are
  negated afterwards) and of words are the manual's products. `Schoolbook` is the product of two
  numbers of two digits with its carries; `NegatedHigh` is why `negate_high_low` needs to know
  whether the low half is zero; `HighPartFact` relates signed and unsigned readings.
* `DividesExact`: DIV, DIVU, REM and REMU, with division by zero and the signed overflow.
  `QuotientFits` shows that the overflow is the only case in which a quotient leaves its width.
* `NarrowAgrees`: on a narrow hart, whose registers hold sign-extended words, the fast path may
  decide branches on whole registers, and its sums and differences are those of the words: the part
  of `PathsAgree` that is not evident.
* `CarriesExact`, `SaturatesExact`: the comparisons after a sum has wrapped find the carry, the
  borrow and the saturation.
* `RoundsExact`: a rounded shift is the architecture's when value plus rounding bit fits the
  type it is computed in, always so for elements narrower than int; where it does not fit,
  rounding to nearest-up is wrong. This delimits the deviation that `KnownDeviation` names.
  `SmulExact`: in a fractional product it always fits.

The prover has no laws of powers of two. `PowerAdd` and `PowerType` derive them from the
cardinality of the set of subsets.

`DebugProofs` proves for every program, address range, set of packets and length of session

* `Transparent`: `GdbSpec => []BreakpointsTransparent`. The invariant `GdbInv` adds that an edit
  of memory or breakpoints is in the traffic (inbox, or kept by the debugger for sending again)
  at most once and only while the debugger waits for its answer: that is what makes the
  update of `program` and the handler's update of memory the same step of the argument.
* `Stops`: `GdbSpec => []StepStops`, by `StepInv`, which says for each place of the main loop how
  many instructions can have run since the last stop reply.
* `AnsweredOnce`: `GdbSpec => []Answered`. `AnswerInv`: a command that is answered, or its reply, is
  there at most once (`Single`), only as what the debugger waits for (`Expected`) and at least once
  while it waits (`Present`); acknowledgements are off only when no damaged packet can follow,
  whose refusal would be silent (`Audible`).
* `NoSecondPass`, `WatchPauses`: `BpSpec => NeverPassedTwice` and `BpSpec => RegWatchPauses`, for every
  set of addresses and registers. `BpInv`: `active` is exact after every edit, and an address that
  was passed is still a breakpoint and not the one that `skip_once_pc_` lets through.

The assumptions are the named ASSUMEs of the modules; none of the theorems uses a bound of a
run. They say that geometries, widths and sizes are numbers that make sense, and besides that
a hole in a device's range is at least as wide as the widest access (`HoleAssumption`: the
framebuffer's has 16 bytes, an access up to 8), that stores are within main memory and no wider than a line
(`ProgramAssumption`), that latencies are below half the counter's range, that is 2^31 in the code, and may be 0
(`PipeAssumption`), that the debugger's commands are
not called as its own events (`GdbAssumption`) and that the PC is not one of the general registers
(`WatchAssumption`), and that only the device puts its name into a buffer (`RequestsAssumption`). The theorems also prove what the runs no longer state, the type invariants of
`Interrupts`, `Translation` and `Uart`, `ExternalPending`, `TimerPending`, `ReadyExact` and
`ReadYourWrites`.

Only model-checked:

* liveness (`TimerFires`, `PauseHonoured`, `Teardown`, `RunResumes`, `RxReported`, `NotifyReturns`,
  `RestartCompletes`), which is beyond the prover;
* the units of `MCExecute` against their references (`DecompressExact`, `DecodeExact`, `StagesExact`,
  `PathsAgree`, `FloatExact`, `VectorExact`, `RestartTransparent`): what their folds and recursive
  operators compute would take an induction over data, and they use bitwise operators. The
  theorems of `AluProofs` cover the arithmetic in them, at every width and not only at those of the run.

## 6. Not modelled

`RunControl` covers TUI sessions with a program loaded. The CLI and GUI loops, the modals'
own keys, and `Machine::pause`, `resume` and `step`, which nothing calls in a TUI session,
are left out; relaxed atomics are taken as sequentially consistent.

`Interrupts` leaves out the step back, see the known deviations; `Trap` leaves out semihosting (an EBREAK
between two marker instructions).

`Translation` leaves out the levels of the walk, index collisions in the decode cache,
the switch between the modes with and without fast paths while a program runs, the
contents of memory and the data cache, and the fragments of one superpage: a fence is
taken to cover the 4 KiB page that it names.

`Uart` leaves out the divisor, modem and scratch registers and takes relaxed atomics as
sequentially consistent; `Virtqueue` leaves out feature negotiation, addresses, chains whose
identification request ends in its header (nothing is stored, as for a flush without footer) and the
console's receive queue, which nothing feeds (`push_input_byte` has no caller).

`DataPath` leaves out the statistics and latencies of the caches and takes one instruction as
one step, which it is: the hart and the devices run on one thread. `Router` leaves out what
devices do with a request and the copy of a store to `tohost` that `TileLinkBus` keeps for its host
(`TileLinkBus.cpp:64-80`): the store itself is an ordinary one.

`IntegerUnit` leaves out what CSRs do with the value written. `VectorUnit` leaves out vector
floating point (`VectorFloat.cpp`: element loops as those of the integers, with conversions of
half precision by hand).
`Decode` takes one register number per field where the field selects nothing.

`GdbStub` leaves out the text of packets (hexadecimal, checksums: a packet is good or not), the
target description and SIGPIPE, and fetches from memory, without the caches in front of it. `Breakpoints` leaves out the parsing of what is typed into the
modal. `Pipeline` takes hits and misses of caches and TLBs as part of the instruction.

Not modelled at all:

* rendering (panels, modals' layout, themes), the instruction explainer, tracer and logger: text;
* the command line: option parsing that ends in a configuration record;
* construction of the machine, image and ELF loading, the device tree: sequential and done
  before the first instruction;
* framebuffer, audio and input devices: host I/O around SDL, one copy per access;
* lockstep (compares with another process's text), symbols (a table).
