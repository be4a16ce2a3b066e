--------------------------- MODULE PipelineProofs ---------------------------
(***************************************************************************)
(* Proofs about the timing model, for every program, every sequence of      *)
(* configurations and every step back: the cycles add up, and no            *)
(* instruction executes before its operands can be there.                   *)
(***************************************************************************)
EXTENDS Pipeline, Arithmetic, FiniteSetTheorems, TLAPS

-----------------------------------------------------------------------------
(* The invariant, over the parts of the state that a step back restores.     *)

PipelineReg ==
  [valid : BOOLEAN, id : Nat, pc : Nat, kind : Kinds \cup {"none"}, rd : Registers, rs1 : Registers, rs2 : Registers,
   tlb_miss : BOOLEAN, icache_miss : BOOLEAN, dcache_miss : BOOLEAN, branched : BOOLEAN, target : Nat,
   latency : Nat \cup {-1}, resolved : BOOLEAN]
Counters  == [control : Nat, tlb : Nat, icache : Nat, dcache : Nat, div : Nat]
Snapshots == [cycle : Nat, id : [Stages -> Nat]]

\* The cycles add up.
Balanced(st, ct, ch, ret, fd) ==
  /\ ct \in [Causes \cup {"cycles", "stalls", "bubbles"} -> Nat] /\ ret \in Nat /\ fd \in Nat
  /\ ct.cycles = ret
  /\ ct.stalls = ct.icache + ct.dcache + ct.tlb + ct.structural + ct.data + ct.control
  /\ ct.cycles + (IF st.f.valid THEN 1 ELSE 0) <= fd + ct.stalls
  /\ ch \in Seq(Snapshots)
  /\ \A i \in 1 .. Len(ch) : ch[i].cycle = (ct.cycles - Len(ch)) + i

\* How long after the next cycle the result of an instruction may still be on its way.
InExecute(r) == IF r.kind = "div" THEN r.latency ELSE IF r.latency < 2 THEN r.latency ELSE 2
InMemory(r)  == IF r.latency < 1 THEN r.latency ELSE 1
Writer(r, x) == r.valid /\ writes_reg(r) /\ r.rd = x

\* A register that is not there in the next cycle has its writer in a stage that is compared, and the
\* writer's latency covers the rest.
OnItsWay(st, av, now) ==
  \A x \in Registers \ {0} :
    \/ av[x] <= now + 1
    \/ Writer(st.e, x) /\ av[x] <= now + 1 + InExecute(st.e)
    \/ Writer(st.m, x) /\ av[x] <= now + 1 + InMemory(st.m)

\* The divider is busy as long as its result is missing; a control transfer has no latency; behind one
\* that was not foreseen the pipeline is empty.
Settled(st, sl) ==
  /\ st.e.valid /\ st.e.kind = "div" => st.e.latency <= sl.div
  /\ st.e.valid /\ st.e.kind \in {"jal", "jalr", "branch"} => st.e.latency = 0
  /\ sl.control > 0 => ~st.f.valid /\ ~st.d.valid /\ (st.e.valid => st.e.latency = 0)

\* No counter is above what some configuration gives it; a jump costs a bubble at least.
Tlb    == Longest("tlb_miss_penalty")
Icache == Longest("icache_miss_penalty")
Dcache == Longest("dcache_miss_penalty")
Div    == LongestDiv
Branch == Longest("branch_mispredict_penalty")
Short(sl) ==
  sl.control <= Branch + 1 /\ sl.tlb <= Tlb /\ sl.icache <= Icache /\ sl.dcache <= Dcache /\ sl.div <= Div

Sane(st, sl, ct, ch, av, ret, fd) ==
  /\ st \in [Stages -> PipelineReg] /\ sl \in Counters /\ av \in [Registers -> Nat]
  /\ Balanced(st, ct, ch, ret, fd)
  /\ OnItsWay(st, av, ct.cycles)
  /\ Settled(st, sl)
  /\ Short(sl)

SaneState(s) == Sane(s.stage, s.stall, s.stats, s.cycle_history, s.avail, s.returned, s.fed)

\* Where step_instruction is: it has an instruction, and the fetch stage holds it in the last tick.
Called ==
  /\ call \in {"idle", "wait", "last"} /\ (call # "idle" => feeding \in Insts) /\ (call = "last" => stage.f.valid)
  /\ config \in Configs /\ next_inst_id \in Nat

PipeInv ==
  /\ Sane(stage, stall, stats, cycle_history, avail, returned, fed)
  /\ Called
  /\ \E S : saved \in Seq(S) /\ \A s \in S : SaneState(s)

-----------------------------------------------------------------------------
(* The configurations *)

\* The largest value of a function of the configurations: they are finitely many.
LEMMA LargestIs ==
  ASSUME NEW g, \A c \in Configs : g[c] \in Nat, Configs # {}
  PROVE  LET l == Max({g[c] : c \in Configs}) IN l \in Nat /\ \A c \in Configs : g[c] <= l
<1> DEFINE Has(D) == \E m \in D : \A c \in D : g[c] <= g[m]
           T == {n \in Nat : \A D \in SUBSET Configs : Cardinality(D) = n /\ D # {} => Has(D)}
<1>1. \A D \in SUBSET Configs : IsFiniteSet(D) /\ Cardinality(D) \in Nat
  BY PipeAssumption, FS_Subset, FS_CardinalityType
<1>2. 0 \in T
  BY <1>1, FS_EmptySet
<1>3. ASSUME NEW n \in Nat, n \in T PROVE n + 1 \in T
  <2> SUFFICES ASSUME NEW D \in SUBSET Configs, Cardinality(D) = n + 1, D # {} PROVE Has(D)
    OBVIOUS
  <2>1. PICK d : d \in D
    OBVIOUS
  <2> DEFINE E == D \ {d}
  <2>2. E \in SUBSET Configs /\ Cardinality(E) = n
    BY <1>1, <2>1, FS_RemoveElement
  <2>3. CASE E = {}
    <3>1. \A c \in D : c = d
      BY <2>1, <2>3
    <3> QED BY <2>1, <3>1
  <2>4. CASE E # {}
    <3>1. PICK m \in E : \A c \in E : g[c] <= g[m]
      BY <1>3, <2>2, <2>4
    <3>2. g[m] \in Nat /\ g[d] \in Nat /\ \A c \in E : g[c] \in Nat
      BY <2>1, <2>2, <3>1
    <3>3. CASE g[d] <= g[m]
      BY <2>1, <3>1, <3>3
    <3>4. CASE g[m] <= g[d]
      <4>1. \A c \in D : g[c] <= g[d]
        BY <2>1, <3>1, <3>2, <3>4
      <4> QED BY <2>1, <4>1
    <3> QED BY <3>2, <3>3, <3>4
  <2> QED BY <2>3, <2>4
<1>4. Nat \subseteq T
  <2> HIDE DEF T
  <2> QED BY <1>2, <1>3, SetInduction
<1>5. Has(Configs)
  BY <1>1, <1>4
<1>6. PICK m \in Configs : \A c \in Configs : g[c] <= g[m]
  BY <1>5
<1> DEFINE S == {g[c] : c \in Configs}
<1>7. g[m] \in S /\ \A y \in S : g[m] >= y
  BY <1>6
<1>8. Max(S) \in S /\ \A y \in S : Max(S) >= y
  <2> HIDE DEF S
  <2> QED BY <1>7 DEF Max
<1> QED BY <1>8

LEMMA LongestIs ==
  ASSUME NEW f, \A c \in Configs : c[f] \in Nat, Configs # {}
  PROVE  Longest(f) \in Nat /\ \A c \in Configs : c[f] <= Longest(f)
<1> DEFINE g == [c \in Configs |-> c[f]]
<1>1. {g[c] : c \in Configs} = {c[f] : c \in Configs} /\ \A c \in Configs : g[c] = c[f]
  OBVIOUS
<1> HIDE DEF g
<1>2. Longest(f) = Max({g[c] : c \in Configs})
  BY <1>1 DEF Longest
<1> QED BY <1>1, <1>2, LargestIs

\* The divider counts what the latency says, or the longest it can when that is 0.
LEMMA DivTicksIs ==
  ASSUME NEW c \in Configs
  PROVE  DivTicks(c) \in Nat /\ c.div_latency - 1 <= DivTicks(c)
<1>1. c.div_latency \in Nat /\ 2 * c.div_latency < CounterMod /\ CounterMod \in Nat
  BY PipeAssumption
<1> QED BY <1>1 DEF DivTicks

LEMMA LongestDivIs ==
  ASSUME Configs # {}
  PROVE  LongestDiv \in Nat /\ \A c \in Configs : DivTicks(c) <= LongestDiv
<1> DEFINE g == [c \in Configs |-> DivTicks(c)]
<1>1. {g[c] : c \in Configs} = {DivTicks(c) : c \in Configs} /\ \A c \in Configs : g[c] = DivTicks(c) /\ g[c] \in Nat
  BY DivTicksIs
<1> HIDE DEF g
<1>2. LongestDiv = Max({g[c] : c \in Configs})
  BY <1>1 DEF LongestDiv
<1> QED BY <1>1, <1>2, LargestIs

LEMMA Penalties ==
  ASSUME config \in Configs
  PROVE  /\ Tlb \in Nat /\ Icache \in Nat /\ Dcache \in Nat /\ Div \in Nat /\ Branch \in Nat
         /\ config.tlb_miss_penalty \in 0 .. Tlb /\ config.icache_miss_penalty \in 0 .. Icache
         /\ config.dcache_miss_penalty \in 0 .. Dcache /\ DivTicks(config) \in 0 .. Div
         /\ config.branch_mispredict_penalty \in 0 .. Branch
<1>1. \A c \in Configs : /\ c.tlb_miss_penalty \in Nat /\ c.icache_miss_penalty \in Nat
                          /\ c.dcache_miss_penalty \in Nat /\ c.branch_mispredict_penalty \in Nat
  BY PipeAssumption
<1>2. Tlb \in Nat /\ config.tlb_miss_penalty \in 0 .. Tlb
  BY <1>1, LongestIs DEF Tlb
<1>3. Icache \in Nat /\ config.icache_miss_penalty \in 0 .. Icache
  BY <1>1, LongestIs DEF Icache
<1>4. Dcache \in Nat /\ config.dcache_miss_penalty \in 0 .. Dcache
  BY <1>1, LongestIs DEF Dcache
<1>5. Div \in Nat /\ DivTicks(config) \in 0 .. Div
  BY DivTicksIs, LongestDivIs DEF Div
<1>6. Branch \in Nat /\ config.branch_mispredict_penalty \in 0 .. Branch
  BY <1>1, LongestIs DEF Branch
<1> QED BY <1>2, <1>3, <1>4, <1>5, <1>6

-----------------------------------------------------------------------------
(* One instruction *)

LEMMA EmptyStage == NoInst \in PipelineReg /\ ~NoInst.valid /\ NoInst.latency = 0 /\ NoInst.id = 0
BY DEF NoInst, PipelineReg, Registers

\* An instruction that enters the execute stage keeps what it is, and its latency is what the
\* history of the registers counts with.
LEMMA Started ==
  ASSUME NEW r \in PipelineReg, config \in Configs
  PROVE  LET x == init_execution_latency(r) IN
         /\ x \in PipelineReg
         /\ x.valid = r.valid /\ x.id = r.id /\ x.kind = r.kind /\ x.rd = r.rd /\ x.rs1 = r.rs1 /\ x.rs2 = r.rs2
         /\ x.dcache_miss = r.dcache_miss /\ x.resolved = r.resolved
         /\ r.valid /\ r.kind \in {"jal", "jalr", "branch"} => x.latency = 0
         /\ r.valid /\ r.kind = "div" => x.latency = config.div_latency - 1
         /\ r.valid => Latency(r) = 1 + InExecute(x)
         /\ Latency(r) \in Nat
<1>1. config.mul_latency \in Nat /\ config.div_latency \in Nat
  BY PipeAssumption
<1> DEFINE n == IF ~r.valid THEN r.latency ELSE IF r.kind = "load" THEN 1 ELSE IF r.kind = "mul" THEN config.mul_latency - 1
                ELSE IF r.kind = "div" THEN config.div_latency - 1 ELSE 0
           x == init_execution_latency(r)
<1>2. r.latency \in Nat \cup {-1}
  BY DEF PipelineReg
<1>3. n \in Nat \cup {-1}
  BY <1>1, <1>2
<1>4. x = [r EXCEPT !.latency = n]
  BY DEF init_execution_latency
<1>5. /\ x \in PipelineReg /\ x.latency = n
      /\ x.valid = r.valid /\ x.id = r.id /\ x.kind = r.kind /\ x.rd = r.rd /\ x.rs1 = r.rs1 /\ x.rs2 = r.rs2
      /\ x.dcache_miss = r.dcache_miss /\ x.resolved = r.resolved
  <2> HIDE DEF n, x
  <2> QED BY <1>3, <1>4 DEF PipelineReg
<1>6. r.valid => Latency(r) = 1 + InExecute(x)
  BY <1>1, <1>5 DEF Latency, InExecute
<1>7. Latency(r) \in Nat
  BY <1>1 DEF Latency
<1> QED BY <1>1, <1>5, <1>6, <1>7

\* A cycle takes one off the latency of a valid instruction and changes nothing else.
LEMMA Aged ==
  ASSUME NEW r \in PipelineReg
  PROVE  /\ decrement_latencies(r) \in PipelineReg
         /\ \A f \in {"valid", "id", "kind", "rd", "rs1", "rs2", "dcache_miss"} : decrement_latencies(r)[f] = r[f]
         /\ decrement_latencies(r).latency = IF r.valid /\ r.latency > 0 THEN r.latency - 1 ELSE r.latency
<1> DEFINE n == IF r.valid THEN Less1(r.latency) ELSE r.latency
<1>1. n \in Nat \cup {-1} /\ n = IF r.valid /\ r.latency > 0 THEN r.latency - 1 ELSE r.latency
  BY DEF Less1, PipelineReg
<1>2. decrement_latencies(r) = [r EXCEPT !.latency = n]
  BY DEF decrement_latencies
<1> HIDE DEF n
<1> QED BY <1>1, <1>2 DEF PipelineReg

\* The instruction of the execute stage, also marked as resolved.
LEMMA AgedResolved ==
  ASSUME NEW r \in PipelineReg
  PROVE  LET x == [decrement_latencies(r) EXCEPT !.resolved = r.valid] IN
         /\ x \in PipelineReg
         /\ \A f \in {"valid", "id", "kind", "rd", "rs1", "rs2", "dcache_miss"} : x[f] = r[f]
         /\ x.latency = IF r.valid /\ r.latency > 0 THEN r.latency - 1 ELSE r.latency
<1> DEFINE d == decrement_latencies(r)
<1>1. /\ d \in PipelineReg /\ r.valid \in BOOLEAN
      /\ \A f \in {"valid", "id", "kind", "rd", "rs1", "rs2", "dcache_miss"} : d[f] = r[f]
      /\ d.latency = IF r.valid /\ r.latency > 0 THEN r.latency - 1 ELSE r.latency
  BY Aged DEF PipelineReg
<1> DEFINE y == [d EXCEPT !.resolved = r.valid]
<1>2. /\ y \in PipelineReg
      /\ \A f \in {"valid", "id", "kind", "rd", "rs1", "rs2", "dcache_miss"} : y[f] = r[f]
      /\ y.latency = IF r.valid /\ r.latency > 0 THEN r.latency - 1 ELSE r.latency
  <2> HIDE DEF d
  <2> QED BY <1>1 DEF PipelineReg
<1> QED BY <1>2

-----------------------------------------------------------------------------
(* The cycles add up. *)

Typed == stage \in [Stages -> PipelineReg] /\ stall \in Counters /\ config \in Configs

LEMMA StagesTyped ==
  ASSUME Typed
  PROVE  /\ stage.f \in PipelineReg /\ stage.d \in PipelineReg /\ stage.e \in PipelineReg
         /\ stage.m \in PipelineReg /\ stage.w \in PipelineReg
         /\ stall.control \in Nat /\ stall.tlb \in Nat /\ stall.icache \in Nat /\ stall.dcache \in Nat /\ stall.div \in Nat
         /\ DOMAIN stall = {"control", "tlb", "icache", "dcache", "div"}
BY DEF Typed, Stages, Counters

\* A tick is stalled when a stage is, or when a bubble is left.
StalledTick == IF_stalled \/ stall.control > 0

Stats == [Causes \cup {"cycles", "stalls", "bubbles"} -> Nat]
OneCause(ct) == ct.stalls = ct.icache + ct.dcache + ct.tlb + ct.structural + ct.data + ct.control

\* One cycle more, and one stall more, with its cause, when the tick is stalled.
LEMMA StatsTick ==
  ASSUME Typed, tick_pipeline, stats \in Stats, OneCause(stats)
  PROVE  /\ stats' \in Stats /\ OneCause(stats)'
         /\ stats'.cycles = stats.cycles + 1
         /\ stats'.stalls = IF StalledTick THEN stats.stalls + 1 ELSE stats.stalls
<1>1. CASE stall.control > 0
  <2>1. BubbleTick
    BY <1>1 DEF tick_pipeline
  <2>2. stats' = [stats EXCEPT !.control = @ + 1, !.bubbles = @ + 1, !.stalls = @ + 1, !.cycles = @ + 1]
    BY <2>1 DEF BubbleTick
  <2>3. /\ stats' \in Stats /\ stats'.cycles = stats.cycles + 1 /\ stats'.stalls = stats.stalls + 1
        /\ stats'.control = stats.control + 1
        /\ \A c \in Causes \ {"control"} : stats'[c] = stats[c]
    <3>1. stats' \in Stats
      <4>1. stats' = [c \in Causes \cup {"cycles", "stalls", "bubbles"} |->
                       IF c \in {"control", "bubbles", "stalls", "cycles"} THEN stats[c] + 1 ELSE stats[c]]
        BY <2>2 DEF Stats
      <4> QED BY <4>1 DEF Stats
    <3>2. stats'.cycles = stats.cycles + 1 /\ stats'.stalls = stats.stalls + 1 /\ stats'.control = stats.control + 1
      BY <2>2 DEF Stats, Causes
    <3>3. \A c \in Causes \ {"control"} : stats'[c] = stats[c]
      BY <2>2 DEF Stats, Causes
    <3> QED BY <3>1, <3>2, <3>3
  <2>4. stats'.stalls = stats'.icache + stats'.dcache + stats'.tlb + stats'.structural + stats'.data + stats'.control
    BY <2>3 DEF Stats, OneCause, Causes
  <2> QED BY <1>1, <2>3, <2>4 DEF StalledTick, OneCause
<1>2. CASE ~(stall.control > 0)
  <2>1. update_stall_stats
    BY <1>2, StagesTyped DEF tick_pipeline, StageTick
  <2>2. stats' = [c \in Causes \cup {"cycles", "stalls", "bubbles"} |->
                   IF c \in {"cycles"} \cup StallCause \/ (c = "stalls" /\ StallCause # {}) THEN stats[c] + 1 ELSE stats[c]]
    BY <2>1 DEF update_stall_stats, Stats
  <2>3. StallCause \in {{}, {"dcache"}, {"structural"}, {"data"}, {"tlb"}, {"icache"}} /\ (IF_stalled <=> StallCause # {})
    BY DEF StallCause, IF_stalled
  <2>4. StalledTick <=> StallCause # {}
    BY <1>2, <2>3 DEF StalledTick
  <2> DEFINE K == StallCause
  <2>5. /\ stats' \in Stats /\ stats'.cycles = stats.cycles + 1
        /\ stats'.stalls = IF K # {} THEN stats.stalls + 1 ELSE stats.stalls
        /\ \A c \in Causes : stats'[c] = IF c \in K THEN stats[c] + 1 ELSE stats[c]
    <3>1. K \subseteq Causes
      BY <2>3 DEF Causes
    <3> HIDE DEF K
    <3> QED BY <2>2, <3>1 DEF K, Stats, Causes
  <2>6. OneCause(stats)'
    <3>1. stats'.stalls = stats'.icache + stats'.dcache + stats'.tlb + stats'.structural + stats'.data + stats'.control
      <4>1. CASE K = {}
        BY <4>1, <2>5 DEF OneCause, Causes, Stats
      <4>2. CASE K = {"dcache"}
        BY <4>2, <2>5 DEF OneCause, Causes, Stats
      <4>3. CASE K = {"structural"}
        BY <4>3, <2>5 DEF OneCause, Causes, Stats
      <4>4. CASE K = {"data"}
        BY <4>4, <2>5 DEF OneCause, Causes, Stats
      <4>5. CASE K = {"tlb"}
        BY <4>5, <2>5 DEF OneCause, Causes, Stats
      <4>6. CASE K = {"icache"}
        BY <4>6, <2>5 DEF OneCause, Causes, Stats
      <4> QED BY <2>3, <4>1, <4>2, <4>3, <4>4, <4>5, <4>6
    <3> QED BY <3>1 DEF OneCause
  <2> QED BY <2>4, <2>5, <2>6
<1> QED BY <1>1, <1>2

\* A tick that is not stalled empties the fetch stage, and no tick fills it.
LEMMA FetchTick ==
  ASSUME Typed, tick_pipeline
  PROVE  (stage'.f.valid => stage.f.valid) /\ (~StalledTick => ~stage'.f.valid)
<1>1. CASE stall.control > 0
  BY <1>1, EmptyStage DEF tick_pipeline, BubbleTick, StalledTick
<1>2. CASE ~(stall.control > 0)
  <2>1. StageTick
    BY <1>2, StagesTyped DEF tick_pipeline
  <2>2. stage'.f = NoInst \/ (stage'.f = stage.f /\ IF_stalled)
    BY <2>1 DEF StageTick, resolve_branches_ex, stage_register_transfers, IF_stalled
  <2> QED BY <1>2, <2>2, EmptyStage DEF StalledTick
<1> QED BY <1>1, <1>2

\* The history takes the new cycle and has no gap, also when it drops the oldest.
LEMMA HistoryTick ==
  ASSUME NEW h \in Seq(Snapshots), NEW n \in Nat, NEW x \in Snapshots, x.cycle = n + 1,
         \A i \in 1 .. Len(h) : h[i].cycle = (n - Len(h)) + i
  PROVE  LET k == Recent(Append(h, x), HistoryMax) IN
         k \in Seq(Snapshots) /\ \A i \in 1 .. Len(k) : k[i].cycle = ((n + 1) - Len(k)) + i
<1> DEFINE a == Append(h, x)
<1>1. Len(h) \in Nat /\ a \in Seq(Snapshots) /\ Len(a) = Len(h) + 1
  OBVIOUS
<1>2. \A i \in 1 .. Len(a) : a[i] = IF i <= Len(h) THEN h[i] ELSE x
  OBVIOUS
<1>3. \A i \in 1 .. Len(a) : a[i].cycle = ((n + 1) - Len(a)) + i
  <2> SUFFICES ASSUME NEW i \in 1 .. Len(a) PROVE a[i].cycle = ((n + 1) - Len(a)) + i
    OBVIOUS
  <2>1. CASE i <= Len(h)
    <3>1. h[i].cycle = (n - Len(h)) + i
      BY <1>1, <2>1
    <3> QED BY <1>1, <1>2, <2>1, <3>1
  <2>2. CASE i = Len(h) + 1
    BY <1>1, <1>2, <2>2
  <2> QED BY <1>1, <2>1, <2>2
<1> HIDE DEF a
<1>4. CASE Len(a) > HistoryMax
  <2>1. Recent(a, HistoryMax) = Tail(a)
    BY <1>4 DEF Recent
  <2>2. Tail(a) \in Seq(Snapshots) /\ Len(Tail(a)) = Len(a) - 1 /\ \A i \in 1 .. Len(Tail(a)) : Tail(a)[i] = a[i + 1]
    BY <1>1
  <2>3. \A i \in 1 .. Len(Tail(a)) : Tail(a)[i].cycle = ((n + 1) - Len(Tail(a))) + i
    <3> SUFFICES ASSUME NEW i \in 1 .. Len(Tail(a)) PROVE Tail(a)[i].cycle = ((n + 1) - Len(Tail(a))) + i
      OBVIOUS
    <3>1. i + 1 \in 1 .. Len(a) /\ Tail(a)[i] = a[i + 1] /\ Len(Tail(a)) = Len(a) - 1 /\ Len(a) \in Nat
      BY <1>1, <2>2
    <3>2. a[i + 1].cycle = ((n + 1) - Len(a)) + (i + 1)
      BY <1>3, <3>1
    <3>3. i \in Nat /\ Tail(a)[i].cycle = ((n + 1) - Len(a)) + (i + 1)
      BY <3>1, <3>2
    <3> DEFINE l == Len(a)
               t == Len(Tail(a))
    <3>4. l \in Nat /\ t = l - 1 /\ Tail(a)[i].cycle = ((n + 1) - l) + (i + 1)
      BY <3>1, <3>3
    <3> HIDE DEF l, t
    <3>5. Tail(a)[i].cycle = ((n + 1) - t) + i
      BY <3>3, <3>4
    <3> QED BY <3>5 DEF t
  <2> QED BY <2>1, <2>2, <2>3 DEF a
<1>5. CASE ~(Len(a) > HistoryMax)
  <2>1. Recent(a, HistoryMax) = a
    BY <1>5 DEF Recent
  <2> QED BY <1>1, <1>3, <2>1 DEF a
<1> QED BY <1>4, <1>5

LEMMA BalancedTick ==
  ASSUME Typed, tick_pipeline, Balanced(stage, stats, cycle_history, returned, fed), stage' \in [Stages -> PipelineReg],
         StalledTick \/ stage.f.valid
  PROVE  Balanced(stage', stats', cycle_history', returned', fed')
<1>1. stats \in Stats /\ OneCause(stats) /\ stats.cycles \in Nat /\ stats.stalls \in Nat /\ fed \in Nat /\ returned \in Nat
  BY DEF Balanced, Stats, OneCause
<1>2. /\ stats' \in Stats /\ OneCause(stats)' /\ stats'.cycles = stats.cycles + 1
      /\ stats'.stalls = IF StalledTick THEN stats.stalls + 1 ELSE stats.stalls
  BY <1>1, StatsTick
<1>3. returned' = returned + 1 /\ fed' = fed
  BY DEF tick_pipeline
<1>4. stats'.cycles + (IF stage'.f.valid THEN 1 ELSE 0) <= fed' + stats'.stalls
  <2>1. stats.cycles + (IF stage.f.valid THEN 1 ELSE 0) <= fed + stats.stalls
    BY DEF Balanced
  <2> QED BY <1>1, <1>2, <1>3, <2>1, FetchTick
<1>5. cycle_history' \in Seq(Snapshots) /\ \A i \in 1 .. Len(cycle_history') : cycle_history'[i].cycle = (stats'.cycles - Len(cycle_history')) + i
  <2> DEFINE x == [cycle |-> stats'.cycles, id |-> [s \in Stages |-> stage'[s].id]]
  <2>1. x \in Snapshots /\ x.cycle = stats.cycles + 1
    <3>1. \A s \in Stages : stage'[s].id \in Nat
      BY DEF PipelineReg
    <3> QED BY <1>1, <1>2, <3>1 DEF Snapshots
  <2>2. cycle_history' = Recent(Append(cycle_history, x), HistoryMax)
    BY DEF tick_pipeline, record_cycle_snapshot
  <2> HIDE DEF x
  <2>3. cycle_history \in Seq(Snapshots) /\ \A i \in 1 .. Len(cycle_history) : cycle_history[i].cycle = (stats.cycles - Len(cycle_history)) + i
    BY DEF Balanced
  <2> DEFINE n == stats.cycles
  <2>4. n \in Nat /\ x.cycle = n + 1 /\ \A i \in 1 .. Len(cycle_history) : cycle_history[i].cycle = (n - Len(cycle_history)) + i
    BY <1>1, <2>1, <2>3
  <2>5. stats'.cycles = n + 1
    BY <1>2
  <2> HIDE DEF n
  <2>6. LET k == Recent(Append(cycle_history, x), HistoryMax) IN
        k \in Seq(Snapshots) /\ \A i \in 1 .. Len(k) : k[i].cycle = ((n + 1) - Len(k)) + i
    BY <2>1, <2>3, <2>4, HistoryTick
  <2> QED BY <2>2, <2>5, <2>6
<1> QED BY <1>1, <1>2, <1>3, <1>4, <1>5, ZenonT(60) DEF Balanced, Stats, OneCause

-----------------------------------------------------------------------------
(* A result that is not there yet is waited for. *)

\* A cycle brings a result nearer: its writer stays in the execute stage or moves to the memory
\* stage, and its latency went down by one at most; past the memory stage the result is there.
LEMMA Nearer ==
  ASSUME NEW x, NEW a \in Nat, NEW c \in Nat, NEW e \in PipelineReg, NEW m \in PipelineReg,
         NEW f \in PipelineReg, NEW n \in PipelineReg,
         \/ a <= c + 1
         \/ Writer(e, x) /\ a <= c + 1 + InExecute(e)
         \/ Writer(m, x) /\ a <= c + 1 + InMemory(m),
         Writer(e, x) /\ InExecute(e) > 0 => \/ Writer(f, x) /\ InExecute(e) <= InExecute(f) + 1
                                             \/ Writer(n, x) /\ InExecute(e) <= InMemory(n) + 1
  PROVE  \/ a <= (c + 1) + 1
         \/ Writer(f, x) /\ a <= (c + 1) + 1 + InExecute(f)
         \/ Writer(n, x) /\ a <= (c + 1) + 1 + InMemory(n)
<1>1. InExecute(e) \in Int /\ InExecute(f) \in Int /\ InMemory(n) \in Int /\ InMemory(m) \in -1 .. 1
  BY DEF InExecute, InMemory, PipelineReg
<1> QED BY <1>1

LEMMA NearerNow ==
  ASSUME Typed, avail \in [Registers -> Nat], stats.cycles \in Nat, OnItsWay(stage, avail, stats.cycles),
         NEW r \in Registers \ {0}, NEW f \in PipelineReg, NEW n \in PipelineReg,
         Writer(stage.e, r) /\ InExecute(stage.e) > 0 => \/ Writer(f, r) /\ InExecute(stage.e) <= InExecute(f) + 1
                                                         \/ Writer(n, r) /\ InExecute(stage.e) <= InMemory(n) + 1
  PROVE  \/ avail[r] <= (stats.cycles + 1) + 1
         \/ Writer(f, r) /\ avail[r] <= (stats.cycles + 1) + 1 + InExecute(f)
         \/ Writer(n, r) /\ avail[r] <= (stats.cycles + 1) + 1 + InMemory(n)
<1> DEFINE a == avail[r]
           c == stats.cycles
           e == stage.e
           m == stage.m
<1>1. a \in Nat /\ c \in Nat /\ e \in PipelineReg /\ m \in PipelineReg
  BY StagesTyped
<1>2. \/ a <= c + 1
      \/ Writer(e, r) /\ a <= c + 1 + InExecute(e)
      \/ Writer(m, r) /\ a <= c + 1 + InMemory(m)
  BY DEF OnItsWay
<1>3. Writer(e, r) /\ InExecute(e) > 0 => \/ Writer(f, r) /\ InExecute(e) <= InExecute(f) + 1
                                          \/ Writer(n, r) /\ InExecute(e) <= InMemory(n) + 1
  OBVIOUS
<1>4. \/ a <= (c + 1) + 1
      \/ Writer(f, r) /\ a <= (c + 1) + 1 + InExecute(f)
      \/ Writer(n, r) /\ a <= (c + 1) + 1 + InMemory(n)
  <2> HIDE DEF a, c, e, m
  <2> QED BY <1>1, <1>2, <1>3, Nearer
<1> QED BY <1>4

Moving == /\ stage' \in [Stages -> PipelineReg] /\ stall' \in Counters /\ avail' \in [Registers -> Nat]
          /\ OnItsWay(stage', avail', stats'.cycles)
          /\ Settled(stage', stall')
          /\ Short(stall')

LEMMA BubbleStep ==
  ASSUME Typed, avail \in [Registers -> Nat], stats.cycles \in Nat, stats'.cycles = stats.cycles + 1,
         OnItsWay(stage, avail, stats.cycles), Settled(stage, stall), Short(stall), stall.control > 0, BubbleTick
  PROVE  Moving
<1> DEFINE x == init_execution_latency(stage.d)
<1>1. /\ stage.f \in PipelineReg /\ stage.d \in PipelineReg /\ stage.e \in PipelineReg /\ stage.m \in PipelineReg
      /\ stall.control \in Nat /\ stall.div \in Nat
  BY StagesTyped
<1>2. ~stage.f.valid /\ ~stage.d.valid /\ (stage.e.valid => stage.e.latency = 0)
  BY DEF Settled
<1>3. x \in PipelineReg /\ x.valid = stage.d.valid
  BY <1>1, Started DEF Typed
<1> HIDE DEF x
<1>4. stage' = [w |-> stage.m, m |-> stage.e, e |-> x, d |-> stage.f, f |-> NoInst]
  BY DEF BubbleTick, x
<1>5. stage' \in [Stages -> PipelineReg]
  BY <1>1, <1>3, <1>4, EmptyStage DEF Stages
<1>6. stall' \in Counters /\ stall'.div = stall.div /\ stall' = [stall EXCEPT !.control = stall.control - 1, !.div = stall.div]
  <2>1. DivBusy(stage.d, stall.div) = stall.div
    BY <1>2 DEF DivBusy
  <2>2. stall' = [stall EXCEPT !.control = stall.control - 1, !.div = stall.div]
    BY <2>1 DEF BubbleTick
  <2>3. stall.control - 1 \in Nat
    BY <1>1
  <2> QED BY <1>1, <2>2, <2>3 DEF Counters, Typed
<1>7. avail' = avail
  BY <1>2 DEF BubbleTick, Avail, Enters
<1>8. OnItsWay(stage', avail', stats'.cycles)
  <2> SUFFICES ASSUME NEW r \in Registers \ {0}
               PROVE  \/ avail[r] <= (stats.cycles + 1) + 1
                      \/ Writer(x, r) /\ avail[r] <= (stats.cycles + 1) + 1 + InExecute(x)
                      \/ Writer(stage.e, r) /\ avail[r] <= (stats.cycles + 1) + 1 + InMemory(stage.e)
    BY <1>4, <1>7 DEF OnItsWay
  <2>1. Writer(stage.e, r) => InExecute(stage.e) = 0
    BY <1>2 DEF Writer, InExecute
  <2> QED BY <1>1, <1>3, <2>1, NearerNow
<1>9. Settled(stage', stall')
  BY <1>2, <1>3, <1>4, EmptyStage DEF Settled
<1>10. Short(stall')
  <2>1. stall'.control = stall.control - 1 /\ stall'.tlb = stall.tlb /\ stall'.icache = stall.icache /\ stall'.dcache = stall.dcache
    BY <1>6 DEF Typed, Counters
  <2> QED BY <1>1, <1>6, <2>1, Penalties DEF Short, Typed
<1> QED BY <1>5, <1>6, <1>7, <1>8, <1>9, <1>10 DEF Moving

\* The counters of a tick that is no bubble.
Counted == [c \in DOMAIN stall |-> Less1(stall[c])]

LEMMA CountersTick ==
  ASSUME Typed
  PROVE  /\ Counted \in Counters /\ Counted.control = Less1(stall.control)
         /\ Counted.div = Less1(stall.div)
         /\ Counted.tlb = Less1(stall.tlb) /\ Counted.icache = Less1(stall.icache) /\ Counted.dcache = Less1(stall.dcache)
<1>1. \A c \in {"control", "tlb", "icache", "dcache", "div"} : Less1(stall[c]) \in Nat
  BY StagesTyped DEF Less1
<1>2. DOMAIN Counted = {"control", "tlb", "icache", "dcache", "div"} /\ \A c \in DOMAIN Counted : Counted[c] = Less1(stall[c])
  BY StagesTyped DEF Counted
<1>3. Counted = [control |-> Counted.control, tlb |-> Counted.tlb, icache |-> Counted.icache, dcache |-> Counted.dcache, div |-> Counted.div]
  BY <1>2, StagesTyped DEF Counted
<1> QED BY <1>1, <1>2, <1>3, StagesTyped DEF Counters

\* What a cycle leaves of the latency of the execute stage's instruction, there or a stage further.
LEMMA AgedLatency ==
  ASSUME NEW r \in PipelineReg, NEW x \in PipelineReg,
         \A f \in {"valid", "id", "kind", "rd", "rs1", "rs2", "dcache_miss"} : x[f] = r[f],
         x.latency = IF r.valid /\ r.latency > 0 THEN r.latency - 1 ELSE r.latency
  PROVE  /\ \A y : Writer(x, y) <=> Writer(r, y)
         /\ r.valid => InExecute(r) <= InExecute(x) + 1
         /\ r.valid /\ (r.kind = "div" => r.latency <= 0) => InExecute(r) <= InMemory(x) + 1
<1>1. x.valid = r.valid /\ x.kind = r.kind /\ x.rd = r.rd /\ r.latency \in Nat \cup {-1}
  BY DEF PipelineReg
<1> QED BY <1>1 DEF Writer, writes_reg, InExecute, InMemory

LEMMA FlushStep ==
  ASSUME Typed, avail \in [Registers -> Nat], stats.cycles \in Nat, stats'.cycles = stats.cycles + 1,
         OnItsWay(stage, avail, stats.cycles), Settled(stage, stall), Short(stall), stall.control = 0,
         NEW e \in PipelineReg, NEW m \in PipelineReg, NEW w \in PipelineReg, NEW bubbles \in 0 .. Branch + 1,
         \A f \in {"valid", "id", "kind", "rd", "rs1", "rs2", "dcache_miss"} : e[f] = stage.e[f],
         e.latency = IF stage.e.valid /\ stage.e.latency > 0 THEN stage.e.latency - 1 ELSE stage.e.latency,
         stage.e.valid /\ stage.e.kind \in {"jal", "jalr", "branch"},
         resolve_branches_ex(e, m, w, bubbles)
  PROVE  Moving
<1>1. stage.e \in PipelineReg
  BY StagesTyped
<1>2. stage' = [f |-> NoInst, d |-> NoInst, e |-> e, m |-> m, w |-> w] /\ avail' = avail
  BY DEF resolve_branches_ex
<1>3. stage' \in [Stages -> PipelineReg]
  BY <1>2, EmptyStage DEF Stages
<1>4. stall' \in Counters /\ Short(stall')
  <2>1. stall' = [Counted EXCEPT !.control = bubbles]
    BY DEF resolve_branches_ex, Counted
  <2>2. Branch \in Nat
    BY Penalties DEF Typed
  <2>3. stall' \in Counters
    BY <2>1, <2>2, CountersTick DEF Counters
  <2>4. stall'.control = bubbles /\ stall'.tlb = Less1(stall.tlb) /\ stall'.icache = Less1(stall.icache)
        /\ stall'.dcache = Less1(stall.dcache) /\ stall'.div = Less1(stall.div)
    BY <2>1, CountersTick DEF Counters
  <2> QED BY <2>2, <2>3, <2>4, StagesTyped, Penalties DEF Short, Less1, Typed
<1>5. e.latency = 0 /\ e.valid /\ e.kind = stage.e.kind
  BY <1>1 DEF Settled
<1>6. OnItsWay(stage', avail', stats'.cycles)
  <2> SUFFICES ASSUME NEW r \in Registers \ {0}
               PROVE  \/ avail[r] <= (stats.cycles + 1) + 1
                      \/ Writer(e, r) /\ avail[r] <= (stats.cycles + 1) + 1 + InExecute(e)
                      \/ Writer(m, r) /\ avail[r] <= (stats.cycles + 1) + 1 + InMemory(m)
    BY <1>2 DEF OnItsWay
  <2>1. Writer(stage.e, r) /\ InExecute(stage.e) > 0 => Writer(e, r) /\ InExecute(stage.e) <= InExecute(e) + 1
    BY <1>1, AgedLatency DEF Writer
  <2> QED BY <2>1, NearerNow
<1>7. Settled(stage', stall')
  BY <1>2, <1>5, EmptyStage DEF Settled
<1> QED BY <1>2, <1>3, <1>4, <1>6, <1>7 DEF Moving

\* The instruction that a tick issues, if any.
Issued == IF check_stall_mem \/ check_stall_ex \/ check_stall_id THEN NoInst ELSE stage.d

LEMMA TransferStep ==
  ASSUME Typed, avail \in [Registers -> Nat], stats.cycles \in Nat, stats'.cycles = stats.cycles + 1,
         OnItsWay(stage, avail, stats.cycles), Settled(stage, stall), Short(stall), stall.control = 0,
         NEW e \in PipelineReg, NEW m \in PipelineReg,
         \A f \in {"valid", "id", "kind", "rd", "rs1", "rs2", "dcache_miss"} : e[f] = stage.e[f],
         e.latency = IF stage.e.valid /\ stage.e.latency > 0 THEN stage.e.latency - 1 ELSE stage.e.latency,
         stage_register_transfers(e, m)
  PROVE  Moving
<1> DEFINE stuck == check_stall_mem \/ check_stall_ex
           next  == init_execution_latency(Issued)
<1>1. /\ stage.f \in PipelineReg /\ stage.d \in PipelineReg /\ stage.e \in PipelineReg /\ stage.m \in PipelineReg
      /\ stall.div \in Nat
  BY StagesTyped
<1>2. Issued \in PipelineReg /\ config \in Configs
  BY <1>1, EmptyStage DEF Issued, Typed
<1>3. /\ next \in PipelineReg
      /\ next.valid = Issued.valid /\ next.id = Issued.id /\ next.kind = Issued.kind /\ next.rd = Issued.rd
      /\ Issued.valid /\ Issued.kind \in {"jal", "jalr", "branch"} => next.latency = 0
      /\ Issued.valid /\ Issued.kind = "div" => next.latency = config.div_latency - 1
      /\ Issued.valid => Latency(Issued) = 1 + InExecute(next)
      /\ Latency(Issued) \in Nat /\ DivTicks(config) \in Nat /\ config.div_latency - 1 <= DivTicks(config)
  BY <1>2, Started, DivTicksIs
<1>4. /\ stage'.e = IF stuck THEN e ELSE next
      /\ stage'.m = IF check_stall_mem THEN m ELSE IF stuck THEN NoInst ELSE e
      /\ avail' = IF ~stuck /\ Enters(Issued) /\ writes_reg(Issued) THEN [avail EXCEPT ![Issued.rd] = stats'.cycles + Latency(Issued)] ELSE avail
  <2>1. stage'.e = IF stuck THEN e ELSE next
    BY DEF stage_register_transfers, Issued
  <2>2. stage'.m = IF check_stall_mem THEN m ELSE IF stuck THEN NoInst ELSE e
    BY DEF stage_register_transfers
  <2>3. Avail(IF stuck THEN NoInst ELSE Issued)
    BY DEF stage_register_transfers, Issued
  <2>4. avail' = IF ~stuck /\ Enters(Issued) /\ writes_reg(Issued) THEN [avail EXCEPT ![Issued.rd] = stats'.cycles + Latency(Issued)] ELSE avail
    BY <2>3, EmptyStage DEF Avail, Enters
  <2> QED BY <2>1, <2>2, <2>4
<1>5. stage' \in [Stages -> PipelineReg]
  <2> HIDE DEF next
  <2>1. /\ stage' = [w |-> stage'.w, m |-> stage'.m, e |-> stage'.e, d |-> stage'.d, f |-> stage'.f]
        /\ stage'.w \in {NoInst, m} /\ stage'.d \in {NoInst, stage.d, stage.f} /\ stage'.f \in {NoInst, stage.f}
    BY DEF stage_register_transfers
  <2>2. stage'.m \in PipelineReg /\ stage'.e \in PipelineReg
    BY <1>3, <1>4, EmptyStage
  <2> QED BY <1>1, <2>1, <2>2, EmptyStage DEF Stages
<1>6. stall' \in Counters /\ stall'.control = 0 /\ Short(stall')
      /\ stall'.div = IF stuck THEN Counted.div ELSE DivBusy(Issued, Counted.div)
  <2> DEFINE a == IF ~stuck /\ e.valid /\ e.dcache_miss THEN config.dcache_miss_penalty ELSE Counted.dcache
             b == IF stuck THEN Counted.div ELSE DivBusy(Issued, Counted.div)
  <2>1. stall' = [Counted EXCEPT !.dcache = a, !.div = b]
    BY DEF stage_register_transfers, Counted, Issued
  <2>2. config.dcache_miss_penalty \in Nat
    BY <1>2, PipeAssumption
  <2>3. Counted \in Counters /\ Counted.control = 0
    BY CountersTick DEF Less1
  <2>4. a \in Nat /\ b \in Nat
    BY <1>3, <2>2, <2>3 DEF DivBusy, Counters
  <2>5. a <= Dcache /\ b <= Div
    BY <1>2, <1>3, <2>4, Penalties, StagesTyped, CountersTick DEF Short, Less1, DivBusy
  <2> HIDE DEF a, b
  <2>6. stall' \in Counters /\ stall'.control = 0 /\ stall'.div = b /\ stall'.dcache = a
        /\ stall'.tlb = Counted.tlb /\ stall'.icache = Counted.icache
    BY <2>1, <2>3, <2>4 DEF Counters
  <2>7. Short(stall')
    BY <1>2, <2>5, <2>6, Penalties, StagesTyped, CountersTick DEF Short, Less1
  <2> QED BY <2>6, <2>7 DEF b
<1>7. avail' \in [Registers -> Nat]
  <2>1. Issued.rd \in Registers
    BY <1>2 DEF PipelineReg
  <2> QED BY <1>3, <1>4, <2>1
<1>8. OnItsWay(stage', avail', stats'.cycles)
  <2> SUFFICES ASSUME NEW r \in Registers \ {0}
               PROVE  \/ avail'[r] <= (stats.cycles + 1) + 1
                      \/ Writer(stage'.e, r) /\ avail'[r] <= (stats.cycles + 1) + 1 + InExecute(stage'.e)
                      \/ Writer(stage'.m, r) /\ avail'[r] <= (stats.cycles + 1) + 1 + InMemory(stage'.m)
    BY DEF OnItsWay
  <2>1. CASE ~stuck /\ Enters(Issued) /\ writes_reg(Issued) /\ r = Issued.rd
    <3>1. avail'[r] = (stats.cycles + 1) + Latency(Issued)
      BY <1>4, <2>1
    <3>2. Issued.valid /\ Writer(next, r) /\ stage'.e = next
      BY <1>3, <1>4, <2>1 DEF Enters, Writer, writes_reg
    <3> DEFINE l == InExecute(next)
    <3>3. l \in Int /\ Latency(Issued) = 1 + l
      BY <1>3, <3>2 DEF InExecute, PipelineReg
    <3> HIDE DEF l
    <3>4. avail'[r] <= (stats.cycles + 1) + 1 + l
      BY <3>1, <3>3
    <3> QED BY <3>2, <3>4 DEF l
  <2>2. CASE ~(~stuck /\ Enters(Issued) /\ writes_reg(Issued) /\ r = Issued.rd)
    <3>1. avail'[r] = avail[r]
      BY <1>4, <2>2
    <3>2. /\ Writer(e, r) <=> Writer(stage.e, r)
          /\ stage.e.valid => InExecute(stage.e) <= InExecute(e) + 1
          /\ stage.e.valid /\ (stage.e.kind = "div" => stage.e.latency <= 0) => InExecute(stage.e) <= InMemory(e) + 1
      BY <1>1, AgedLatency
    <3>3. ~stuck /\ stage.e.valid /\ stage.e.kind = "div" => stage.e.latency <= 0
      BY <1>1 DEF Settled, check_stall_ex, PipelineReg
    <3>4. Writer(stage.e, r) => \/ Writer(stage'.e, r) /\ InExecute(stage.e) <= InExecute(stage'.e) + 1
                                \/ Writer(stage'.m, r) /\ InExecute(stage.e) <= InMemory(stage'.m) + 1
      <4>1. CASE stuck
        BY <1>4, <3>2, <4>1 DEF Writer
      <4>2. CASE ~stuck
        BY <1>4, <3>2, <3>3, <4>2 DEF Writer
      <4> QED BY <4>1, <4>2
    <3>5. stage'.e \in PipelineReg /\ stage'.m \in PipelineReg
      BY <1>5 DEF Stages
    <3> QED BY <3>1, <3>4, <3>5, NearerNow
  <2> QED BY <2>1, <2>2
<1>9. Settled(stage', stall')
  <2>1. stage'.e.valid /\ stage'.e.kind = "div" => stage'.e.latency <= stall'.div
    <3>1. CASE stuck
      BY <1>1, <1>4, <1>6, <3>1, CountersTick DEF Settled, PipelineReg, Less1
    <3>2. CASE ~stuck
      BY <1>3, <1>4, <1>6, <3>2 DEF DivBusy
    <3> QED BY <3>1, <3>2
  <2>2. stage'.e.valid /\ stage'.e.kind \in {"jal", "jalr", "branch"} => stage'.e.latency = 0
    <3>1. CASE stuck
      BY <1>1, <1>4, <3>1 DEF Settled, PipelineReg
    <3>2. CASE ~stuck
      BY <1>3, <1>4, <3>2
    <3> QED BY <3>1, <3>2
  <2> QED BY <1>6, <2>1, <2>2 DEF Settled
<1> QED BY <1>5, <1>6, <1>7, <1>8, <1>9 DEF Moving

-----------------------------------------------------------------------------
(* The steps *)

LEMMA BubblesTyped ==
  ASSUME NEW r \in PipelineReg, config \in Configs
  PROVE  ControlBubbles(r) \in 0 .. Branch + 1 /\ (ControlBubbles(r) > 0 => r.valid /\ r.kind \in {"jal", "jalr", "branch"})
<1>1. Branch \in Nat /\ config.branch_mispredict_penalty \in 0 .. Branch
  BY Penalties
<1>2. resolve_jump_ex(r) \in 0 .. Branch + 1
  BY <1>1 DEF resolve_jump_ex
<1>3. resolve_branch_ex(r) \in 0 .. Branch + 1
  BY <1>1 DEF resolve_branch_ex
<1> QED BY <1>1, <1>2, <1>3 DEF ControlBubbles, Resolves, IsJump

\* The execute, memory and write-back stages after a cycle, before they move.
AgedE == [decrement_latencies(stage.e) EXCEPT !.resolved = stage.e.valid]
AgedM == decrement_latencies(stage.m)
AgedW == decrement_latencies(stage.w)

LEMMA StageTickShape ==
  ASSUME StageTick
  PROVE  \/ ControlBubbles(stage.e) > 0 /\ resolve_branches_ex(AgedE, AgedM, AgedW, ControlBubbles(stage.e))
         \/ ControlBubbles(stage.e) = 0 /\ stage_register_transfers(AgedE, AgedM)
BY DEF StageTick, AgedE, AgedM, AgedW

LEMMA TickMoves ==
  ASSUME Typed, avail \in [Registers -> Nat], stats.cycles \in Nat, stats'.cycles = stats.cycles + 1,
         OnItsWay(stage, avail, stats.cycles), Settled(stage, stall), Short(stall), tick_pipeline
  PROVE  Moving
<1>1. CASE stall.control > 0
  BY <1>1, BubbleStep DEF tick_pipeline
<1>2. CASE ~(stall.control > 0)
  <2>1. stall.control = 0 /\ StageTick
    BY <1>2, StagesTyped DEF tick_pipeline
  <2>2. /\ AgedE \in PipelineReg /\ AgedM \in PipelineReg /\ AgedW \in PipelineReg
        /\ \A f \in {"valid", "id", "kind", "rd", "rs1", "rs2", "dcache_miss"} : AgedE[f] = stage.e[f]
        /\ AgedE.latency = IF stage.e.valid /\ stage.e.latency > 0 THEN stage.e.latency - 1 ELSE stage.e.latency
    BY StagesTyped, Aged, AgedResolved DEF AgedE, AgedM, AgedW
  <2>3. /\ ControlBubbles(stage.e) \in 0 .. Branch + 1
        /\ ControlBubbles(stage.e) > 0 => stage.e.valid /\ stage.e.kind \in {"jal", "jalr", "branch"}
    BY StagesTyped, BubblesTyped DEF Typed
  <2>4. CASE ControlBubbles(stage.e) > 0 /\ resolve_branches_ex(AgedE, AgedM, AgedW, ControlBubbles(stage.e))
    BY <2>1, <2>2, <2>3, <2>4, FlushStep
  <2>5. CASE stage_register_transfers(AgedE, AgedM)
    BY <2>1, <2>2, <2>5, TransferStep
  <2> QED BY <2>1, <2>4, <2>5, StageTickShape
<1> QED BY <1>1, <1>2

Now == Sane(stage, stall, stats, cycle_history, avail, returned, fed)

LEMMA TickSane ==
  ASSUME Now, config \in Configs, tick_pipeline, StalledTick \/ stage.f.valid
  PROVE  Now'
<1>1. Typed /\ avail \in [Registers -> Nat] /\ Balanced(stage, stats, cycle_history, returned, fed)
      /\ OnItsWay(stage, avail, stats.cycles) /\ Settled(stage, stall) /\ Short(stall)
  BY DEF Now, Sane, Typed
<1>2. stats \in Stats /\ OneCause(stats) /\ stats.cycles \in Nat
  BY <1>1 DEF Balanced, Stats, OneCause
<1>3. stats'.cycles = stats.cycles + 1
  BY <1>1, <1>2, StatsTick
<1>4. Moving
  BY <1>1, <1>2, <1>3, TickMoves
<1>5. Balanced(stage', stats', cycle_history', returned', fed')
  BY <1>1, <1>4, BalancedTick DEF Moving
<1> QED BY <1>4, <1>5 DEF Now, Sane, Moving

LEMMA FillSane ==
  ASSUME Now, Called, FillFetch
  PROVE  Now' /\ stage'.f.valid
<1> DEFINE r == [valid |-> TRUE, id |-> next_inst_id + 1, pc |-> feeding.pc, kind |-> feeding.kind,
                 rd |-> feeding.rd, rs1 |-> feeding.rs1, rs2 |-> feeding.rs2, tlb_miss |-> feeding.tlb_miss,
                 icache_miss |-> feeding.icache_miss, dcache_miss |-> feeding.dcache_miss,
                 branched |-> feeding.branched, target |-> feeding.target, latency |-> 0, resolved |-> FALSE]
<1>1. feeding \in Insts /\ config \in Configs /\ next_inst_id \in Nat
  BY DEF Called, FillFetch
<1>2. /\ feeding.kind \in Kinds /\ feeding.pc \in Nat /\ feeding.branched \in BOOLEAN /\ feeding.target \in Nat
      /\ feeding.tlb_miss \in BOOLEAN /\ feeding.icache_miss \in BOOLEAN /\ feeding.dcache_miss \in BOOLEAN
      /\ config.tlb_miss_penalty \in Nat /\ config.icache_miss_penalty \in Nat
  BY <1>1, PipeAssumption
<1>3. {feeding.rd, feeding.rs1, feeding.rs2} \subseteq Registers
  BY <1>1 DEF Registers
<1>4. r \in PipelineReg /\ r.valid
  BY <1>1, <1>2, <1>3 DEF PipelineReg
<1>5. stage' = [stage EXCEPT !.f = r]
  BY DEF FillFetch
<1> HIDE DEF r
<1>6. Typed /\ avail \in [Registers -> Nat] /\ Balanced(stage, stats, cycle_history, returned, fed)
      /\ OnItsWay(stage, avail, stats.cycles) /\ Settled(stage, stall) /\ Short(stall)
  BY <1>1 DEF Now, Sane, Typed
<1>7. stage' \in [Stages -> PipelineReg] /\ stage'.f = r /\ stage'.d = stage.d /\ stage'.e = stage.e /\ stage'.m = stage.m
  BY <1>4, <1>5, <1>6 DEF Typed, Stages
<1>8. stall' \in Counters /\ stall'.div = stall.div /\ stall'.control = stall.control /\ stall.control = 0 /\ Short(stall')
  <2> DEFINE a == IF feeding.tlb_miss THEN config.tlb_miss_penalty ELSE stall.tlb
             b == IF feeding.icache_miss THEN config.icache_miss_penalty ELSE stall.icache
  <2>1. stall' = [stall EXCEPT !.tlb = a, !.icache = b]
    BY DEF FillFetch
  <2>2. a \in Nat /\ b \in Nat
    BY <1>2, <1>6, StagesTyped
  <2>3. stall.control = 0
    BY DEF FillFetch, Room
  <2>4. a <= Tlb /\ b <= Icache
    BY <1>1, <1>6, Penalties DEF Short
  <2> HIDE DEF a, b
  <2>5. stall' \in Counters /\ stall'.div = stall.div /\ stall'.control = stall.control /\ stall'.dcache = stall.dcache
        /\ stall'.tlb = a /\ stall'.icache = b
    BY <1>6, <2>1, <2>2 DEF Typed, Counters
  <2> QED BY <1>6, <2>3, <2>4, <2>5 DEF Short
<1>9. Balanced(stage', stats', cycle_history', returned', fed')
  <2>1. ~stage.f.valid /\ fed' = fed + 1 /\ stats' = stats /\ cycle_history' = cycle_history /\ returned' = returned
    BY DEF FillFetch, Room
  <2>2. stats.cycles \in Nat /\ stats.stalls \in Nat /\ fed \in Nat /\ stats.cycles <= fed + stats.stalls
    BY <1>6, <2>1 DEF Balanced
  <2>3. stats'.cycles + (IF stage'.f.valid THEN 1 ELSE 0) <= fed' + stats'.stalls
    BY <1>4, <1>7, <2>1, <2>2
  <2>4. fed' \in Nat
    BY <2>1, <2>2
  <2>5. \A i \in 1 .. Len(cycle_history') : cycle_history'[i].cycle = (stats'.cycles - Len(cycle_history')) + i
    BY <1>6, <2>1 DEF Balanced
  <2>6. /\ stats' \in [Causes \cup {"cycles", "stalls", "bubbles"} -> Nat] /\ returned' \in Nat /\ stats'.cycles = returned'
        /\ stats'.stalls = stats'.icache + stats'.dcache + stats'.tlb + stats'.structural + stats'.data + stats'.control
        /\ cycle_history' \in Seq(Snapshots)
    BY <1>6, <2>1 DEF Balanced
  <2> QED BY <2>3, <2>4, <2>5, <2>6 DEF Balanced
<1>10. avail' = avail /\ stats' = stats
  BY DEF FillFetch
<1>11. OnItsWay(stage', avail', stats'.cycles)
  BY <1>6, <1>7, <1>10 DEF OnItsWay
<1>12. Settled(stage', stall')
  BY <1>6, <1>7, <1>8 DEF Settled
<1> QED BY <1>4, <1>6, <1>7, <1>8, <1>9, <1>10, <1>11, <1>12 DEF Now, Sane

\* The saved states are as sane as the one at work.
Kept == \E S : saved \in Seq(S) /\ \A s \in S : SaneState(s)

LEMMA SaveKept ==
  ASSUME Now, Kept, save_state
  PROVE  Kept'
<1> DEFINE x == [stage |-> stage, stall |-> stall, stats |-> stats, bht |-> bht, btb |-> btb, gshare_history |-> gshare_history,
                 cycle_history |-> cycle_history, avail |-> avail, returned |-> returned, fed |-> fed]
<1>1. PICK S : saved \in Seq(S) /\ \A s \in S : SaneState(s)
  BY DEF Kept
<1>2. SaneState(x)
  BY DEF Now, SaneState
<1>3. saved' = Recent(Append(saved, x), SavedMax)
  BY DEF save_state
<1> HIDE DEF x
<1>4. saved \in Seq(S \cup {x})
  <2>1. S \subseteq S \cup {x}
    OBVIOUS
  <2> QED BY <1>1, <2>1
<1>5. Append(saved, x) \in Seq(S \cup {x}) /\ Len(Append(saved, x)) = Len(saved) + 1 /\ Len(saved) \in Nat
  BY <1>4
<1>6. Tail(Append(saved, x)) \in Seq(S \cup {x})
  BY <1>5
<1>7. saved' \in Seq(S \cup {x})
  BY <1>3, <1>5, <1>6 DEF Recent
<1>8. \A s \in S \cup {x} : SaneState(s)
  BY <1>1, <1>2
<1> QED BY <1>7, <1>8 DEF Kept

LEMMA RestoreSane ==
  ASSUME Kept, restore_state
  PROVE  Now' /\ Kept'
<1>1. PICK S : saved \in Seq(S) /\ \A s \in S : SaneState(s)
  BY DEF Kept
<1>2. Len(saved) \in Nat /\ Len(saved) # 0
  BY <1>1 DEF restore_state
<1>3. Last(saved) \in S
  BY <1>1, <1>2 DEF Last
<1>4. Now'
  <2>1. SaneState(Last(saved))
    BY <1>1, <1>3
  <2>2. /\ stage' = Last(saved).stage /\ stall' = Last(saved).stall /\ stats' = Last(saved).stats
        /\ cycle_history' = Last(saved).cycle_history
        /\ avail' = Last(saved).avail /\ returned' = Last(saved).returned /\ fed' = Last(saved).fed
    BY DEF restore_state
  <2> QED BY <2>1, <2>2 DEF SaneState, Now
<1>5. Front(saved) \in Seq(S)
  BY <1>1, <1>2 DEF Front
<1> QED BY <1>1, <1>4, <1>5 DEF Kept, restore_state

LEMMA PipeInvInit == PipeInit => PipeInv
<1> SUFFICES ASSUME PipeInit PROVE PipeInv
  OBVIOUS
<1> USE DEF PipeInit
<1>1. stage \in [Stages -> PipelineReg] /\ \A s \in Stages : stage[s] = NoInst
  BY EmptyStage
<1>2. stall \in Counters /\ avail \in [Registers -> Nat] /\ \A r \in Registers : avail[r] = 0
  BY DEF NoStall, Counters
<1>3. Balanced(stage, stats, cycle_history, returned, fed)
  <2>1. stats \in Stats /\ \A c \in Causes \cup {"cycles", "stalls", "bubbles"} : stats[c] = 0
    BY DEF NoStats, Stats
  <2>2. OneCause(stats) /\ stats.cycles = 0 /\ stats.stalls = 0
    BY <2>1 DEF OneCause, Causes
  <2>3. cycle_history \in Seq(Snapshots) /\ Len(cycle_history) = 0
    OBVIOUS
  <2>4. ~stage.f.valid
    BY <1>1, EmptyStage DEF Stages
  <2> QED BY <2>1, <2>2, <2>3, <2>4 DEF Balanced, Stats, OneCause
<1>4. stats.cycles = 0
  BY DEF NoStats
<1>5. OnItsWay(stage, avail, stats.cycles)
  BY <1>2, <1>4 DEF OnItsWay
<1>6. Settled(stage, stall)
  BY <1>1, EmptyStage DEF Settled, Stages, NoStall
<1>7. Called
  BY DEF Called
<1>8. saved \in Seq({})
  OBVIOUS
<1>9. Now
  <2>1. Short(stall)
    BY Penalties DEF Short, NoStall
  <2> QED BY <1>1, <1>2, <1>3, <1>5, <1>6, <2>1 DEF Now, Sane
<1>10. Kept
  <2> DEFINE E == {}
  <2>1. saved \in Seq(E) /\ \A s \in E : SaneState(s)
    BY <1>8
  <2> HIDE DEF E
  <2> QED BY <2>1 DEF Kept
<1> QED BY <1>7, <1>9, <1>10 DEF PipeInv, Now, Kept

LEMMA TickStep ==
  ASSUME Now, config \in Configs, Tick, StalledTick \/ stage.f.valid
  PROVE  Now'
<1>1. CASE tick_pipeline
  BY <1>1, TickSane
<1>2. CASE UNCHANGED saveable
  BY <1>2 DEF saveable, Now
<1> QED BY <1>1, <1>2 DEF Tick

LEMMA PipeInvStep ==
  ASSUME PipeInv, [PipeNext]_pipeVars
  PROVE  PipeInv'
<1>1. Now /\ Called /\ Kept
  BY DEF PipeInv, Now, Kept
<1>2. config \in Configs /\ next_inst_id \in Nat /\ call \in {"idle", "wait", "last"}
  BY <1>1 DEF Called
<1> SUFFICES Now' /\ Called' /\ Kept'
  BY DEF PipeInv, Now, Kept
<1>3. ASSUME UNCHANGED saveable PROVE Now' /\ stage' = stage
  BY <1>1, <1>3 DEF saveable, Now
<1>4. ASSUME NEW ins \in Insts, NEW rollback \in BOOLEAN, hand_over(ins, rollback)
      PROVE  Now' /\ Called' /\ Kept'
  <2>1. UNCHANGED saveable /\ call' = "wait" /\ feeding' = ins /\ config' = config /\ next_inst_id' = next_inst_id
    BY <1>4 DEF hand_over
  <2>2. Kept'
    <3>1. CASE rollback
      BY <1>1, <1>4, <3>1, SaveKept DEF hand_over
    <3>2. CASE ~rollback
      BY <1>1, <1>4, <3>2 DEF hand_over, Kept
    <3> QED BY <3>1, <3>2
  <2> QED BY <1>2, <1>3, <2>1, <2>2 DEF Called
<1>5. CASE WaitTick
  <2>1. Tick /\ ~Room /\ call = "wait"
    BY <1>5 DEF WaitTick
  <2>2. StalledTick \/ stage.f.valid
    <3>1. stall.control \in Nat
      BY <1>1 DEF Now, Sane, Counters
    <3> QED BY <2>1, <3>1 DEF Room, StalledTick
  <2>3. Now'
    BY <1>1, <1>2, <2>1, <2>2, TickStep
  <2>4. Called' /\ Kept'
    BY <1>1, <1>5, <2>1 DEF WaitTick, Called, Kept
  <2> QED BY <2>3, <2>4
<1>6. CASE FillFetch
  <2>1. Now' /\ stage'.f.valid
    BY <1>1, <1>6, FillSane
  <2>2. Called' /\ Kept'
    BY <1>1, <1>2, <1>6, <2>1 DEF FillFetch, Called, Kept
  <2> QED BY <2>1, <2>2
<1>7. CASE LastTick
  <2>1. Tick /\ stage.f.valid
    BY <1>1, <1>7 DEF LastTick, Called
  <2>2. Now'
    BY <1>1, <1>2, <2>1, TickStep
  <2>3. Called' /\ Kept'
    BY <1>1, <1>2, <1>7 DEF LastTick, Called, Kept
  <2> QED BY <2>2, <2>3
<1>8. ASSUME NEW cfg \in Configs, apply_config(cfg)
      PROVE  Now' /\ Called' /\ Kept'
  <2>1. UNCHANGED saveable /\ config' = cfg /\ saved' = saved /\ call' = call /\ feeding' = feeding /\ next_inst_id' = next_inst_id
    BY <1>8 DEF apply_config
  <2> QED BY <1>1, <1>3, <2>1 DEF Called, Kept
<1>9. CASE restore_state
  <2>1. Now' /\ Kept'
    BY <1>1, <1>9, RestoreSane
  <2>2. Called'
    BY <1>1, <1>2, <1>9 DEF restore_state, Called
  <2> QED BY <2>1, <2>2
<1>10. CASE UNCHANGED pipeVars
  BY <1>1, <1>3, <1>10 DEF pipeVars, Called, Kept
<1> QED BY <1>4, <1>5, <1>6, <1>7, <1>8, <1>9, <1>10 DEF PipeNext, step_instruction, PipeEnd

\* The cycles that step_instruction returned, the cycles counted, the stalls by cause, the instructions
\* fed and the history agree in every state, whatever program runs, whatever is configured between two
\* instructions and however often the user steps back.
THEOREM CyclesAddUp == PipeSpec => []Accounted
<1>1. PipeInv => Accounted
  <2> SUFFICES ASSUME PipeInv PROVE Accounted
    OBVIOUS
  <2>1. Balanced(stage, stats, cycle_history, returned, fed)
    BY DEF PipeInv, Sane
  <2>2. DOMAIN cycle_history = 1 .. Len(cycle_history) /\ Len(cycle_history) \in Nat /\ stats.cycles \in Nat
    BY <2>1 DEF Balanced
  <2>3. \A i \in DOMAIN cycle_history : cycle_history[i].cycle = stats.cycles - Len(cycle_history) + i
    BY <2>1, <2>2 DEF Balanced
  <2> QED BY <2>1, <2>3 DEF Balanced, Accounted
<1> QED BY <1>1, PipeInvInit, PipeInvStep, PTL DEF PipeSpec

-----------------------------------------------------------------------------
(* The operands are ready. *)

\* The writer of a source of the instruction in decode, found in stage s: if decode does not stall, its
\* result has no cycle to go and the path from s is on.
LEMMA NoHazard ==
  ASSUME Typed, stage.d.valid, ~check_stall_id, NEW s \in {"e", "m"},
         NEW r \in {stage.d.rs1, stage.d.rs2} \ {0}, Writer(stage[s], r)
  PROVE  Forwarded(s) /\ stage[s].latency <= 0
<1>1. ~check_hazard_with_stage(s)
  BY DEF check_stall_id
<1>2. stage[s].latency \in Nat \cup {-1}
  BY StagesTyped DEF PipelineReg
<1> QED BY <1>1, <1>2 DEF check_hazard_with_stage, Writer

LEMMA TickReady ==
  ASSUME Now, config \in Configs, tick_pipeline, stage'.e.valid, stage'.e.id # stage.e.id,
         NEW r \in {stage'.e.rs1, stage'.e.rs2} \ {0}
  PROVE  /\ avail[r] <= stats'.cycles
         /\ Writer(stage'.m, r) => Forwarded("e")
         /\ Writer(stage'.w, r) => Forwarded("m")
<1>1. Typed /\ avail \in [Registers -> Nat] /\ OnItsWay(stage, avail, stats.cycles) /\ Settled(stage, stall)
      /\ stats \in Stats /\ OneCause(stats) /\ stats.cycles \in Nat
  BY DEF Now, Sane, Typed, Balanced, Stats, OneCause
<1>2. stats'.cycles = stats.cycles + 1
  BY <1>1, StatsTick
<1>3. stage.d \in PipelineReg /\ stage.e \in PipelineReg /\ stage.m \in PipelineReg
  BY <1>1, StagesTyped
<1>4. ~(stall.control > 0)
  <2> SUFFICES ASSUME stall.control > 0 PROVE FALSE
    OBVIOUS
  <2>1. ~stage.d.valid /\ BubbleTick
    BY <1>1 DEF Settled, tick_pipeline
  <2>2. stage'.e = init_execution_latency(stage.d)
    BY <2>1 DEF BubbleTick
  <2>3. init_execution_latency(stage.d).valid = stage.d.valid
    BY <1>3, Started
  <2> QED BY <2>1, <2>2, <2>3
<1>5. StageTick
  BY <1>1, <1>4, StagesTyped DEF tick_pipeline
<1>6. /\ \A f \in {"valid", "id", "kind", "rd", "rs1", "rs2", "dcache_miss"} : AgedE[f] = stage.e[f] /\ AgedM[f] = stage.m[f]
  BY <1>3, Aged, AgedResolved DEF AgedE, AgedM
<1>7. stage_register_transfers(AgedE, AgedM)
  <2>1. ~resolve_branches_ex(AgedE, AgedM, AgedW, ControlBubbles(stage.e))
    BY <1>6 DEF resolve_branches_ex
  <2> QED BY <1>5, <2>1, StageTickShape
<1>8. ~check_stall_mem /\ ~check_stall_ex
  <2> SUFFICES ASSUME check_stall_mem \/ check_stall_ex PROVE FALSE
    OBVIOUS
  <2>1. stage'.e = AgedE
    BY <1>7 DEF stage_register_transfers
  <2> QED BY <1>6, <2>1
<1>9. stage'.e = init_execution_latency(Issued) /\ stage'.m = AgedE /\ stage'.w = AgedM
  BY <1>7, <1>8 DEF stage_register_transfers, Issued
<1>10. Issued = stage.d /\ stage.d.valid /\ ~check_stall_id
  <2>1. Issued \in PipelineReg
    BY <1>3, EmptyStage DEF Issued
  <2>2. Issued.valid
    BY <1>9, <2>1, Started
  <2> QED BY <1>8, <2>2, EmptyStage DEF Issued
<1>11. r \in {stage.d.rs1, stage.d.rs2} \ {0}
  BY <1>3, <1>9, <1>10, Started
<1>12. r \in Registers \ {0}
  BY <1>3, <1>11 DEF PipelineReg
<1>13. Writer(stage.e, r) => Forwarded("e") /\ stage.e.latency <= 0
  BY <1>1, <1>10, <1>11, NoHazard
<1>14. Writer(stage.m, r) => Forwarded("m") /\ stage.m.latency <= 0
  BY <1>1, <1>10, <1>11, NoHazard
<1>15. avail[r] <= stats'.cycles
  <2>1. \/ avail[r] <= stats.cycles + 1
        \/ Writer(stage.e, r) /\ avail[r] <= stats.cycles + 1 + InExecute(stage.e)
        \/ Writer(stage.m, r) /\ avail[r] <= stats.cycles + 1 + InMemory(stage.m)
    BY <1>1, <1>12 DEF OnItsWay
  <2>2. /\ Writer(stage.e, r) => InExecute(stage.e) \in Int /\ InExecute(stage.e) <= 0
        /\ Writer(stage.m, r) => InMemory(stage.m) \in Int /\ InMemory(stage.m) <= 0
    BY <1>3, <1>13, <1>14 DEF PipelineReg, InExecute, InMemory
  <2>3. avail[r] \in Nat
    BY <1>1, <1>12
  <2> QED BY <1>1, <1>2, <2>1, <2>2, <2>3
<1>16. (Writer(stage'.m, r) => Writer(stage.e, r)) /\ (Writer(stage'.w, r) => Writer(stage.m, r))
  BY <1>6, <1>9 DEF Writer, writes_reg
<1> QED BY <1>13, <1>14, <1>15, <1>16

\* No instruction enters the execute stage before its sources can be there, and none takes a result
\* over a forwarding path that is off: for every program, every configuration between two
\* instructions and every step back.
THEOREM OperandsWaited == PipeSpec => OperandsReady
<1>1. ASSUME PipeInv, [PipeNext]_pipeVars, stage'.e.valid, stage'.e.id # stage.e.id, call # "idle"
      PROVE  tick_pipeline
  <2>1. ASSUME Tick PROVE tick_pipeline
    BY <1>1, <2>1 DEF Tick, saveable
  <2>2. ~FillFetch
    BY <1>1 DEF FillFetch, PipeInv, Sane, Stages
  <2>3. ~UNCHANGED pipeVars
    BY <1>1 DEF pipeVars, saveable
  <2>4. WaitTick \/ LastTick
    BY <1>1, <2>2, <2>3 DEF PipeNext, step_instruction, hand_over, apply_config, restore_state, PipeEnd
  <2> QED BY <2>1, <2>4 DEF WaitTick, LastTick
<1>2. ASSUME PipeInv, [PipeNext]_pipeVars, stage'.e.valid, stage'.e.id # stage.e.id, call # "idle"
      PROVE  LET sources == {stage'.e.rs1, stage'.e.rs2} \ {0} IN
             /\ \A r \in sources : avail[r] <= stats'.cycles
             /\ \A p \in {<<"e", stage'.m>>, <<"m", stage'.w>>} :
                  p[2].valid /\ writes_reg(p[2]) /\ p[2].rd \in sources => Forwarded(p[1])
  <2>1. tick_pipeline /\ Now /\ config \in Configs
    BY <1>1, <1>2 DEF PipeInv, Now, Called
  <2> DEFINE sources == {stage'.e.rs1, stage'.e.rs2} \ {0}
  <2>2. \A r \in sources : /\ avail[r] <= stats'.cycles
                           /\ Writer(stage'.m, r) => Forwarded("e")
                           /\ Writer(stage'.w, r) => Forwarded("m")
    BY <1>2, <2>1, TickReady
  <2> HIDE DEF sources
  <2>3. stage'.m.valid /\ writes_reg(stage'.m) /\ stage'.m.rd \in sources => Forwarded("e")
    BY <2>2 DEF Writer
  <2>4. stage'.w.valid /\ writes_reg(stage'.w) /\ stage'.w.rd \in sources => Forwarded("m")
    BY <2>2 DEF Writer
  <2>5. \A p \in {<<"e", stage'.m>>, <<"m", stage'.w>>} :
          p[2].valid /\ writes_reg(p[2]) /\ p[2].rd \in sources => Forwarded(p[1])
    BY <2>3, <2>4
  <2> QED BY <2>2, <2>5 DEF sources
<1>3. PipeSpec => []PipeInv
  BY PipeInvInit, PipeInvStep, PTL DEF PipeSpec
<1> QED BY <1>2, <1>3, PTL DEF PipeSpec, OperandsReady

-----------------------------------------------------------------------------
(* A call returns: what the instructions in the pipeline can still cost is   *)
(* a number that every tick of the loop makes smaller.                       *)

\* What an instruction may still cost from each stage on, the moves included.
Transfer(r) == IF Resolves(r) /\ r.kind \in {"jal", "jalr", "branch"} THEN Branch + 2 ELSE 0
Miss(r)     == IF r.dcache_miss THEN Dcache ELSE 0
Divides(r)  == IF r.kind = "div" THEN Div ELSE 0
FromF(r) == IF r.valid THEN 4 + Miss(r) + Divides(r) + Transfer(r) ELSE 0
FromD(r) == IF r.valid THEN 3 + Miss(r) + Divides(r) + Transfer(r) ELSE 0
FromE(r) == IF r.valid THEN 2 + Miss(r) + Transfer(r) ELSE 0
FromM(r) == IF r.valid THEN 1 ELSE 0

Left == stall.control + stall.tlb + stall.icache + stall.dcache + stall.div
          + FromF(stage.f) + FromD(stage.d) + FromE(stage.e) + FromM(stage.m)

LEMMA CostsTyped ==
  ASSUME NEW r \in PipelineReg, config \in Configs
  PROVE  /\ Miss(r) \in 0 .. Dcache /\ Divides(r) \in 0 .. Div /\ Transfer(r) \in 0 .. Branch + 2
         /\ FromF(r) \in Nat /\ FromD(r) \in Nat /\ FromE(r) \in Nat /\ FromM(r) \in 0 .. 1
         /\ FromF(r) <= 6 + Dcache + Div + Branch /\ FromD(r) <= 5 + Dcache + Div + Branch
         /\ FromE(r) <= 4 + Dcache + Branch
         /\ r.valid => FromD(r) + 1 <= FromF(r)
         /\ FromD(r) <= FromF(r)
<1>1. Miss(r) \in 0 .. Dcache /\ Divides(r) \in 0 .. Div /\ Transfer(r) \in 0 .. Branch + 2
  BY Penalties DEF Miss, Divides, Transfer
<1>2. Dcache \in Nat /\ Div \in Nat /\ Branch \in Nat
  BY Penalties
<1> QED BY <1>1, <1>2 DEF FromF, FromD, FromE, FromM

\* To issue an instruction costs its move and starts the divider at most.
LEMMA IssueCost ==
  ASSUME NEW r \in PipelineReg, config \in Configs, NEW busy \in Nat
  PROVE  LET x == init_execution_latency(r) IN
         /\ DivBusy(r, busy) \in Nat
         /\ FromE(x) + DivBusy(r, busy) <= FromD(r) + busy
         /\ r.valid => FromE(x) + DivBusy(r, busy) + 1 <= FromD(r) + busy
<1> DEFINE x == init_execution_latency(r)
<1>1. x.valid = r.valid /\ x.kind = r.kind /\ x.dcache_miss = r.dcache_miss /\ x.resolved = r.resolved
  BY Started
<1>2. DivTicks(config) \in 0 .. Div /\ Div \in Nat
  BY Penalties
<1>3. Miss(x) = Miss(r) /\ Transfer(x) = Transfer(r)
  BY <1>1 DEF Miss, Transfer, Resolves
<1>4. Miss(r) \in Nat /\ Transfer(r) \in Nat
  BY CostsTyped, Penalties
<1>5. DivBusy(r, busy) = IF r.valid /\ r.kind = "div" THEN DivTicks(config) ELSE busy
  BY DEF DivBusy
<1>6. /\ FromE(x) = IF r.valid THEN 2 + Miss(r) + Transfer(r) ELSE 0
      /\ FromD(r) = IF r.valid THEN 3 + Miss(r) + (IF r.kind = "div" THEN Div ELSE 0) + Transfer(r) ELSE 0
  BY <1>1, <1>3 DEF FromE, FromD, Divides
<1> HIDE DEF x
<1>7. /\ DivBusy(r, busy) \in Nat
      /\ FromE(x) + DivBusy(r, busy) <= FromD(r) + busy
      /\ r.valid => FromE(x) + DivBusy(r, busy) + 1 <= FromD(r) + busy
  BY <1>2, <1>4, <1>5, <1>6
<1> QED BY <1>7 DEF x

\* To move on to the memory stage costs the move and starts the miss at most.
LEMMA MemoryCost ==
  ASSUME NEW r \in PipelineReg, NEW x \in PipelineReg, config \in Configs, NEW busy \in Nat,
         x.valid = r.valid, x.dcache_miss = r.dcache_miss
  PROVE  LET b == IF x.valid /\ x.dcache_miss THEN config.dcache_miss_penalty ELSE busy IN
         /\ FromM(x) + b <= FromE(r) + busy
         /\ r.valid => FromM(x) + b + 1 <= FromE(r) + busy
<1>1. config.dcache_miss_penalty \in 0 .. Dcache /\ Dcache \in Nat /\ Transfer(r) \in Nat
  BY CostsTyped, Penalties
<1> QED BY <1>1 DEF FromM, FromE, Miss

\* The instruction of the execute stage costs no more after the cycle that resolved it, and less if the
\* transfer was not foreseen.
LEMMA ResolveCost ==
  ASSUME NEW r \in PipelineReg, NEW x \in PipelineReg, config \in Configs,
         x.valid = r.valid, x.dcache_miss = r.dcache_miss, x.resolved = r.valid
  PROVE  /\ FromE(x) <= FromE(r)
         /\ ControlBubbles(r) > 0 => FromE(x) + Branch + 2 <= FromE(r)
<1>1. Branch \in Nat /\ Dcache \in Nat /\ Transfer(r) \in 0 .. Branch + 2 /\ Miss(r) \in Nat
  BY CostsTyped, Penalties
<1>2. Miss(x) = Miss(r) /\ (x.valid => Transfer(x) = 0)
  BY DEF Miss, Transfer, Resolves
<1>3. ControlBubbles(r) > 0 => r.valid /\ Transfer(r) = Branch + 2
  BY BubblesTyped DEF Transfer, ControlBubbles, Resolves, IsJump
<1> QED BY <1>1, <1>2, <1>3 DEF FromE

LEMMA LeftTyped ==
  ASSUME Typed
  PROVE  /\ stall.control \in Nat /\ stall.tlb \in Nat /\ stall.icache \in Nat /\ stall.dcache \in Nat /\ stall.div \in Nat
         /\ FromF(stage.f) \in Nat /\ FromD(stage.d) \in Nat /\ FromE(stage.e) \in Nat /\ FromM(stage.m) \in 0 .. 1
         /\ Left \in Nat
<1>1. /\ stage.f \in PipelineReg /\ stage.d \in PipelineReg /\ stage.e \in PipelineReg /\ stage.m \in PipelineReg
      /\ stall.control \in Nat /\ stall.tlb \in Nat /\ stall.icache \in Nat /\ stall.dcache \in Nat /\ stall.div \in Nat
  BY StagesTyped
<1>2. FromF(stage.f) \in Nat /\ FromD(stage.d) \in Nat /\ FromE(stage.e) \in Nat /\ FromM(stage.m) \in 0 .. 1
  BY <1>1, CostsTyped DEF Typed
<1> QED BY <1>1, <1>2 DEF Left

LEMMA EmptyCost == FromF(NoInst) = 0 /\ FromD(NoInst) = 0 /\ FromE(NoInst) = 0 /\ FromM(NoInst) = 0
BY EmptyStage DEF FromF, FromD, FromE, FromM

LEMMA BubbleLeft ==
  ASSUME Typed, Typed', Settled(stage, stall), stall.control > 0, BubbleTick
  PROVE  Left' + 1 <= Left
<1>1. ~stage.f.valid /\ ~stage.d.valid /\ stage.d \in PipelineReg /\ stage.e \in PipelineReg /\ config \in Configs
  BY StagesTyped DEF Settled, Typed
<1>2. stage'.f = NoInst /\ stage'.d = stage.f /\ stage'.e = init_execution_latency(stage.d) /\ stage'.m = stage.e
  BY DEF BubbleTick
<1>3. init_execution_latency(stage.d).valid = stage.d.valid
  BY <1>1, Started
<1>4. FromF(stage'.f) = 0 /\ FromD(stage'.d) = 0 /\ FromE(stage'.e) = 0 /\ FromM(stage'.m) <= FromE(stage.e)
  <2>1. FromM(stage.e) <= FromE(stage.e)
    <3>1. Miss(stage.e) \in Nat /\ Transfer(stage.e) \in Nat
      BY <1>1, CostsTyped, Penalties
    <3> QED BY <3>1 DEF FromM, FromE
  <2> QED BY <1>1, <1>2, <1>3, <2>1, EmptyCost DEF FromD, FromE
<1>5. /\ stall'.control = stall.control - 1 /\ stall'.tlb = stall.tlb /\ stall'.icache = stall.icache
      /\ stall'.dcache = stall.dcache /\ stall'.div = stall.div
  <2>1. stall' = [stall EXCEPT !.control = stall.control - 1, !.div = stall.div]
    BY <1>1 DEF BubbleTick, DivBusy
  <2> QED BY <2>1 DEF Typed, Counters
<1>6. Left' = stall'.control + stall'.tlb + stall'.icache + stall'.dcache + stall'.div
                + FromF(stage'.f) + FromD(stage'.d) + FromE(stage'.e) + FromM(stage'.m)
  BY DEF Left, FromF, FromD, FromE, FromM, Miss, Divides, Transfer, Resolves
<1>7. FromM(stage'.m) \in Nat
  BY <1>1, <1>2, CostsTyped
<1> QED BY <1>4, <1>5, <1>6, <1>7, LeftTyped DEF Left

LEMMA FlushLeft ==
  ASSUME Typed, Typed', stall.control = 0, ControlBubbles(stage.e) > 0,
         resolve_branches_ex(AgedE, AgedM, AgedW, ControlBubbles(stage.e))
  PROVE  Left' + 1 <= Left
<1>1. stage.e \in PipelineReg /\ stage.m \in PipelineReg /\ config \in Configs
  BY StagesTyped DEF Typed
<1>2. /\ AgedE \in PipelineReg /\ AgedE.valid = stage.e.valid /\ AgedE.dcache_miss = stage.e.dcache_miss
      /\ AgedE.resolved = stage.e.valid /\ AgedM.valid = stage.m.valid
  BY <1>1, Aged, AgedResolved DEF AgedE, AgedM
<1>3. stage'.f = NoInst /\ stage'.d = NoInst /\ stage'.e = AgedE /\ stage'.m = AgedM
  BY DEF resolve_branches_ex
<1>4. FromE(AgedE) + Branch + 2 <= FromE(stage.e) /\ FromM(AgedM) = FromM(stage.m)
  BY <1>1, <1>2, ResolveCost DEF FromM
<1>5. /\ stall'.control = ControlBubbles(stage.e) /\ stall'.tlb = Less1(stall.tlb) /\ stall'.icache = Less1(stall.icache)
      /\ stall'.dcache = Less1(stall.dcache) /\ stall'.div = Less1(stall.div)
  <2>1. stall' = [Counted EXCEPT !.control = ControlBubbles(stage.e)]
    BY DEF resolve_branches_ex, Counted
  <2> QED BY <2>1, CountersTick DEF Counters
<1>6. ControlBubbles(stage.e) \in 0 .. Branch + 1 /\ Branch \in Nat /\ FromE(AgedE) \in Nat
  BY <1>1, <1>2, BubblesTyped, Penalties, CostsTyped
<1>7. Left' = stall'.control + stall'.tlb + stall'.icache + stall'.dcache + stall'.div
                + FromF(stage'.f) + FromD(stage'.d) + FromE(stage'.e) + FromM(stage'.m)
  BY DEF Left, FromF, FromD, FromE, FromM, Miss, Divides, Transfer, Resolves
<1>8. FromF(stage'.f) = 0 /\ FromD(stage'.d) = 0 /\ FromE(stage'.e) = FromE(AgedE) /\ FromM(stage'.m) = FromM(AgedM)
  BY <1>3, EmptyCost
<1>9. /\ stall'.tlb \in 0 .. stall.tlb /\ stall'.icache \in 0 .. stall.icache
      /\ stall'.dcache \in 0 .. stall.dcache /\ stall'.div \in 0 .. stall.div
  BY <1>5, LeftTyped DEF Less1
<1> QED BY <1>4, <1>5, <1>6, <1>7, <1>8, <1>9, LeftTyped DEF Left

LEMMA TransferLeft ==
  ASSUME Typed, Typed', stall.control = 0, stage_register_transfers(AgedE, AgedM), StalledTick \/ stage.f.valid
  PROVE  Left' + 1 <= Left
<1> DEFINE stuck == check_stall_mem \/ check_stall_ex
           held  == stuck \/ check_stall_id
           next  == init_execution_latency(Issued)
<1>1. /\ stage.f \in PipelineReg /\ stage.d \in PipelineReg /\ stage.e \in PipelineReg /\ stage.m \in PipelineReg
      /\ config \in Configs
  BY StagesTyped DEF Typed
<1>2. /\ AgedE \in PipelineReg /\ AgedE.valid = stage.e.valid /\ AgedE.dcache_miss = stage.e.dcache_miss
      /\ AgedE.resolved = stage.e.valid /\ AgedM.valid = stage.m.valid
  BY <1>1, Aged, AgedResolved DEF AgedE, AgedM
<1>3. FromE(AgedE) <= FromE(stage.e) /\ FromM(AgedM) = FromM(stage.m) /\ FromE(AgedE) \in Nat /\ FromM(AgedE) \in Nat
  BY <1>1, <1>2, ResolveCost, CostsTyped DEF FromM
<1>4. Issued \in PipelineReg
  BY <1>1, EmptyStage DEF Issued
<1>5. /\ stage'.m = IF check_stall_mem THEN AgedM ELSE IF stuck THEN NoInst ELSE AgedE
      /\ stage'.e = IF stuck THEN AgedE ELSE next
      /\ stage'.d = IF held THEN stage.d ELSE IF check_stall_if THEN NoInst ELSE stage.f
      /\ stage'.f = IF held \/ check_stall_if THEN stage.f ELSE NoInst
  BY DEF stage_register_transfers, Issued
<1>6. /\ stall'.control = 0 /\ stall'.tlb = Less1(stall.tlb) /\ stall'.icache = Less1(stall.icache)
      /\ stall'.dcache = IF ~stuck /\ AgedE.valid /\ AgedE.dcache_miss THEN config.dcache_miss_penalty ELSE Less1(stall.dcache)
      /\ stall'.div = IF stuck THEN Less1(stall.div) ELSE DivBusy(Issued, Less1(stall.div))
  <2> DEFINE a == IF ~stuck /\ AgedE.valid /\ AgedE.dcache_miss THEN config.dcache_miss_penalty ELSE Counted.dcache
             b == IF stuck THEN Counted.div ELSE DivBusy(Issued, Counted.div)
  <2>1. stall' = [Counted EXCEPT !.dcache = a, !.div = b]
    BY DEF stage_register_transfers, Counted, Issued
  <2>2. Counted \in Counters /\ Counted.control = 0
    BY CountersTick DEF Less1
  <2>3. stall'.control = 0 /\ stall'.tlb = Counted.tlb /\ stall'.icache = Counted.icache /\ stall'.dcache = a /\ stall'.div = b
    <3> HIDE DEF a, b
    <3> QED BY <2>1, <2>2 DEF Counters
  <2> QED BY <2>3, CountersTick
<1>7. /\ Less1(stall.tlb) \in 0 .. stall.tlb /\ Less1(stall.icache) \in 0 .. stall.icache
      /\ Less1(stall.dcache) \in 0 .. stall.dcache /\ Less1(stall.div) \in 0 .. stall.div
  BY LeftTyped DEF Less1
<1>8. Left' = stall'.control + stall'.tlb + stall'.icache + stall'.dcache + stall'.div
                + FromF(stage'.f) + FromD(stage'.d) + FromE(stage'.e) + FromM(stage'.m)
  BY DEF Left, FromF, FromD, FromE, FromM, Miss, Divides, Transfer, Resolves
<1>9. CASE check_stall_mem
  <2>1. Less1(stall.dcache) + 1 = stall.dcache
    BY <1>9, LeftTyped DEF check_stall_mem, Less1
  <2>2. FromF(stage'.f) = FromF(stage.f) /\ FromD(stage'.d) = FromD(stage.d) /\ FromE(stage'.e) = FromE(AgedE) /\ FromM(stage'.m) = FromM(AgedM)
    BY <1>5, <1>9
  <2> QED BY <1>3, <1>6, <1>7, <1>8, <1>9, <2>1, <2>2, LeftTyped DEF Left
<1>10. CASE ~check_stall_mem /\ check_stall_ex
  <2>1. Less1(stall.div) + 1 = stall.div
    BY <1>10, LeftTyped DEF check_stall_ex, Less1
  <2>2. FromF(stage'.f) = FromF(stage.f) /\ FromD(stage'.d) = FromD(stage.d) /\ FromE(stage'.e) = FromE(AgedE) /\ FromM(stage'.m) = 0
    BY <1>5, <1>10, EmptyCost
  <2> QED BY <1>3, <1>6, <1>7, <1>8, <1>10, <2>1, <2>2, LeftTyped DEF Left
<1>11. CASE ~stuck
  <2> DEFINE miss == Less1(stall.dcache)
             busy == Less1(stall.div)
             mem  == stall'.dcache
             div  == stall'.div
             old  == FromE(stage.e)
             new  == FromE(stage'.e)
             fetched == FromF(stage'.f)
             decoded == FromD(stage'.d)
  <2>1. /\ FromM(stage'.m) + mem <= old + miss
        /\ stage.e.valid => FromM(stage'.m) + mem + 1 <= old + miss
    <3>1. stage'.m = AgedE /\ mem = IF AgedE.valid /\ AgedE.dcache_miss THEN config.dcache_miss_penalty ELSE miss
      BY <1>5, <1>6, <1>11
    <3>2. miss \in Nat
      BY <1>7, LeftTyped
    <3> HIDE DEF miss, mem, old
    <3> QED BY <1>1, <1>2, <3>1, <3>2, MemoryCost DEF old
  <2>2. /\ div \in Nat
        /\ new + div <= FromD(Issued) + busy
        /\ Issued.valid => new + div + 1 <= FromD(Issued) + busy
    <3>1. stage'.e = next /\ div = DivBusy(Issued, busy)
      BY <1>5, <1>6, <1>11
    <3>2. busy \in Nat
      BY <1>7, LeftTyped
    <3> HIDE DEF busy, div
    <3> QED BY <1>1, <1>4, <3>1, <3>2, IssueCost
  <2>3. /\ mem \in Nat /\ div \in Nat /\ new \in Nat /\ FromM(stage'.m) \in Nat /\ fetched \in Nat /\ decoded \in Nat
        /\ miss \in 0 .. stall.dcache /\ busy \in 0 .. stall.div /\ stall'.control = 0
        /\ stall'.tlb \in 0 .. stall.tlb /\ stall'.icache \in 0 .. stall.icache
    <3>1. /\ stage'.f \in PipelineReg /\ stage'.d \in PipelineReg /\ stage'.e \in PipelineReg /\ stage'.m \in PipelineReg
          /\ stall'.dcache \in Nat /\ stall'.div \in Nat
      BY DEF Typed, Stages, Counters
    <3> QED BY <1>1, <1>6, <1>7, <3>1, CostsTyped
  <2>4. CASE check_stall_id
    <3>1. Issued = NoInst /\ FromD(Issued) = 0
      BY <2>4, EmptyCost DEF Issued
    <3>2. fetched = FromF(stage.f) /\ decoded = FromD(stage.d)
      BY <1>5, <2>4
    <3>3. stage.e.valid \/ stage.m.valid
      BY <2>4 DEF check_stall_id, check_hazard_with_stage
    <3>4. stage.m.valid => FromM(stage.m) = 1
      BY DEF FromM
    <3> HIDE DEF miss, busy, mem, div, old, new, fetched, decoded
    <3>5. Left' = 0 + stall'.tlb + stall'.icache + mem + div + fetched + decoded + new + FromM(stage'.m)
      BY <1>8, <2>3 DEF mem, div, fetched, decoded, new
    <3>6. Left = 0 + stall.tlb + stall.icache + stall.dcache + stall.div + FromF(stage.f) + FromD(stage.d) + old + FromM(stage.m)
      BY DEF Left, old
    <3>7. old \in Nat
      BY LeftTyped DEF old
    <3> QED BY <2>1, <2>2, <2>3, <3>1, <3>2, <3>3, <3>4, <3>5, <3>6, <3>7, LeftTyped
  <2>5. CASE ~check_stall_id /\ check_stall_if
    <3>1. Issued = stage.d
      BY <1>11, <2>5 DEF Issued
    <3>2. fetched = FromF(stage.f) /\ decoded = 0
      BY <1>5, <1>11, <2>5, EmptyCost
    <3>3. stall'.tlb + stall'.icache + 1 <= stall.tlb + stall.icache
      BY <1>6, <2>5, LeftTyped DEF check_stall_if, Less1
    <3> HIDE DEF miss, busy, mem, div, old, new, fetched, decoded
    <3>5. Left' = 0 + stall'.tlb + stall'.icache + mem + div + fetched + decoded + new + FromM(stage'.m)
      BY <1>8, <2>3 DEF mem, div, fetched, decoded, new
    <3>6. Left = 0 + stall.tlb + stall.icache + stall.dcache + stall.div + FromF(stage.f) + FromD(stage.d) + old + FromM(stage.m)
      BY DEF Left, old
    <3>7. old \in Nat
      BY LeftTyped DEF old
    <3> QED BY <2>1, <2>2, <2>3, <3>1, <3>2, <3>3, <3>5, <3>6, <3>7, LeftTyped
  <2>6. CASE ~check_stall_id /\ ~check_stall_if
    <3>1. Issued = stage.d /\ stage.f.valid
      BY <1>11, <2>6 DEF Issued, StalledTick, IF_stalled
    <3>2. fetched = 0 /\ decoded + 1 <= FromF(stage.f)
      <4>1. fetched = 0 /\ decoded = FromD(stage.f)
        BY <1>5, <1>11, <2>6, EmptyCost
      <4> QED BY <1>1, <3>1, <4>1, CostsTyped
    <3> HIDE DEF miss, busy, mem, div, old, new, fetched, decoded
    <3>5. Left' = 0 + stall'.tlb + stall'.icache + mem + div + fetched + decoded + new + FromM(stage'.m)
      BY <1>8, <2>3 DEF mem, div, fetched, decoded, new
    <3>6. Left = 0 + stall.tlb + stall.icache + stall.dcache + stall.div + FromF(stage.f) + FromD(stage.d) + old + FromM(stage.m)
      BY DEF Left, old
    <3>7. old \in Nat
      BY LeftTyped DEF old
    <3> QED BY <2>1, <2>2, <2>3, <3>1, <3>2, <3>5, <3>6, <3>7, LeftTyped
  <2> QED BY <2>4, <2>5, <2>6
<1> QED BY <1>9, <1>10, <1>11

LEMMA TickLeft ==
  ASSUME Now, Now', config \in Configs, config' = config, tick_pipeline, StalledTick \/ stage.f.valid
  PROVE  Left' + 1 <= Left
<1>1. Typed /\ Typed' /\ Settled(stage, stall)
  BY DEF Now, Sane, Typed
<1>2. CASE stall.control > 0
  BY <1>1, <1>2, BubbleLeft DEF tick_pipeline
<1>3. CASE ~(stall.control > 0)
  <2>1. stall.control = 0 /\ StageTick
    BY <1>1, <1>3, StagesTyped DEF tick_pipeline
  <2> QED BY <1>1, <2>1, StageTickShape, FlushLeft, TransferLeft
<1> QED BY <1>2, <1>3

Bounded == Left \in Nat /\ LongestWait \in Nat /\ Left + 1 <= LongestWait

LEMMA LeftBounded ==
  ASSUME Now, config \in Configs
  PROVE  Bounded
<1>1. Typed /\ Short(stall)
  BY DEF Now, Sane, Typed
<1>2. /\ stage.f \in PipelineReg /\ stage.d \in PipelineReg /\ stage.e \in PipelineReg /\ stage.m \in PipelineReg
  BY <1>1, StagesTyped
<1>3. /\ FromF(stage.f) <= 6 + Dcache + Div + Branch /\ FromD(stage.d) <= 5 + Dcache + Div + Branch
      /\ FromE(stage.e) <= 4 + Dcache + Branch
  BY <1>2, CostsTyped
<1>4. LongestWait = Tlb + Icache + 4 * (Dcache + Div + Branch + 5)
  BY DEF LongestWait, Tlb, Icache, Dcache, Div, Branch
<1>5. Tlb \in Nat /\ Icache \in Nat /\ Dcache \in Nat /\ Div \in Nat /\ Branch \in Nat
  BY Penalties
<1>6. stall.control <= Branch + 1 /\ stall.tlb <= Tlb /\ stall.icache <= Icache /\ stall.dcache <= Dcache /\ stall.div <= Div
  BY <1>1 DEF Short
<1> QED BY <1>1, <1>3, <1>4, <1>5, <1>6, LeftTyped DEF Left, Bounded

\* What a call has waited and what it may still wait stay below the bound together.
WaitInv ==
  /\ waited \in Nat /\ StepReturns
  /\ call = "wait" => waited + Left + 1 <= LongestWait
  /\ call = "last" => waited + 1 <= LongestWait

LEMMA WaitInvStep ==
  ASSUME PipeInv, PipeInv', Bounded, Bounded', WaitInv, [PipeNext]_pipeVars
  PROVE  WaitInv'
<1>1. Now /\ Now' /\ Called /\ Called' /\ config \in Configs /\ config' \in Configs
  BY DEF PipeInv, Now, Called
<1>2. Left \in Nat /\ LongestWait \in Nat
  BY DEF Bounded
<1>3. Left' + 1 <= LongestWait /\ Left' \in Nat /\ LongestWait' = LongestWait
  BY DEF Bounded, LongestWait, Longest, LongestDiv, DivTicks
<1>4. ASSUME NEW ins \in Insts, NEW rollback \in BOOLEAN, hand_over(ins, rollback) PROVE WaitInv'
  <2>1. waited' = 0 /\ call' = "wait"
    BY <1>4 DEF hand_over
  <2>2. waited' \in Nat /\ waited' <= LongestWait /\ (waited' + Left') + 1 <= LongestWait
    <3> DEFINE n == Left'
               b == LongestWait
    <3>1. n \in Nat /\ b \in Nat /\ n + 1 <= b
      BY <1>2, <1>3
    <3> HIDE DEF n, b
    <3>2. 0 <= b /\ (0 + n) + 1 <= b
      BY <3>1
    <3> QED BY <2>1, <3>2 DEF n, b
  <2> QED BY <1>3, <2>1, <2>2 DEF WaitInv, StepReturns
<1>5. CASE WaitTick
  <2>1. Tick /\ ~Room /\ call = "wait" /\ call' = "wait" /\ config' = config
    BY <1>5 DEF WaitTick
  <2>2. StalledTick \/ stage.f.valid
    <3>1. stall.control \in Nat
      BY <1>1 DEF Now, Sane, Counters
    <3> QED BY <2>1, <3>1 DEF Room, StalledTick
  <2>3. CASE tick_pipeline /\ waited' = waited + 1
    <3>1. Left' + 1 <= Left
      BY <1>1, <2>1, <2>2, <2>3, TickLeft
    <3>2. waited \in Nat /\ (waited + Left) + 1 <= LongestWait
      BY <2>1 DEF WaitInv
    <3>3. waited' \in Nat /\ waited' <= LongestWait /\ (waited' + Left') + 1 <= LongestWait
      <4> DEFINE n == Left'
                 l == Left
                 b == LongestWait
                 t == waited
      <4>1. n \in Nat /\ l \in Nat /\ b \in Nat /\ t \in Nat /\ n + 1 <= l /\ (t + l) + 1 <= b
        BY <1>2, <1>3, <3>1, <3>2
      <4>2. waited' = t + 1
        BY <2>3
      <4> HIDE DEF n, l, b, t
      <4>3. t + 1 \in Nat /\ t + 1 <= b /\ ((t + 1) + n) + 1 <= b
        BY <4>1
      <4> QED BY <4>2, <4>3 DEF n, b
    <3> QED BY <1>3, <2>1, <3>3 DEF WaitInv, StepReturns
  <2>4. CASE UNCHANGED <<saveable, waited>>
    <3>1. Left' = Left
      BY <2>4 DEF saveable, Left, FromF, FromD, FromE, FromM, Miss, Divides, Transfer, Resolves
    <3> QED BY <2>1, <2>4, <3>1 DEF WaitInv, StepReturns
  <2> QED BY <2>1, <2>3, <2>4 DEF Tick
<1>6. CASE FillFetch
  <2>1. call = "wait" /\ call' = "last" /\ waited' = waited
    BY <1>6 DEF FillFetch
  <2> QED BY <1>2, <2>1 DEF WaitInv, StepReturns
<1>7. CASE LastTick
  <2>1. call = "last" /\ call' = "idle" /\ waited' \in {waited, waited + 1}
    BY <1>7 DEF LastTick, Tick
  <2> QED BY <1>2, <2>1 DEF WaitInv, StepReturns
<1>8. ASSUME NEW cfg \in Configs, apply_config(cfg) PROVE WaitInv'
  BY <1>8 DEF apply_config, WaitInv, StepReturns
<1>9. CASE restore_state
  BY <1>9 DEF restore_state, WaitInv, StepReturns
<1>10. CASE UNCHANGED pipeVars
  <2>1. Left' = Left /\ waited' = waited /\ call' = call
    BY <1>10 DEF pipeVars, saveable, Left, FromF, FromD, FromE, FromM, Miss, Divides, Transfer, Resolves
  <2> QED BY <2>1 DEF WaitInv, StepReturns
<1> QED BY <1>4, <1>5, <1>6, <1>7, <1>8, <1>9, <1>10 DEF PipeNext, step_instruction, PipeEnd

\* The loop of step_instruction ends within a bound that the penalties alone give, whatever is in
\* flight, whatever was configured since it was issued and whatever was restored.
THEOREM CallsReturn == PipeSpec => []StepReturns
<1>1. PipeSpec => []PipeInv
  BY PipeInvInit, PipeInvStep, PTL DEF PipeSpec
<1>2. PipeInit => WaitInv
  <2> SUFFICES ASSUME PipeInit PROVE WaitInv
    OBVIOUS
  <2>1. Now /\ config \in Configs
    BY PipeInvInit DEF PipeInv, Now, Called
  <2> QED BY <2>1, LeftBounded DEF PipeInit, WaitInv, StepReturns, Bounded
<1>3. PipeInv /\ PipeInv' /\ Bounded /\ Bounded' /\ WaitInv /\ [PipeNext]_pipeVars => WaitInv'
  BY WaitInvStep
<1>4. WaitInv => StepReturns
  BY DEF WaitInv
<1>5. PipeInv => Bounded
  BY LeftBounded DEF PipeInv, Now, Called
<1> QED BY <1>1, <1>2, <1>3, <1>4, <1>5, PTL DEF PipeSpec
=============================================================================
