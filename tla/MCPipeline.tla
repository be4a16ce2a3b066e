----------------------------- MODULE MCPipeline -----------------------------
(* Programs for the pipeline: one that computes, one that misses and one that *)
(* branches, each with the configurations that matter to it.                  *)
EXTENDS Pipeline

Inst(k, pc, rd, rs1, rs2) ==
  [kind |-> k, pc |-> pc, rd |-> rd, rs1 |-> rs1, rs2 |-> rs2, branched |-> FALSE, target |-> 0,
   tlb_miss |-> FALSE, icache_miss |-> FALSE, dcache_miss |-> FALSE]
Taken(i, target) == [i EXCEPT !.branched = TRUE, !.target = target]

Standard ==
  [icache_miss_penalty |-> 2, dcache_miss_penalty |-> 3, tlb_miss_penalty |-> 1, mul_latency |-> 4, div_latency |-> 3,
   branch_mispredict_penalty |-> 2, bp_type |-> "2bit", btb_entries |-> 2, global_history_bits |-> 1,
   enable_forwarding |-> TRUE, enable_ex_forwarding |-> TRUE, enable_mem_forwarding |-> TRUE]

InstsOf ==
  [hazards |-> {Inst("alu", 0, 1, 1, 2), Inst("mul", 0, 1, 1, 0), Inst("div", 0, 2, 1, 0), Inst("load", 0, 1, 2, 0)},
   misses  |-> {[Inst("load", 0, 1, 0, 0) EXCEPT !.dcache_miss = TRUE], [Inst("alu", 0, 2, 1, 0) EXCEPT !.icache_miss = TRUE],
                [Inst("div", 0, 1, 2, 0) EXCEPT !.tlb_miss = TRUE], Taken(Inst("jal", 4, 1, 0, 0), 8)},
   control |-> {Taken(Inst("branch", 2, 0, 1, 0), 6), Inst("branch", 2, 0, 1, 0), Taken(Inst("jalr", 4, 1, 1, 0), 8)}]

ConfigsOf ==
  [hazards |-> {[Standard EXCEPT !.enable_forwarding = f, !.enable_ex_forwarding = e, !.enable_mem_forwarding = ~e] :
                  f \in BOOLEAN, e \in BOOLEAN},
   misses  |-> {Standard, [Standard EXCEPT !.enable_forwarding = FALSE], [Standard EXCEPT !.div_latency = 0, !.mul_latency = 0]},
   control |-> {[Standard EXCEPT !.bp_type = b, !.btb_entries = IF b = "taken" THEN 0 ELSE 2] :
                  b \in {"not_taken", "taken", "1bit", "2bit", "gshare"}}]

\* A branch that is not foreseen drops the two instructions behind it, so a program that branches
\* has to be longer before its predictor has learned anything.
LengthOf == [hazards |-> 4, misses |-> 4, control |-> 6]

SomeInsts   == InstsOf.hazards \cup InstsOf.misses \cup InstsOf.control
SomeConfigs == ConfigsOf.hazards \cup ConfigsOf.misses \cup ConfigsOf.control
\* A larger table than the one that was built.
LargeTable  == {Standard, [Standard EXCEPT !.btb_entries = 4]}
=============================================================================
