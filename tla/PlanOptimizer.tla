--------------------------- MODULE PlanOptimizer ---------------------------
(***************************************************************************)
(* Which nodes to protect, and how, under a latency and a memory budget    *)
(* (research/reliability/optimizer/plan_optimizer.py): the integer         *)
(* programs, the heuristics of the literature they are compared with, and  *)
(* the plan that is written.                                               *)
(*                                                                         *)
(* A candidate is a record [node, tensor, mode, risk, latency, memory,     *)
(* bounds, critical, magnitude, taylor]; mode is "dmr_compare_rerun" or    *)
(* "range_guard_rerun", the last three are Missing where the code has      *)
(* None.  A node has at most one candidate of a mode.  Quantities are      *)
(* integers in some unit, latencies positive, probabilities and coverages  *)
(* in percent.  A selection is a sequence of candidates; an optimizer is   *)
(* given as the set of the selections it may return, since the solver may  *)
(* return any optimum.                                                     *)
(***************************************************************************)
EXTENDS Integers, Sequences, FiniteSets

LOCAL INSTANCE SequencesExt
LOCAL INSTANCE FiniteSetsExt
LOCAL INSTANCE TLC

Missing == -1
DMR == "dmr_compare_rerun"
GUARD == "range_guard_rerun"

\* The methods of optimize_plan.py, and the ones only the sweep compares.
Methods == {"ilp", "greedy", "bounded-loss-memory", "filr", "ranger", "vf-greedy", "uniform-dmr",
            "aspis", "ruospo", "ahmadilivani", "ilp-static", "ilp-v2", "ilp-v3",
            "topk-dmr", "topk-guard", "random-dmr"}

-----------------------------------------------------------------------------
(* _summarize                                                              *)
Total(values) ==
    LET sum[i \in 0..Len(values)] == IF i = 0 THEN 0 ELSE sum[i - 1] + values[i]
    IN  sum[Len(values)]

Risk(selected) == Total([i \in DOMAIN selected |-> selected[i].risk])
Latency(selected) == Total([i \in DOMAIN selected |-> selected[i].latency])
PeakMemory(selected) == Max({c.memory : c \in ToSet(selected)} \cup {0})

NodesOf(selected) == {c.node : c \in ToSet(selected)}

Within(selected, budget) ==
    /\ Latency(selected) <= budget.latency
    /\ PeakMemory(selected) <= budget.memory

OneModeEach(selected) == Cardinality(NodesOf(selected)) = Len(selected)

OfMode(candidates, mode) == SelectSeq(candidates, LAMBDA c : c.mode = mode)

\* Python's sort: by keys, and stable.  keys[i] is a pair of integers.
SortedBy(items, keys) ==
    LET Before(i, j) == \/ keys[i][1] < keys[j][1]
                        \/ keys[i][1] = keys[j][1] /\ keys[i][2] < keys[j][2]
                        \/ keys[i] = keys[j] /\ i < j
        order == SortSeq([i \in DOMAIN items |-> i], Before)
    IN  [i \in DOMAIN items |-> items[order[i]]]

-----------------------------------------------------------------------------
\* Mutant: a node may be packed once a mode.
PacksEveryMode(ordered, budget) ==
    FoldLeft(LAMBDA selected, c :
                 IF Within(Append(selected, c), budget) THEN Append(selected, c) ELSE selected,
             <<>>, ordered)

(* The loop of _pack_ordered, and of optimize_greedy.                      *)
PackOrdered(ordered, budget) ==
    FoldLeft(LAMBDA selected, c :
                 IF c.node \notin NodesOf(selected) /\ Within(Append(selected, c), budget)
                 THEN Append(selected, c) ELSE selected,
             <<>>, ordered)

Pack(candidates, keys, budget) == PackOrdered(SortedBy(candidates, keys), budget)

(* By benefit per cost, the ratios compared by multiplying out.            *)
OptimizeGreedy(candidates, budget) ==
    LET Gain(i, j) == candidates[i].risk * candidates[j].latency
        Before(i, j) == \/ Gain(i, j) > Gain(j, i)
                        \/ Gain(i, j) = Gain(j, i) /\ candidates[i].risk > candidates[j].risk
                        \/ Gain(i, j) = Gain(j, i) /\ candidates[i].risk = candidates[j].risk /\ i < j
        order == SortSeq([i \in DOMAIN candidates |-> i], Before)
    IN  PackOrdered([i \in DOMAIN candidates |-> candidates[order[i]]], budget)

OptimizeTopkSingleMode(candidates, mode, budget) ==
    LET mine == OfMode(candidates, mode)
    IN  Pack(mine, [i \in DOMAIN mine |-> <<-mine[i].risk, mine[i].latency>>], budget)

\* The code ranks by risk_reduction, like topk.
OptimizeFilr(candidates, budget) == OptimizeTopkSingleMode(candidates, DMR, budget)

OptimizeRandomDmr(candidates, budget) ==
    LET dmr == OfMode(candidates, DMR)
    IN  {PackOrdered([i \in DOMAIN dmr |-> dmr[p[i]]], budget) :
            p \in {p \in [DOMAIN dmr -> DOMAIN dmr] : IsInjective(p)}}

\* In the order of the nodes: Ranger, and its counterpart with DMR.
InNodeOrder(candidates, mode, budget) ==
    LET mine == OfMode(candidates, mode)
    IN  Pack(mine, [i \in DOMAIN mine |-> <<mine[i].node, mine[i].tensor>>], budget)

OptimizeRanger(candidates, budget) == InNodeOrder(candidates, GUARD, budget)
OptimizeUniformDmr(candidates, budget) == InNodeOrder(candidates, DMR, budget)

OrElse(value, default) == IF value # Missing THEN value ELSE default

OptimizeVfGreedy(candidates, budget) ==
    Pack(candidates, [i \in DOMAIN candidates |->
             <<-OrElse(candidates[i].critical, candidates[i].risk), candidates[i].latency>>], budget)

GradientProxy(c) == OrElse(c.taylor, OrElse(c.magnitude, c.risk))

OptimizeAspis(candidates, budget) ==
    LET dmr == OfMode(candidates, DMR)
    IN  Pack(dmr, [i \in DOMAIN dmr |-> <<-GradientProxy(dmr[i]), dmr[i].latency>>], budget)

OptimizeRuospo(candidates, budget) ==
    LET dmr == OfMode(candidates, DMR)
    IN  Pack(dmr, [i \in DOMAIN dmr |->
                 <<-OrElse(dmr[i].magnitude, dmr[i].risk), dmr[i].latency>>], budget)

(* Nodes in the order of the proxy of their first candidate; of each, DMR  *)
(* if it fits, else the guard: two stable sorts, by node and mode, and by  *)
(* proxy.                                                                  *)
OptimizeAhmadilivani(candidates, budget) ==
    LET Position(c) == Min({i \in DOMAIN candidates : candidates[i].node = c.node})
        byNode == SortedBy(candidates, [i \in DOMAIN candidates |->
                      <<Position(candidates[i]), IF candidates[i].mode = DMR THEN 0 ELSE 1>>])
    IN  Pack(byNode, [i \in DOMAIN byNode |->
                 <<-GradientProxy(candidates[Position(byNode[i])]), 0>>], budget)

-----------------------------------------------------------------------------
\* All selections with at most one mode a node.
Selections(candidates) ==
    LET chosen == {set \in SUBSET DOMAIN candidates :
                     \A i, j \in set : candidates[i].node = candidates[j].node => i = j}
        InOrder(set) == SelectSeq([i \in DOMAIN candidates |-> i], LAMBDA i : i \in set)
        Chosen(order) == [i \in DOMAIN order |-> candidates[order[i]]]
    IN  {Chosen(InOrder(set)) : set \in chosen}

\* Of a set of selections the ones with the least latency, among those with
\* the greatest risk reduction; none if no selection is feasible.
Best(feasible) ==
    LET top == Max({Risk(s) : s \in feasible})
        best == {s \in feasible : Risk(s) = top}
        least == Min({Latency(s) : s \in best})
    IN  {s \in best : Latency(s) = least}

\* Mutant: memory adds up like latency.
IlpAddsMemory(candidates, budget) ==
    Best({s \in Selections(candidates) :
            /\ Latency(s) <= budget.latency
            /\ FoldLeft(LAMBDA sum, c : sum + c.memory, 0, s) <= budget.memory})

(* optimize_ilp: the two solves.                                           *)
OptimizeIlp(candidates, budget) == Best({s \in Selections(candidates) : Within(s, budget)})

(* optimize_bounded_loss_memory_ilp: the optimum, then the least peak that *)
(* keeps all but the tolerated loss (in percent), then the most risk, then *)
(* the least latency.                                                      *)
OptimizeBoundedLossMemoryIlp(candidates, budget, tolerance) ==
    LET optimal == Risk(CHOOSE s \in OptimizeIlp(candidates, budget) : TRUE)
        enough == {s \in Selections(candidates) :
                     Within(s, budget) /\ 100 * Risk(s) >= optimal * (100 - tolerance)}
        peak == Min({PeakMemory(s) : s \in enough})
    IN  IF optimal <= 0 THEN {<<>>} ELSE Best({s \in enough : PeakMemory(s) = peak})

\* The bytes of a node's tensor, from the memory of its DMR candidate.
TensorBytes(candidates, node) ==
    LET dmr == SelectSeq(candidates, LAMBDA c : c.node = node /\ c.mode = DMR)
    IN  IF dmr = <<>> THEN 0 ELSE dmr[1].memory \div 2

(* optimize_ilp_static: risk from bytes, proxy and a fixed coverage, in    *)
(* another unit than the candidates' own.                                  *)
OptimizeIlpStatic(candidates, budget) ==
    LET total == FoldLeft(LAMBDA sum, c : sum + c.memory \div 2, 0, OfMode(candidates, DMR))
        Proxied(c) == [c EXCEPT !.critical = GradientProxy(c),
                                !.risk = (IF c.mode = DMR THEN 100 * (c.memory \div 2)
                                          ELSE 95 * TensorBytes(candidates, c.node))
                                         * GradientProxy(c)]
    IN  IF total = 0 THEN {<<>>}
        ELSE OptimizeIlp([i \in DOMAIN candidates |-> Proxied(candidates[i])], budget)

(* Tier one of optimize_ilp_v2 and the filter of optimize_ilp_v3: DMR is   *)
(* left out where guards have been seen to cover enough.  coverage maps    *)
(* nodes to percent, and is empty without calibration.                     *)
WithoutCoveredDmr(candidates, coverage, default) ==
    SelectSeq(candidates, LAMBDA c :
        ~ /\ c.mode = DMR
          /\ coverage # <<>>
          /\ (IF c.node \in DOMAIN coverage THEN coverage[c.node] ELSE default) >= 95)

(* optimize_ilp_v2: an optimum for the nodes with critical failures, then  *)
(* guards on the others, largest tensor first, as far as the latency goes. *)
OptimizeIlpV2(candidates, budget, failing, coverage) ==
    LET tier1 == SelectSeq(candidates, LAMBDA c : c.node \in failing)
        Backfill(first) ==
            LET rest == SelectSeq(OfMode(candidates, GUARD), LAMBDA c : c.node \notin NodesOf(first))
                ordered == SortedBy(rest, [i \in DOMAIN rest |->
                               <<-TensorBytes(candidates, rest[i].node), 0>>])
            IN  FoldLeft(LAMBDA selected, c :
                             IF Latency(selected) + c.latency <= budget.latency
                             THEN Append(selected, c) ELSE selected,
                         first, ordered)
    IN  {Backfill(first) : first \in OptimizeIlp(WithoutCoveredDmr(tier1, coverage, 0), budget)}

(* optimize_ilp_v3: an optimum among the selections that protect every     *)
(* node Ranger protects within the same budget.                            *)
OptimizeIlpV3(candidates, budget, coverage) ==
    LET floor == NodesOf(OptimizeRanger(candidates, budget))
        filtered == WithoutCoveredDmr(candidates, coverage, 100)
    IN  IF filtered = <<>> THEN {<<>>}
        ELSE Best({s \in Selections(filtered) : Within(s, budget) /\ floor \subseteq NodesOf(s)})

-----------------------------------------------------------------------------
(***************************************************************************)
(* The dispatch in optimize_plan.py and evaluate_budget_sweep.py.          *)
(* calibrated is what the metadata of calibrate_risk_model.py says.        *)
(***************************************************************************)
NoCalibration == [failing |-> {}, coverage |-> <<>>, known |-> FALSE]

Optimize(method, candidates, budget, calibrated) ==
    LET failing == IF calibrated.known THEN calibrated.failing
                   ELSE {c.node : c \in {c \in ToSet(candidates) : c.critical > 5}}
    IN  CASE method = "ilp"          -> OptimizeIlp(candidates, budget)
          [] method = "bounded-loss-memory" ->
                OptimizeBoundedLossMemoryIlp(candidates, budget, 5)
          [] method = "greedy"       -> {OptimizeGreedy(candidates, budget)}
          [] method = "filr"         -> {OptimizeFilr(candidates, budget)}
          [] method = "ranger"       -> {OptimizeRanger(candidates, budget)}
          [] method = "vf-greedy"    -> {OptimizeVfGreedy(candidates, budget)}
          [] method = "uniform-dmr"  -> {OptimizeUniformDmr(candidates, budget)}
          [] method = "aspis"        -> {OptimizeAspis(candidates, budget)}
          [] method = "ruospo"       -> {OptimizeRuospo(candidates, budget)}
          [] method = "ahmadilivani" -> {OptimizeAhmadilivani(candidates, budget)}
          [] method = "ilp-static"   -> OptimizeIlpStatic(candidates, budget)
          [] method = "ilp-v2"       ->
                OptimizeIlpV2(candidates, budget, failing, calibrated.coverage)
          [] method = "ilp-v3"       -> OptimizeIlpV3(candidates, budget, calibrated.coverage)
          [] method = "topk-dmr"     -> {OptimizeTopkSingleMode(candidates, DMR, budget)}
          [] method = "topk-guard"   -> {OptimizeTopkSingleMode(candidates, GUARD, budget)}
          [] method = "random-dmr"   -> OptimizeRandomDmr(candidates, budget)

(* to_protection_plan: the nodes of the plan, with the bounds of guards.   *)
ToProtectionPlan(selected) ==
    [i \in DOMAIN selected |->
        [node |-> selected[i].node, tensor |-> selected[i].tensor, mode |-> selected[i].mode,
         bounds |-> selected[i].bounds]]
=============================================================================
