--------------------------- MODULE ProtectionStudy ---------------------------
(***************************************************************************)
(* The reliability study, from the screening of a model to a calibrated    *)
(* protection plan (research/reliability, in the order of its README).     *)
(* Every script is an action: it reads the files of earlier ones and       *)
(* writes its own.  What is random, the outcome of an injected fault, is   *)
(* chosen by the action; which of the optional files exist, and which      *)
(* method and budget are asked for, too.                                   *)
(*                                                                         *)
(* Classification is screened in PyTorch and mapped to the runtime,        *)
(* detection is screened in the runtime itself.                            *)
(***************************************************************************)
EXTENDS RiskEvidence

LOCAL INSTANCE SequencesExt
LOCAL INSTANCE FiniteSetsExt
LOCAL INSTANCE TLC

CONSTANTS Networks,         \* the networks, each with the task it is trained for
          Budgets,          \* [latency, memory]
          TopKs,            \* how many candidates a range report may hold
          MaxRounds         \* feedback into the candidates; the plans of the last round are not
                            \* compiled, IlpNotBeaten judges them where they are made

VARIABLES network,
          stage,
          rows,             \* the ranked candidates
          records,          \* the range report
          metrics,          \* the vulnerability metrics of the runtime nodes
          candidates,
          plan,             \* the protection plan, with its budget and what it was predicted to cost
          counts,           \* of every runtime node, the faults evaluated: see calibrate_candidates
          calibrated,       \* the metadata of the calibration
          round,
          struck            \* history: of every tensor, the critical faults the screening had there

vars == <<network, stage, rows, records, metrics, candidates, plan, counts, calibrated, round, struck>>

NoPlan == [budget |-> [latency |-> 0, memory |-> 0], latency |-> 0, memory |-> 0, nodes |-> <<>>]
NoCounts(n) == [node \in RuntimeNodes(n) |->
                   [events |-> 0, failures |-> 0, guarded |-> 0, mitigated |-> 0, underGuard |-> 0]]

Init ==
    /\ network \in Networks
    /\ stage = "exported"
    /\ rows = <<>> /\ records = {} /\ metrics = <<>>
    /\ candidates = <<>> /\ plan = NoPlan
    /\ counts = NoCounts(network) /\ calibrated = NoCalibration
    /\ round = 0
    /\ struck = [t \in DOMAIN network.tensors |-> 0]

-----------------------------------------------------------------------------
(* The faults that may turn out critical among Trials in a tensor.         *)
CriticalAmong(tensor) == 0..(IF network.tensors[tensor].critical THEN Trials ELSE 0)

(* inject_faults.py, then build_risk_profile.py: Trials faults at every    *)
(* call; what is recorded under the id of a call happened to the tensor    *)
(* the hook was at.                                                        *)
InjectFaults ==
    /\ stage = "exported" /\ network.task = "classification"
    /\ \E failures \in [DOMAIN network.points -> 0..Trials] :
          LET tensor == [i \in DOMAIN network.points |-> HookedTensor(network, i - 1)]
              At(t) == {i \in DOMAIN network.points : tensor[i] = t}
          IN  /\ \A i \in DOMAIN network.points : failures[i] \in CriticalAmong(tensor[i])
              /\ struck' = [t \in DOMAIN network.tensors |-> SumOver(At(t), failures)]
              /\ rows' = BuildRiskProfile([i \in DOMAIN network.points |->
                            [id |-> i - 1, failures |-> failures[i],
                             bytes |-> network.tensors[network.points[i].tensor].bytes,
                             severity |-> network.tensors[tensor[i]].severity]])
    /\ stage' = "screened"
    /\ UNCHANGED <<network, records, metrics, candidates, plan, counts, calibrated, round>>

(* screen_yolo_runtime_faults.py, stratified, then build_risk_profile.py.  *)
ScreenRuntime ==
    /\ stage = "exported" /\ network.task = "detection"
    /\ \E failures \in [RuntimeNodes(network) -> 0..Trials] :
          LET nodes == SetToSortSeq(RuntimeNodes(network), <)
              tensor == [i \in DOMAIN nodes |-> TensorOf(network, nodes[i])]
              profile == BuildRiskProfile([i \in DOMAIN nodes |->
                            [id |-> nodes[i], failures |-> failures[nodes[i]],
                             bytes |-> network.tensors[tensor[i]].bytes,
                             severity |-> network.tensors[tensor[i]].severity]])
          IN  /\ \A i \in DOMAIN nodes : failures[nodes[i]] \in CriticalAmong(tensor[i])
              /\ struck' = [t \in DOMAIN network.tensors |->
                              IF network.tensors[t].node = Missing THEN 0
                              ELSE failures[network.tensors[t].node]]
              /\ rows' = [i \in DOMAIN profile |->
                            profile[i] @@ [node |-> profile[i].id,
                                           tensor |-> TensorOf(network, profile[i].id)]]
    /\ stage' = "mapped"
    /\ UNCHANGED <<network, records, metrics, candidates, plan, counts, calibrated, round>>

MapRuntimeCandidates ==
    /\ stage = "screened"
    /\ IF MapsCandidates(network)
       THEN rows' = MapCandidates(network, rows) /\ stage' = "mapped"
       ELSE stage' = "refused" /\ UNCHANGED rows
    /\ UNCHANGED <<network, records, metrics, candidates, plan, counts, calibrated, round, struck>>

(* profile_range_guard.py, which may be left out: all or none of the       *)
(* critical faults of a call leave the bounds, and none or all of the      *)
(* clean images kept back, if any are.                                     *)
ProfileRanges ==
    /\ stage = "mapped" /\ network.task = "classification" /\ records = {}
    /\ \E topK \in TopKs, caught \in BOOLEAN, holdout \in {0, Trials}, stopped \in {0, Trials} :
          LET failures == [id \in {row.id : row \in ToSet(rows)} |->
                             (CHOOSE row \in ToSet(rows) : row.id = id).failures]
          IN  /\ stopped <= holdout
              /\ records' = ProfileRangeGuard(network, rows, topK,
                    [id \in DOMAIN failures |-> IF caught THEN failures[id] ELSE 0], stopped, holdout)
    /\ UNCHANGED <<network, stage, rows, metrics, candidates, plan, counts, calibrated, round, struck>>

(* compute_baseline_metrics.py, which may be left out.                     *)
ComputeBaselineMetrics ==
    /\ stage = "mapped" /\ metrics = <<>>
    /\ metrics' = BaselineMetrics(network)
    /\ UNCHANGED <<network, stage, rows, records, candidates, plan, counts, calibrated, round, struck>>

(* profile_protection_costs.py and profile_detection_protection_costs.py.  *)
ProfileProtectionCosts ==
    /\ stage = "mapped"
    /\ candidates' = IF network.task = "detection" THEN DetectionCandidates(network, rows, metrics)
                     ELSE ProtectionCandidates(network, rows, records, metrics)
    /\ stage' = "costed"
    /\ UNCHANGED <<network, rows, records, metrics, plan, counts, calibrated, round, struck>>

-----------------------------------------------------------------------------
(* optimize_plan.py; also again, after an evaluation (a bound: then with   *)
(* the budget of before).                                                  *)
OptimizePlan ==
    /\ stage \in {"costed", "evaluated"} /\ round < MaxRounds
    /\ \E method \in Methods, budget \in IF stage = "costed" THEN Budgets ELSE {plan.budget} :
          \E selected \in Optimize(method, candidates, budget, calibrated) :
             plan' = [budget |-> budget, latency |-> Latency(selected),
                      memory |-> PeakMemory(selected), nodes |-> ToProtectionPlan(selected)]
    /\ stage' = "planned"
    /\ UNCHANGED <<network, rows, records, metrics, candidates, counts, calibrated, round, struck>>

(* validated_for_graph; the tensors here are FP32.                         *)
ValidatedForGraph(nodes) ==
    /\ \A i, j \in DOMAIN nodes : nodes[i].node = nodes[j].node => i = j
    /\ \A i \in DOMAIN nodes :
          /\ nodes[i].mode \in {DMR, GUARD}
          /\ nodes[i].node \in RuntimeNodes(network)
          /\ network.tensors[nodes[i].tensor].node = nodes[i].node
          /\ network.tensors[nodes[i].tensor].outputs = 1

CompileProtected ==
    /\ stage = "planned"
    /\ stage' = IF ValidatedForGraph(plan.nodes) THEN "compiled" ELSE "rejected"
    /\ UNCHANGED <<network, rows, records, metrics, candidates, plan, counts, calibrated, round, struck>>

Guarded == {n \in ToSet(plan.nodes) : n.mode = GUARD}
ModeOf(node) == LET mine == {n \in ToSet(plan.nodes) : n.node = node}
                IN  IF mine = {} THEN "none" ELSE (CHOOSE n \in mine : TRUE).mode

\* There is a protected package, and events are left.
Evaluating ==
    /\ stage \in {"compiled", "evaluated"}
    /\ SumOver(RuntimeNodes(network), [n \in RuntimeNodes(network) |-> counts[n].events]) < MaxEvents

(* One event of an evaluation: the same fault without and with the         *)
(* protection.  failed tells whether the unprotected output is a failure,  *)
(* leaves whether the fault has left the bounds of a guard: DMR votes it   *)
(* out, a guard then runs the node again.                                  *)
FaultEvent(row, failed, leaves) ==
    LET mode == ModeOf(row.node)
        mitigated == failed /\ (mode = DMR \/ (mode = GUARD /\ leaves))
        Add(n, condition) == n + (IF condition THEN 1 ELSE 0)
    IN  /\ failed => network.tensors[row.tensor].critical
        /\ leaves => failed /\ mode = GUARD
        /\ counts' = [counts EXCEPT
              ![row.node] = [events |-> @.events + 1,
                             failures |-> Add(@.failures, failed),
                             guarded |-> Add(@.guarded, mode = GUARD),
                             mitigated |-> Add(@.mitigated, mode = GUARD /\ mitigated),
                             underGuard |-> Add(@.underGuard, mode = GUARD /\ failed)]]
        /\ stage' = "evaluated"
        /\ UNCHANGED <<network, rows, records, metrics, candidates, plan, calibrated, round, struck>>

(* evaluate_runtime_faults.py: a failure is another class than the label.  *)
EvaluateRuntimeFault ==
    /\ Evaluating /\ network.task = "classification"
    /\ \E row \in ToSet(Retained(rows)), failed, leaves \in BOOLEAN : FaultEvent(row, failed, leaves)

(* evaluate_detection_faults.py: a failure is a target that is missed, or  *)
(* one too many; the plans for detection have no guards.                   *)
EvaluateDetectionFault ==
    /\ Evaluating /\ network.task = "detection"
    /\ \E row \in ToSet(Retained(rows)), failed \in BOOLEAN : FaultEvent(row, failed, FALSE)

(* RuntimeDriver.run and range_observations: what the runtime has observed *)
(* of the guarded nodes after runs, each clean (TRUE) or with a fault.     *)
RangeObservations(runs) ==
    [n \in Guarded |-> {[tensor |-> n.tensor, clean |-> runs[Len(runs)]]}]

(* evaluate_runtime_plan.py reads the ranges between its clean and its     *)
(* faulty run; recalibrate_range_plan.py then widens the bounds.           *)
RecalibrateRanges ==
    /\ stage = "compiled"
    /\ LET observed == RangeObservations(<<TRUE>>)
           Widened(n) == IF n \in Guarded THEN [n EXCEPT !.bounds = @ \cup observed[n]] ELSE n
       IN  plan' = [plan EXCEPT !.nodes = [i \in DOMAIN @ |-> Widened(@[i])]]
    /\ stage' = "planned"
    /\ UNCHANGED <<network, rows, records, metrics, candidates, counts, calibrated, round, struck>>

(* evaluate_runtime_dataset.py measures, recalibrate_cost_model.py scales; *)
(* refused when no overhead was predicted.  A bound: before any fault has  *)
(* been evaluated.                                                         *)
RecalibrateCosts ==
    /\ stage = "compiled" /\ plan.latency > 0 /\ counts = NoCounts(network)
    /\ \E measured \in {plan.latency - 1, 2 * plan.latency} :
          candidates' = ScaleLatency(candidates, measured, plan.latency)
    /\ stage' = "costed" /\ plan' = NoPlan /\ round' = round + 1
    /\ UNCHANGED <<network, rows, records, metrics, counts, calibrated, struck>>

(* calibrate_risk_model.py.                                                *)
CalibrateRisk ==
    /\ stage = "evaluated"
    /\ \E smoothing \in Smoothings : candidates' = CalibrateCandidates(candidates, counts, smoothing)
    /\ calibrated' = CalibrationMetadata(candidates, counts)
    /\ stage' = "costed" /\ plan' = NoPlan /\ round' = round + 1
    /\ UNCHANGED <<network, rows, records, metrics, counts, struck>>

Next == \/ InjectFaults \/ ScreenRuntime \/ MapRuntimeCandidates
        \/ ProfileRanges \/ ComputeBaselineMetrics \/ ProfileProtectionCosts
        \/ OptimizePlan \/ CompileProtected
        \/ EvaluateRuntimeFault \/ EvaluateDetectionFault
        \/ RecalibrateRanges \/ RecalibrateCosts \/ CalibrateRisk

Spec == Init /\ [][Next]_vars

-----------------------------------------------------------------------------
(* Every plan that is written can be compiled for the network: one mode a  *)
(* node, on the one tensor the node computes, guards with bounds; and it   *)
(* keeps within both budgets, whichever method made it, also after the     *)
(* candidates have been calibrated or the bounds widened.                  *)
PlansAccepted ==
    /\ stage # "rejected"
    /\ plan.latency <= plan.budget.latency /\ plan.memory <= plan.budget.memory
    /\ ValidatedForGraph(plan.nodes)
    /\ \A n \in Guarded : n.bounds # {}

(* The comparison of evaluate_budget_sweep.py, for all the methods of      *)
(* optimize_plan.py (the sweep has no ilp-v3): no method reduces more risk *)
(* than optimize_ilp within the same budget, the risk of ilp-static being  *)
(* taken from the candidates and not from its proxies; the bounded-loss    *)
(* plan keeps 95 percent of it with no more memory; ilp-v3 has a solution, *)
(* covers every node that Ranger covers and reduces no less risk; and the  *)
(* selection that is robust to the evaluation does not exceed the optimum. *)
TrueRisk(selected) ==
    SumOver(DOMAIN selected, [i \in DOMAIN selected |->
        (CHOOSE c \in ToSet(candidates) :
            c.node = selected[i].node /\ c.mode = selected[i].mode).risk])

IlpNotBeaten ==
    stage = "costed" => \A budget \in Budgets :
        LET Of(method) == Optimize(method, candidates, budget, calibrated)
            ilp == CHOOSE s \in Of("ilp") : TRUE
            ranger == CHOOSE s \in Of("ranger") : TRUE
        IN  /\ \A method \in Methods : \A s \in Of(method) :
                  Within(s, budget) /\ OneModeEach(s) /\ TrueRisk(s) <= Risk(ilp)
            /\ \A s \in Of("bounded-loss-memory") :
                  100 * Risk(s) >= 95 * Risk(ilp) /\ PeakMemory(s) <= PeakMemory(ilp)
            /\ Of("ilp-v3") # {}
            /\ \A s \in Of("ilp-v3") : /\ NodesOf(ranger) \subseteq NodesOf(s)
                                       /\ Risk(ranger) <= Risk(s)
            /\ \A s \in RobustMemoryIlp(candidates, counts, budget, 5) : Risk(s) <= Risk(ilp)

(* What is said of a runtime node is true of the tensor it computes: the   *)
(* failures counted are those injected there, also when a module is called *)
(* several times and the passes have fused nodes away; so are magnitude,   *)
(* Taylor score and, over all nodes, the multiplications; a guard is never *)
(* taken to avert more than DMR, and its bounds enclose clean activations  *)
(* only.  Of the evaluation: a node that has failed keeps a probability no *)
(* less than its rate of failure (or a half, towards which one smoothing   *)
(* draws), and the coverage of its guard is not more than the share of the *)
(* failures under a guard that were mitigated, and exactly that if it      *)
(* always had one.  Not claimed is that a guard has the bounds of its own  *)
(* tensor when screening and runtime number the nodes differently.         *)
FailuresAreItsOwn ==
    \A row \in ToSet(rows) :
        stage \notin {"screened", "refused"} /\ row.node # Missing
            => row.node = network.tensors[row.tensor].node /\ row.failures = struck[row.tensor]

MetricsAreItsOwn ==
    metrics # <<>> =>
        /\ \A row \in ToSet(rows) : row.node # Missing =>
              LET m == metrics[row.node]
                  t == network.tensors[row.tensor]
              IN  /\ m.magnitude = t.activation
                  /\ network.task = "classification" =>
                        m.taylor \in {Missing, t.activation * t.gradient}
        /\ SumOver(DOMAIN metrics, [n \in DOMAIN metrics |-> metrics[n].macs])
             = SumOver(DOMAIN network.onnx, [i \in DOMAIN network.onnx |-> network.onnx[i].macs])

GuardsAreSound ==
    \A g \in {c \in ToSet(candidates) : c.mode = GUARD} :
        /\ \E d \in ToSet(candidates) : d.mode = DMR /\ d.node = g.node /\ g.risk <= d.risk
        /\ \A bound \in g.bounds :
              /\ bound.clean
              /\ (\E row \in ToSet(rows) : row.id = g.node /\ row.node = g.node) => bound.tensor = g.tensor

CalibrationIsSound ==
    calibrated.known => \A c \in ToSet(candidates) :
        LET seen == counts[c.node]
            covered == calibrated.coverage[c.node]
        IN  /\ seen.failures > 0 =>
                  c.critical >= 50 \/ c.critical * seen.events >= 100 * seen.failures
            /\ seen.underGuard > 0 =>
                  /\ covered * seen.underGuard <= 100 * seen.mitigated
                  /\ seen.failures = seen.underGuard => covered = (100 * seen.mitigated) \div seen.failures

EvidenceSound ==
    /\ FailuresAreItsOwn
    /\ MetricsAreItsOwn
    /\ GuardsAreSound
    /\ \A n \in Guarded : \A bound \in n.bounds : bound.clean
    /\ CalibrationIsSound
=============================================================================
