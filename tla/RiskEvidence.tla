---------------------------- MODULE RiskEvidence ----------------------------
(***************************************************************************)
(* What the reliability scripts know of the nodes of a model and how they  *)
(* come to know it (research/reliability): the hooks that inject faults    *)
(* into the PyTorch model and capture its activations, the risk profile,   *)
(* the map from PyTorch calls to runtime nodes, the range report, the      *)
(* vulnerability metrics of the literature, the candidates with their      *)
(* costs, and the calibration with what the runtime was seen to do.        *)
(*                                                                         *)
(* A network is a record                                                   *)
(*   task     what it is trained for, "classification" or "detection";     *)
(*   checkpoint  whether its weights are there to compute gradients with;  *)
(*   points   the calls of the modules that are screened, in the order of  *)
(*            execution: [module, tensor];                                 *)
(*   onnx     the nodes of the exported graph: [op, tensor, reads, macs];  *)
(*   tensors  of a tensor, the runtime node that computes it, or Missing   *)
(*            when a pass has fused it away, the number of outputs of that *)
(*            node, its bytes, whether faults in it may be critical, and   *)
(*            its severity, activation and gradient:                       *)
(*            [node, outputs, bytes, critical, severity, activation,       *)
(*            gradient];                                                   *)
(*   latency  of a runtime node the bench has timed, the time it takes (a  *)
(*            function).                                                   *)
(* The ids of the screening are the positions of the calls, from zero; the *)
(* runtime numbers its nodes independently.  Rates are in percent, times   *)
(* in hundredths of the time of a scan.                                    *)
(***************************************************************************)
EXTENDS PlanOptimizer

CONSTANTS Trials,           \* injections into each candidate
          MaxEvents         \* at most so many runtime faults are evaluated

ASSUME BoundsAssumption == Trials \in Nat \ {0} /\ MaxEvents \in Nat

LOCAL INSTANCE SequencesExt
LOCAL INSTANCE FiniteSetsExt
LOCAL INSTANCE Folds

SumOver(set, value) == FoldSet(LAMBDA x, sum : sum + value[x], 0, set)

RuntimeNodes(network) == {t.node : t \in Range(network.tensors)} \ {Missing}
TensorOf(network, node) ==
    CHOOSE t \in DOMAIN network.tensors : network.tensors[t].node = node

-----------------------------------------------------------------------------
(* Wilson score bounds, z = 1.96, for at most MaxSample trials.            *)
MaxSample == Max({Trials, MaxEvents})
Samples == {<<successes, total>> \in (0..MaxSample) \X (1..MaxSample) : successes <= total}

Spread(successes, total) ==
    LET square == (10000 * successes * (total - successes)) \div total + 9604
        root == CHOOSE r \in 0..100 * (MaxSample + 1) : r * r <= square /\ square < (r + 1) * (r + 1)
    IN  (196 * root) \div 100

Percent(part, whole) == (200 * part + whole) \div (2 * whole)      \* rounded

WilsonUpper == [s \in Samples |->
    Min({100, Percent(100 * s[1] + 192 + Spread(s[1], s[2]), 100 * s[2] + 384)})]
WilsonLower == [s \in Samples |->
    Max({0, Percent(100 * s[1] + 192 - Spread(s[1], s[2]), 100 * s[2] + 384)})]

-----------------------------------------------------------------------------
(* The hooks.                                                              *)
Calls(network, module) ==
    SelectSeq([i \in DOMAIN network.points |-> i], LAMBDA i : network.points[i].module = module)

(* discover_candidate_points: the calls, each with its number among the    *)
(* calls of its module.                                                    *)
DiscoverCandidatePoints(network) ==
    [i \in DOMAIN network.points |->
        [module |-> network.points[i].module,
         invocation |-> Cardinality({j \in 1..i :
                            network.points[j].module = network.points[i].module})]]

\* Mutant: the hook acts on the first call of the module, whichever is meant.
HookFirstCall(network, point) == Calls(network, point.module)[1]

(* infer_with_fault, capture_candidate_output: the hook counts the calls   *)
(* of its module and acts on one.                                          *)
HookedCall(network, point) == Calls(network, point.module)[point.invocation]

HookedTensor(network, id) ==
    LET point == DiscoverCandidatePoints(network)[id + 1]
    IN  network.points[HookedCall(network, point)].tensor

(* build_risk_profile: what was observed of each id, as a sequence of      *)
(* [id, bytes, failures, severity], by risk and then by id.                *)
BuildRiskProfile(observed) ==
    LET total == FoldLeft(LAMBDA sum, o : sum + o.bytes, 0, observed)
        Probability(o) == (100 * o.failures) \div Trials
        risk == [i \in DOMAIN observed |-> 65 * Probability(observed[i]) + 25 * observed[i].severity
                                           + 10 * ((100 * observed[i].bytes) \div total)]
        records == [i \in DOMAIN observed |->
            [id |-> observed[i].id, bytes |-> observed[i].bytes, failures |-> observed[i].failures,
             probability |-> Probability(observed[i])]]
    IN  SortedBy(records, [i \in DOMAIN observed |-> <<-risk[i], observed[i].id>>])

CandidateOps == {"Conv", "Relu", "Gemm"}
OnnxCandidates(network) == SelectSeq(network.onnx, LAMBDA n : n.op \in CandidateOps)

(* map_candidates: refused unless there are as many calls as ONNX nodes;   *)
(* the two are then paired in order.                                       *)
MapsCandidates(network) == Len(network.points) = Len(OnnxCandidates(network))

\* The ranked rows with the runtime node of each.
MapCandidates(network, profile) ==
    [i \in DOMAIN profile |->
        LET tensor == OnnxCandidates(network)[profile[i].id + 1].tensor
            record == profile[i]
        IN  [id |-> record.id, bytes |-> record.bytes, failures |-> record.failures,
             probability |-> record.probability,
             tensor |-> tensor, node |-> network.tensors[tensor].node]]

Retained(rows) == SelectSeq(rows, LAMBDA row : row.node # Missing)

(* profile_range_guard: bounds from the clean calls captured, a lower      *)
(* bound of the share of the critical faults they detect, and an upper     *)
(* bound of the share of the clean calls they stop; detected[id] is how    *)
(* many, stopped how many of the clean images kept back.  Bounds are the   *)
(* set of the activations they enclose.                                    *)
ProfileRangeGuard(network, rows, topK, detected, stopped, holdout) ==
    LET retained == Retained(rows)
        chosen == SubSeq(retained, 1, Min({topK, Len(retained)}))
    IN  {[id |-> row.id,
          bounds |-> {[tensor |-> HookedTensor(network, row.id), clean |-> TRUE]},
          coverage |-> IF row.failures = 0 THEN 0
                       ELSE WilsonLower[<<detected[row.id], row.failures>>],
          falsePositive |-> IF holdout = 0 THEN 0 ELSE WilsonUpper[<<stopped, holdout>>]] :
             row \in ToSet(chosen)}

-----------------------------------------------------------------------------
(* compute_baseline_metrics.py                                             *)

(* _find_runtime_id: forward through the graph to a tensor the runtime     *)
(* computes, depth first, consumers in order.                              *)
RuntimeId(network) ==
    LET find[t \in DOMAIN network.tensors] ==
            LET consumers == SelectSeq(network.onnx, LAMBDA n : t \in n.reads)
                found == SelectSeq([i \in DOMAIN consumers |-> find[consumers[i].tensor]],
                                   LAMBDA id : id # Missing)
            IN  IF network.tensors[t].node # Missing THEN network.tensors[t].node
                ELSE IF found = <<>> THEN Missing
                ELSE found[1]
    IN  find

ComputeMacs(network) ==
    [node \in RuntimeNodes(network) |->
        LET mine == {i \in DOMAIN network.onnx :
                        /\ network.onnx[i].op \in {"Conv", "Gemm"}
                        /\ RuntimeId(network)[network.onnx[i].tensor] = node}
        IN  SumOver(mine, [i \in mine |-> network.onnx[i].macs])]

ComputeActivationMagnitude(network) ==
    [node \in RuntimeNodes(network) |-> network.tensors[TensorOf(network, node)].activation]

(* The scores of the calls: forward hooks number the calls of a module up, *)
(* backward hooks, which run in the reverse order, number them down.       *)
TaylorScores(network) ==
    [i \in DOMAIN network.points |->
        LET calls == Calls(network, network.points[i].module)
            forward == CHOOSE k \in DOMAIN calls : calls[k] = i
            backward == CHOOSE k \in DOMAIN calls : Len(calls) - k + 1 = forward
            gradientOf == Reverse(calls)[backward]
        IN  network.tensors[network.points[i].tensor].activation
            * network.tensors[network.points[gradientOf].tensor].gradient]

(* _compute_taylor_importance_classification: by the position of the call. *)
TaylorByPosition(network) ==
    LET onnx == OnnxCandidates(network)
        mapped == {i \in 1..Min({Len(network.points), Len(onnx)}) :
                      network.tensors[onnx[i].tensor].node # Missing}
    IN  [node \in {network.tensors[onnx[i].tensor].node : i \in mapped} |->
            TaylorScores(network)[Max({i \in mapped : network.tensors[onnx[i].tensor].node = node})]]

(* _compute_taylor_importance_yolo: by the name of the module, with the    *)
(* runtime node that _build_onnx_module_to_runtime finds for it; the       *)
(* greatest score of its calls.  That function reads the name off the      *)
(* names of the exported tensors, else off the weights of a convolution,   *)
(* and goes forward for five nodes at most: every module here is named by  *)
(* its first tensor, and no network is deeper.                             *)
TaylorByModule(network) ==
    LET node == [i \in DOMAIN network.points |->
                    RuntimeId(network)[network.points[Calls(network, network.points[i].module)[1]].tensor]]
    IN  [n \in Range(node) \ {Missing} |->
            Max({TaylorScores(network)[i] : i \in {i \in DOMAIN node : node[i] = n}})]

\* A function from the runtime nodes; the Taylor scores need a checkpoint.
BaselineMetrics(network) ==
    LET taylor == IF network.task = "detection" THEN TaylorByModule(network) ELSE TaylorByPosition(network)
    IN  [node \in RuntimeNodes(network) |->
            [macs |-> ComputeMacs(network)[node],
             magnitude |-> ComputeActivationMagnitude(network)[node],
             taylor |-> IF network.checkpoint /\ node \in DOMAIN taylor THEN taylor[node] ELSE Missing]]

-----------------------------------------------------------------------------
(* The candidates.  Risk is in bytes times percent times percent: the      *)
(* total of the bytes is a common factor.                                  *)
ScanLatency == 100
BufferLatency(bytes) == 100 * bytes     \* of DMR, interpolated from the measurements

DmrLatency(network, row) == network.latency[row.node] + BufferLatency(row.bytes)

\* A guard scans, and runs the node again when it stops a clean activation.
GuardLatency(network, row, falsePositive) ==
    ScanLatency + (falsePositive * (network.latency[row.node] + ScanLatency)) \div 100

Candidate(row, mode, coverage, latency, bounds, metrics) ==
    LET m == IF row.node \in DOMAIN metrics THEN metrics[row.node]
             ELSE [magnitude |-> Missing, taylor |-> Missing]
    IN  [node |-> row.node, tensor |-> row.tensor, mode |-> mode,
         risk |-> row.bytes * row.probability * coverage,
         latency |-> latency,
         memory |-> IF mode = DMR THEN 2 * row.bytes ELSE 0,
         bounds |-> bounds, critical |-> row.probability,
         magnitude |-> m.magnitude, taylor |-> m.taylor]

(* profile_protection_costs.py: the report is keyed by the ids of the      *)
(* screening and looked up with those of the runtime.  Nodes the bench has *)
(* not timed are skipped.                                                  *)
ProtectionCandidates(network, rows, records, metrics) ==
    FoldLeft(LAMBDA candidates, row :
        LET found == {record \in records : record.id = row.node}
            Dmr == Candidate(row, DMR, 100, DmrLatency(network, row), {}, metrics)
            Guard(record) == Candidate(row, GUARD, record.coverage,
                                 GuardLatency(network, row, record.falsePositive), record.bounds, metrics)
        IN  candidates \o <<Dmr>> \o (IF found = {} THEN <<>> ELSE <<Guard(CHOOSE r \in found : TRUE)>>),
        <<>>, SelectSeq(Retained(rows), LAMBDA row : row.node \in DOMAIN network.latency))

(* build_candidates of profile_detection_protection_costs.py, which asks   *)
(* that the bench has timed every node.                                    *)
DetectionCandidates(network, rows, metrics) ==
    LET kept == SelectSeq(rows, LAMBDA row :
                    row.probability > 0 /\ network.tensors[row.tensor].outputs = 1)
    IN  [i \in DOMAIN kept |->
            [Candidate(kept[i], DMR, 100, DmrLatency(network, kept[i]), {}, metrics)
                EXCEPT !.critical = Missing]]

-----------------------------------------------------------------------------
(* calibrate_candidates, with one or several reports merged.               *)
(* counts[node] is [events, failures, guarded, mitigated]: the faults, the *)
(* critical ones, those with a guard on the node, and the critical ones a  *)
(* guard has mitigated.                                                    *)
Smoothings == {"wilson", "observed", "observed-floor", "laplace"}

CriticalProbability(counts, nodes, node, smoothing) ==
    LET c == counts[node]
        upper == IF c.events = 0 THEN 100 ELSE WilsonUpper[<<c.failures, c.events>>]
        seen == {WilsonUpper[<<counts[n].failures, counts[n].events>>] :
                    n \in {n \in nodes : counts[n].failures > 0}}
    IN  IF smoothing = "laplace" THEN (100 * (c.failures + 1)) \div (c.events + 2)
        ELSE IF smoothing = "wilson" \/ c.failures > 0 THEN upper
        ELSE IF smoothing = "observed" THEN 0
        ELSE IF seen = {} THEN 1 ELSE Min(seen) \div 10

RangeGuardCoverage(counts, node) ==
    LET guarded == {n \in DOMAIN counts : counts[n].guarded > 0}
        failures == SumOver(guarded, [n \in guarded |-> counts[n].failures])
        mitigated == SumOver(DOMAIN counts, [n \in DOMAIN counts |-> counts[n].mitigated])
    IN  CASE node \in guarded /\ counts[node].failures > 0 ->
                (100 * counts[node].mitigated) \div counts[node].failures
          [] failures = 0 -> 50
          [] OTHER        -> (100 * mitigated) \div failures

CalibrateCandidates(candidates, counts, smoothing) ==
    LET nodes == {c.node : c \in {c \in ToSet(candidates) : c.mode = DMR}}
        Calibrated(c) ==
            LET probability == CriticalProbability(counts, nodes, c.node, smoothing)
            IN  [c EXCEPT !.critical = probability,
                          !.risk = TensorBytes(candidates, c.node) * probability
                                   * (IF c.mode = DMR THEN 100 ELSE RangeGuardCoverage(counts, c.node))]
    IN  [i \in DOMAIN candidates |-> Calibrated(candidates[i])]

\* The metadata the optimizers read: nodes with failures, and coverages.
CalibrationMetadata(candidates, counts) ==
    LET nodes == {c.node : c \in {c \in ToSet(candidates) : c.mode = DMR}}
    IN  [known |-> TRUE,
         failing |-> {n \in nodes : counts[n].failures > 0},
         coverage |-> [n \in nodes |-> RangeGuardCoverage(counts, n)]]

(* recalibrate_cost_model.py: never scaled down.                           *)
ScaleLatency(candidates, measured, predicted) ==
    [i \in DOMAIN candidates |->
        [candidates[i] EXCEPT !.latency = IF measured <= predicted THEN @
                                          ELSE (@ * measured) \div predicted]]

(* _node_robustness_factors: risks by the lower bound of the rate of       *)
(* failure over the rate itself.                                           *)
DiscountedRisks(candidates, counts) ==
    LET Factor(c) == IF c.failures = 0 THEN 0
                     ELSE (WilsonLower[<<c.failures, c.events>>] * c.events) \div c.failures
    IN  [i \in DOMAIN candidates |->
            [candidates[i] EXCEPT !.risk = (@ * Factor(counts[candidates[i].node])) \div 100]]

(* _screen_robust_memory_ilp: the selection under discounted risks, with   *)
(* the risks it really has.                                                *)
RobustMemoryIlp(candidates, counts, budget, tolerance) ==
    LET Original(c) == CHOOSE o \in ToSet(candidates) : o.node = c.node /\ o.mode = c.mode
    IN  {[i \in DOMAIN selected |-> Original(selected[i])] :
            selected \in UNION {OptimizeBoundedLossMemoryIlp(discounted, budget, tolerance) :
                                   discounted \in {DiscountedRisks(candidates, counts)}}}
=============================================================================
