----------------------------- MODULE KernelPlan -----------------------------
(***************************************************************************)
(* What the compiler decides about kernels: weights become FP16 or INT8    *)
(* (passes/convert_fp16.py, quantization/), and every node gets the spec   *)
(* of a kernel, its scratch and a fallback (planner/kernel_spec.py), from  *)
(* the tokens that the target profile lists for its op.                    *)
(*                                                                         *)
(* A graph g is a record:                                                  *)
(*   nodes     [op, c, oc, k, s, p, d, group, h, trans, residual, x, w]:   *)
(*             channels in and out, kernel, stride, padding, dilation,     *)
(*             groups and height, all shapes 4-D and square; whether Gemm  *)
(*             transposes; whether a fused Add left a residual operand;    *)
(*             the ids of the input and of the weight, 0 when it has none  *)
(*   weights   [dtype, rank] of the weights, by id                         *)
(*   captured  the input tensors onnxruntime returns values for            *)
(*   scales    the tensors with quantization parameters                    *)
(***************************************************************************)
EXTENDS Integers, Sequences, FiniteSetsExt

NoSpec == -1                 \* 0xFFFFFFFF

-----------------------------------------------------------------------------
(* convert_weights_fp16                                                    *)
ConvertWeightsFp16(g) ==
    [g EXCEPT !.weights = [w \in DOMAIN @ |->
        IF @[w].dtype = "fp32" /\ @[w].rank >= 2 THEN [@[w] EXCEPT !.dtype = "fp16"] ELSE @[w]]]

Convs(g) == {n \in DOMAIN g.nodes : g.nodes[n].op = "Conv"}

(* quantize_conv_weights: in place, once a weight, however many nodes      *)
(* share it, and also when some of them are not convolutions of one group. *)
QuantizeConvWeights(g) ==
    LET quantized == {g.nodes[n].w : n \in {n \in Convs(g) :
                          /\ g.nodes[n].group = 1
                          /\ g.nodes[n].w # 0
                          /\ g.weights[g.nodes[n].w].dtype = "fp32"}}
    IN  [g EXCEPT !.weights = [w \in DOMAIN @ |->
                      IF w \in quantized THEN [@[w] EXCEPT !.dtype = "int8"] ELSE @[w]],
                  !.scales = @ \cup {<<"weight", w>> : w \in quantized}]

(* calibrate_from_graph and its entropy variant: the tensors that get a    *)
(* scale are inputs of convolutions that onnxruntime could return.         *)
CalibrateFromGraph(g) == {g.nodes[n].x : n \in Convs(g)} \cap g.captured

(* build_activation_quant_params                                           *)
BuildActivationQuantParams(g, calibrated) ==
    [g EXCEPT !.scales = @ \cup {<<"input", g.nodes[n].x>> :
                                    n \in {n \in Convs(g) : g.nodes[n].x \in calibrated}}]

(* cli.py: compile --fp16-weights and quantize.                            *)
Converted(g, conversion) ==
    IF conversion = "fp16" THEN ConvertWeightsFp16(g)
    ELSE IF conversion = "int8"
    THEN BuildActivationQuantParams(QuantizeConvWeights(g), CalibrateFromGraph(g))
    ELSE g

-----------------------------------------------------------------------------
OutSize(n) == (n.h + 2 * n.p - n.d * (n.k - 1) - 1) \div n.s + 1
Spatial(n) == OutSize(n) * OutSize(n)

Tiles(n, size) == LET side == (OutSize(n) + size - 1) \div size IN side * side

MiB == 1048576
SimdTileBytes == 32 * MiB
SegmentCap == 2 * MiB

Align16(bytes) == ((bytes + 15) \div 16) * 16

Columns(n) == n.c * n.k * n.k           \* K, whatever the groups

\* Mutant: the INT32 accumulators are planned like bytes.
Int8Accumulators(n) == n.oc * Spatial(n)

(* Accumulators of the INT8 kernel.                                        *)
AccumulatorBytes(n) == n.oc * Spatial(n) * 4

(* _estimate_scratch_bytes                                                 *)
EstimateScratchBytes(n, backend, kind) ==
    Align16(
      IF n.op # "Conv" THEN 0
      ELSE IF kind = "winograd_3x3s1"
      THEN Min({16 * (n.c + n.oc) * Tiles(n, 2) * 4, SimdTileBytes})
      ELSE IF kind = "winograd_f43"
      THEN Min({36 * (n.c + n.oc) * Tiles(n, 4) * 4, SimdTileBytes})
      ELSE IF kind = "int8_im2col_gemm"
      THEN n.c * n.h * n.h + Columns(n) * Spatial(n) + AccumulatorBytes(n)
      ELSE IF kind = "im2col_gemm" /\ backend = "simd"
      THEN Min({Columns(n) * Spatial(n) * 4, SegmentCap})
      ELSE IF kind = "im2col_gemm" /\ backend = "cpu" THEN Columns(n) * 4
      ELSE 0)

-----------------------------------------------------------------------------
Plain3x3(n, stride) == n.group = 1 /\ n.k = 3 /\ n.s = stride /\ n.d = 1 /\ n.p = 1

(* The condition for Winograd F(4,3) in _select_simd_conv_kind.            *)
WinogradPays(n) ==
    /\ Plain3x3(n, 1)
    /\ OutSize(n) >= 8
    /\ n.c >= 8 \/ n.oc >= 8
    /\ Tiles(n, 4) >= 4
    /\ 36 * (n.c + n.oc) * Tiles(n, 4) * 4 <= SimdTileBytes

None == <<>>

(* _select_simd_conv_kind, with the token and the condition of each kind.  *)
SelectSimdConvKind(n, tokens) ==
    IF "simd_bnns_fp32" \in tokens /\ n.group = 1 THEN <<"simd", "bnns_fp32">>
    ELSE IF /\ "simd_pointwise_1x1" \in tokens
            /\ n.group = 1 /\ n.k = 1 /\ n.s = 1 /\ n.p = 0 /\ n.d = 1
    THEN <<"simd", "pointwise_1x1">>
    ELSE IF /\ "simd_depthwise_direct" \in tokens
            /\ n.group = n.c /\ n.group = n.oc /\ n.k = 3 /\ n.d = 1
    THEN <<"simd", "depthwise_direct">>
    ELSE IF "simd_winograd_f43" \in tokens /\ WinogradPays(n) THEN <<"simd", "winograd_f43">>
    ELSE IF "simd_conv3x3s2_direct" \in tokens /\ Plain3x3(n, 2)
    THEN <<"simd", "conv3x3s2_direct">>
    ELSE IF "simd_im2col_gemm" \in tokens THEN <<"simd", "im2col_gemm">>
    ELSE None

SimdReferenceOps ==
    {"Add", "Mul", "Sub", "Div", "Relu", "Sigmoid", "Transpose", "ReduceMax", "ReduceMean",
     "Softmax", "MaxPool", "Resize", "AveragePool", "GlobalAveragePool", "Clip", "LeakyRelu"}

(* _select_primary_spec: <<backend, kind>>, or None.                       *)
SelectPrimarySpec(g, n, tokens) ==
    LET conv == n.op = "Conv"
        simdConv == SelectSimdConvKind(n, tokens)
        int8 == n.w # 0 /\ g.weights[n.w].dtype = "int8" /\ n.group = 1
    IN  IF conv /\ int8 /\ "simd_int8_im2col_gemm" \in tokens THEN <<"simd", "int8_im2col_gemm">>
        ELSE IF conv /\ simdConv # None THEN simdConv
        ELSE IF n.op \in {"Gemm", "MatMul"} /\ "simd_direct" \in tokens THEN <<"simd", "direct">>
        ELSE IF n.op \in SimdReferenceOps /\ "simd" \in tokens THEN <<"simd", "reference">>
        ELSE IF conv /\ "im2col_gemm" \in tokens THEN <<"cpu", "im2col_gemm">>
        ELSE IF n.op = "Gemm" /\ "direct" \in tokens THEN <<"cpu", "direct">>
        ELSE IF tokens \cap {"reference", "ref"} # {} THEN <<"ref", "reference">>
        ELSE None

\* Mutant: nodes are counted from 0 in the specs.
MakeSpecFromZero(g, node, backend, kind) ==
    [ node |-> node - 1, backend |-> backend, kind |-> kind,
      scratch |-> EstimateScratchBytes(g.nodes[node], backend, kind), fallback |-> NoSpec ]

(* _make_spec                                                              *)
MakeSpec(g, node, backend, kind) ==
    [ node |-> node, backend |-> backend, kind |-> kind,
      scratch |-> EstimateScratchBytes(g.nodes[node], backend, kind), fallback |-> NoSpec ]

NoPlan == [specs |-> <<>>, byNode |-> <<>>, scratch |-> 0, error |-> "none"]

(***************************************************************************)
(* One round of the loop of select_kernel_specs.  Spec ids count from 1.   *)
(***************************************************************************)
SelectForNode(g, profile, plan, node) ==
    LET n == g.nodes[node]
        tokens == profile.ops[n.op]
        choice == SelectPrimarySpec(g, n, tokens)
        id == Len(plan.specs) + 1
        hasFallback == choice[2] # "reference" /\ "ref" \in tokens
        selected == [MakeSpec(g, node, choice[1], choice[2]) EXCEPT
                        !.fallback = IF hasFallback THEN id + 1 ELSE NoSpec]
        specs == Append(plan.specs, selected)
    IN  IF plan.error # "none" THEN plan
        ELSE IF tokens = {} THEN [plan EXCEPT !.error = "op"]
        ELSE IF choice = None THEN [plan EXCEPT !.error = "kernel"]
        ELSE [ specs   |-> IF hasFallback THEN Append(specs, MakeSpec(g, node, "ref", "reference"))
                           ELSE specs,
               byNode  |-> Append(plan.byNode, id),
               scratch |-> Max({plan.scratch, selected.scratch}),
               error   |-> "none" ]

\* The plan after each node.
SelectedUpTo(g, profile) ==
    LET plan[i \in 0..Len(g.nodes)] ==
            IF i = 0 THEN NoPlan ELSE SelectForNode(g, profile, plan[i - 1], i)
    IN  plan

SelectKernelSpecs(g, profile) ==
    LET plan == SelectedUpTo(g, profile)[Len(g.nodes)]
    IN  IF plan.error = "none" /\ plan.scratch > profile.scratchMax
        THEN [plan EXCEPT !.error = "memory"] ELSE plan

-----------------------------------------------------------------------------
(* The bundled profiles, by the ops that differ between them, and what     *)
(* load_target_profile insists on in any other.                            *)
ConvTokens == {"im2col_gemm", "ref"}
SimdConvTokens == ConvTokens \cup {"simd_int8_im2col_gemm", "simd_pointwise_1x1",
                                   "simd_depthwise_direct", "simd_im2col_gemm"}

ProfileOps(conv, gemm, matmul, simd, missing, modelled) ==
    [op \in modelled |->
        CASE op = "Conv"          -> conv
          [] op = "Gemm"          -> gemm
          [] op = "MatMul"        -> matmul
          [] op \in missing       -> {}
          [] op \in SimdReferenceOps \ missing -> IF simd THEN {"simd", "ref"} ELSE {"ref"}
          [] OTHER                -> {"ref"}]

Profile(ops, scratchMax) == [ops |-> ops, scratchMax |-> scratchMax]

CpuArmNeon(modelled) ==
    Profile(ProfileOps(SimdConvTokens \cup {"simd_winograd_f43"},
                       {"simd_direct", "direct", "ref"}, {"simd_direct", "ref"}, TRUE, {},
                       modelled), 32 * MiB)

CpuGeneric(modelled) ==
    Profile(ProfileOps(SimdConvTokens \cup {"simd_bnns_fp32"},
                       {"simd_direct", "direct", "ref"}, {"simd_direct", "ref"}, TRUE, {},
                       modelled), 32 * MiB)

CpuRef(modelled) ==
    Profile(ProfileOps({"ref"}, {"ref"}, {"ref"}, FALSE, {}, modelled), 8 * MiB)

MemoryLimited(modelled) ==
    Profile(ProfileOps(ConvTokens, {"direct", "ref"}, {"ref"}, FALSE,
                       {"AveragePool", "GlobalAveragePool", "Clip", "LeakyRelu", "Gather", "Slice"},
                       modelled), MiB)
=============================================================================
