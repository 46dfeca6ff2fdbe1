--------------------------- MODULE KernelDispatch ---------------------------
(***************************************************************************)
(* From the compiler's choice of kernels to the kernels that run: a model  *)
(* is compiled for a profile, its weights converted or not, and executed   *)
(* by a runtime that was built for some processor, through the registry of *)
(* kernels with the host's own ones in it (runtime/kernels/reference/      *)
(* kernels.c) or by the direct calls of an inline program (compiler/       *)
(* codegen/c_codegen.py).  Each node keeps what its kernel packed in one   *)
(* slot of node_cache (runtime/kernels/optimized/).                        *)
(***************************************************************************)
EXTENDS KernelPlan

CONSTANTS
    Graphs,        \* the graphs, by number
    Profiles,      \* the target profiles, by name
    Instances,     \* records [graph, profile, build, way, conversion]
    Offers,        \* what a host's kernel may be: records [priority, supports]
    TableSize,     \* USER_KERNEL_MAX
    MaxRuns        \* runs on one context

Builds == {"plain", "avx2", "neon", "dotprod", "apple"}

\* A node of KernelPlan's graphs.  No dimension of a convolution is empty, and its
\* groups share out the channels, which the kernels check (conv.c:22-23).
Node ==
    [op : STRING, c : Nat, oc : Nat, k : Nat, s : Nat, p : Nat, d : Nat, group : Nat, h : Nat,
     trans : BOOLEAN, residual : BOOLEAN, x : Nat, w : Nat]

WellShaped(n) ==
    n.op = "Conv" =>
        /\ 0 \notin {n.c, n.oc, n.k, n.s, n.d, n.group, n.h}
        /\ n.c % n.group = 0 /\ n.oc % n.group = 0
        /\ OutSize(n) >= 1

(* What the importer builds: all weights become FP32, and nothing is       *)
(* quantized yet (onnx_importer.py:22, 41).                                *)
Imported ==
    [nodes : Seq(Node) \ {<<>>}, weights : Seq([dtype : {"fp32"}, rank : Nat]),
     captured : SUBSET Nat, scales : {{}}]

ASSUME InstancesAssumption ==
    /\ TableSize \in Nat /\ MaxRuns \in Nat
    /\ \A offer \in Offers : offer.priority \in Int /\ offer.supports \in BOOLEAN
    /\ \A i \in Instances :
          /\ i.graph \in DOMAIN Graphs
          /\ i.profile \in DOMAIN Profiles
          /\ i.build \in Builds
          /\ i.way \in {"library", "inline"}
          /\ i.conversion \in {"none", "fp16", "int8"}
    /\ \A g \in DOMAIN Graphs :
          /\ Graphs[g] \in Imported
          /\ \A node \in DOMAIN Graphs[g].nodes :
                LET n == Graphs[g].nodes[node]
                IN  WellShaped(n) /\ n.w <= Len(Graphs[g].weights)

VARIABLES
    instance,
    graph,       \* the graph, with the weights as they are stored
    phase,       \* "imported", "converted", "ready" or "refused"
    plan,        \* the result of select_kernel_specs
    users,       \* s_user_kernels: [op, backend, kind, priority, supports]
    caches,      \* node_cache, per node
    next,        \* the node that executes next
    runs,
    log          \* of the last run since the table changed: what happened at every node

vars == <<instance, graph, phase, plan, users, caches, next, runs, log>>

build == instance.build
Nodes == DOMAIN graph.nodes

Arm == build \in {"neon", "dotprod", "apple"}
Vector == build # "plain"
Dotprod == build \in {"dotprod", "apple"}

-----------------------------------------------------------------------------
SimdConvKinds == {"im2col_gemm", "pointwise_1x1", "depthwise_direct", "winograd_3x3s1",
                  "winograd_f43", "conv3x3s2_direct"}

(* REGISTRY, and _KERNEL_FN with _KERNEL_GUARD of the code generator: the  *)
(* name of the kernel that is compiled in for an op and a spec.            *)
Builtin(op, spec) ==
    LET Is(backend, kind) == spec.backend = backend /\ spec.kind = kind
        simd == spec.backend = "simd"
    IN  IF Is("ref", "reference") THEN "reference"
        ELSE IF op = "Conv" /\ Is("cpu", "im2col_gemm") THEN "conv_im2col"
        ELSE IF op = "Gemm" /\ Is("cpu", "direct") THEN "reference"
        ELSE IF op = "Conv" /\ simd /\ spec.kind \in SimdConvKinds /\ Vector THEN "conv_simd"
        ELSE IF op = "Conv" /\ Is("simd", "int8_im2col_gemm") /\ Dotprod THEN "conv_int8"
        ELSE IF op = "Conv" /\ Is("simd", "bnns_fp32") /\ build = "apple" THEN "conv_bnns"
        ELSE IF op = "Gemm" /\ Is("simd", "direct") /\ Vector THEN "gemm_simd"
        ELSE IF op \notin {"Conv", "Gemm"} /\ simd /\ Vector THEN "simd"
        ELSE "none"

\* What find_kernel returns: whose kernel, and which.
Found(by, which) == [by |-> by, which |-> which]

\* A user kernel is for one op, backend and kind.
IsFor(i, op, spec) ==
    users[i].op = op /\ users[i].backend = spec.backend /\ users[i].kind = spec.kind

\* Mutant: a later entry of the same priority wins.
BestUserLast(op, spec) ==
    LET best[i \in 0..Len(users)] ==
            IF i = 0 THEN [kernel |-> Found("none", 0), priority |-> -1]
            ELSE IF IsFor(i, op, spec) /\ users[i].priority >= best[i - 1].priority
            THEN [kernel |-> Found("user", i), priority |-> users[i].priority]
            ELSE best[i - 1]
    IN  best

\* The loop over the host's kernels: the best of the first i.
BestUser(op, spec) ==
    LET best[i \in 0..Len(users)] ==
            IF i = 0 THEN [kernel |-> Found("none", 0), priority |-> -1]
            ELSE IF IsFor(i, op, spec) /\ users[i].priority > best[i - 1].priority
            THEN [kernel |-> Found("user", i), priority |-> users[i].priority]
            ELSE best[i - 1]
    IN  best

(***************************************************************************)
(* find_kernel: the entry of the highest priority above -1, the first of   *)
(* those; user entries come before built-in ones, which have priority 0.   *)
(***************************************************************************)
FindKernel(op, spec) ==
    LET user == BestUser(op, spec)[Len(users)]
    IN  IF Builtin(op, spec) # "none" /\ 0 > user.priority
        THEN Found("builtin", Builtin(op, spec)) ELSE user.kernel

-----------------------------------------------------------------------------
(***************************************************************************)
(* A kernel's work on a node: the code it returns, what it leaves in the   *)
(* node's cache, whether it read the weights as what they are, whether it  *)
(* added the residual, and the bytes of scratch it wrote.                  *)
(***************************************************************************)
Outcome(rc, cache, reads, residual, bytes) ==
    [rc |-> rc, cache |-> cache, reads |-> reads, residual |-> residual, bytes |-> bytes]

Unsupported(cache) == Outcome(-99, cache, TRUE, TRUE, 0)
NoScratch(cache) == Outcome(-13, cache, TRUE, TRUE, 0)

Weight(n) == IF n.w = 0 THEN "fp32" ELSE graph.weights[n.w].dtype

\* Columns of one group of a convolution.
GroupColumns(n) == (n.c \div n.group) * n.k * n.k

(* The segment of the im2col buffer: whole rows of the output that fit in  *)
(* the scratch of the node, but at least one.                              *)
SegmentBytes(n, scratch) ==
    LET fit == (scratch \div 4) \div GroupColumns(n)
        columns == IF fit <= 0 THEN Spatial(n) ELSE fit
        rows == (columns \div OutSize(n)) * OutSize(n)
        segment == IF rows <= 0 THEN OutSize(n) ELSE rows
    IN  GroupColumns(n) * 4 * (IF segment > Spatial(n) THEN Spatial(n) ELSE segment)

\* Mutant: the weights are packed whatever their type.
PacksAlways(n) == n.group = 1 /\ build # "apple"

\* A convolution whose channels are groups of their own.
Depthwise(n) == n.group = n.c /\ n.group = n.oc

(* The strides of the direct 3x3 kernel: AVX2 has 2 (conv.c:1041), NEON    *)
(* has 1, and 2 on Apple only (conv3x3_direct_neon, conv.c:2254-2262).     *)
DirectStrides == IF ~Arm THEN {2} ELSE IF build = "apple" THEN {1, 2} ELSE {1}

TakesDirect(n) == \E s \in DirectStrides : Plain3x3(n, s)

(***************************************************************************)
(* kernel_conv_simd.  FP16 weights are promoted once, into the cache, on   *)
(* ARM; then the depthwise path, the kinds that were asked for, and GEMM,  *)
(* each with its own idea of what the cache holds.  What a build's direct  *)
(* kernel does not take is refused with the promoted weights in the cache. *)
(***************************************************************************)
PacksForGemm(n) == n.group = 1 /\ Weight(n) # "fp16" /\ build # "apple"

ConvSimd(n, kind, cache, scratch) ==
    LET promoted == IF Weight(n) = "fp16" /\ cache = "empty" THEN "fp32" ELSE cache
        raw == Weight(n) = "fp32" \/ (Weight(n) = "fp16" /\ promoted = "fp32")
        plain == Plain3x3(n, 1) /\ OutSize(n) = n.h
        Packed(as) == IF promoted = "empty" THEN as ELSE promoted
        fromPack == PacksForGemm(n)
        gemmCache == IF fromPack THEN Packed("gemm") ELSE promoted
        gemmReads == IF fromPack THEN gemmCache = "gemm" /\ Weight(n) = "fp32" ELSE raw
        Direct(reads, residual, bytes) == Outcome(0, promoted, reads, residual, bytes)
    IN  IF Weight(n) = "fp16" /\ ~Arm THEN Unsupported(cache)
        ELSE IF Depthwise(n) THEN Direct(raw, TRUE, 0)
        ELSE IF \/ kind \in {"winograd_3x3s1", "winograd_f43"} /\ ~plain
                \/ kind = "conv3x3s2_direct" /\ ~TakesDirect(n)
        THEN Unsupported(promoted)
        ELSE IF kind = "winograd_3x3s1"
        THEN Outcome(0, Packed("f23"), Packed("f23") = "f23" /\ raw, FALSE,
                     16 * (n.c + n.oc) * Tiles(n, 2) * 4)
        ELSE IF kind = "winograd_f43"
        THEN Outcome(0, Packed("f43"), Packed("f43") = "f43" /\ raw, TRUE,
                     36 * (n.c + n.oc) * Tiles(n, 4) * 4)
        ELSE IF kind = "conv3x3s2_direct" THEN Direct(raw, FALSE, 0)
        ELSE Outcome(0, gemmCache, gemmReads, TRUE,
                     IF n.k = 1 /\ n.s = 1 /\ n.p = 0 THEN 0 ELSE SegmentBytes(n, scratch))

(* kernel_conv_int8.  An inline program has no table of quantization       *)
(* parameters.                                                             *)
ConvInt8(n, cache) ==
    LET known == /\ instance.way = "library"
                 /\ <<"weight", n.w>> \in graph.scales /\ <<"input", n.x>> \in graph.scales
        packed == IF cache = "empty" THEN "int8" ELSE cache
    IN  IF known
        THEN Outcome(0, packed, packed = "int8" /\ Weight(n) = "int8", TRUE,
                     n.c * n.h * n.h + Columns(n) * Spatial(n) + n.oc * Spatial(n) * 4)
        ELSE Unsupported(cache)

(* kernel_conv_bnns: the filter keeps the weights in either type.          *)
ConvBnns(n, cache) ==
    LET filter == IF cache = "empty" THEN "bnns" ELSE cache
    IN  Outcome(0, filter, filter = "bnns" /\ Weight(n) \in {"fp32", "fp16"}, TRUE, 0)

(* kernel_gemm_simd                                                        *)
GemmSimd(n, cache) ==
    LET promoted == IF Weight(n) = "fp16" /\ cache = "empty" THEN "fp32" ELSE cache
    IN  IF (n.trans /\ build # "apple") \/ (Weight(n) = "fp16" /\ ~Arm) THEN Unsupported(cache)
        ELSE Outcome(0, promoted,
                     Weight(n) = "fp32" \/ (Weight(n) = "fp16" /\ promoted = "fp32"), TRUE, 0)

(* The others read floats, whatever the weights are; conv_im2col only      *)
(* takes convolutions of one group.                                        *)
Plain(n, cache, bytes) == Outcome(0, cache, Weight(n) = "fp32", TRUE, bytes)

\* A kernel on a node whose selected spec has the given kind and scratch.
RunKernel(kernel, n, node, given) ==
    LET selected == plan.specs[plan.byNode[node]]
        cache == caches[node]
        starved == ~given /\ selected.scratch > 0
    IN  IF kernel = "conv_im2col" /\ n.group # 1 THEN Unsupported(cache)
        ELSE IF kernel \in {"conv_im2col", "conv_simd", "conv_int8"} /\ starved THEN NoScratch(cache)
        ELSE IF kernel = "conv_im2col" THEN Plain(n, cache, Columns(n) * 4)
        ELSE IF kernel = "conv_simd" THEN ConvSimd(n, selected.kind, cache, selected.scratch)
        ELSE IF kernel = "conv_int8" THEN ConvInt8(n, cache)
        ELSE IF kernel = "conv_bnns" THEN ConvBnns(n, cache)
        ELSE IF kernel = "gemm_simd" THEN GemmSimd(n, cache)
        ELSE Plain(n, cache, 0)                      \* "reference" and "simd"

-----------------------------------------------------------------------------
FallbackRefSpec(node) ==
    [node |-> node, backend |-> "ref", kind |-> "reference", scratch |-> 0, fallback |-> NoSpec]

(* selected_spec: by the id in the node's record, if the spec agrees.      *)
SelectedSpec(node) ==
    LET spec == plan.specs[plan.byNode[node]]
    IN  IF spec.node = node THEN spec ELSE FallbackRefSpec(node)

\* What a node's execution shows: the kernels tried, and the last one's outcome.
Entry(tried, outcome) == [tried |-> tried, outcome |-> outcome]

(* execute_with_spec                                                       *)
ExecuteWithSpec(node, spec) ==
    LET n == graph.nodes[node]
        kernel == FindKernel(n.op, spec)
        cache == caches[node]
    IN  Entry(<<kernel>>,
          IF kernel.by = "none" THEN Unsupported(cache)
          ELSE IF spec.scratch > plan.scratch THEN Outcome(-14, cache, TRUE, TRUE, 0)
          ELSE IF kernel.by = "builtin" THEN RunKernel(kernel.which, n, node, spec.scratch > 0)
          ELSE IF users[kernel.which].supports THEN Outcome(0, cache, TRUE, TRUE, 0)
          ELSE Unsupported(cache))

(* The ops of the switch in spkv2_execute_node.                            *)
HasReferenceFallback(op) == op # "Reshape"

\* Mutant: a kernel that is not compiled in is an error.
ExecuteNodeOnce(node) == ExecuteWithSpec(node, SelectedSpec(node))

(* spkv2_execute_node                                                      *)
ExecuteNode(node) ==
    LET selected == SelectedSpec(node)
        first == ExecuteWithSpec(node, selected)
        Then(second) == Entry(first.tried \o second.tried, second.outcome)
    IN  IF first.outcome.rc # -99 THEN first
        ELSE IF selected.fallback # NoSpec
        THEN Then(ExecuteWithSpec(node, plan.specs[selected.fallback]))
        ELSE IF HasReferenceFallback(graph.nodes[node].op)
        THEN Then(ExecuteWithSpec(node, FallbackRefSpec(node)))
        ELSE first

(* The line of the generated exec function: the kernel itself, without the *)
(* registry, where it is compiled in, else spkv2_execute_node.             *)
InlineCall(node) ==
    LET selected == plan.specs[plan.byNode[node]]
        kernel == Builtin(graph.nodes[node].op, selected)
    IN  IF kernel = "none" THEN ExecuteNode(node)
        ELSE Entry(<<Found("builtin", kernel)>>,
                   RunKernel(kernel, graph.nodes[node], node, selected.scratch > 0))

-----------------------------------------------------------------------------
Init ==
    /\ instance \in Instances
    /\ graph = Graphs[instance.graph]
    /\ phase = "imported"
    /\ plan = NoPlan
    /\ users = <<>>
    /\ caches = [n \in DOMAIN graph.nodes |-> "empty"]
    /\ next = 1
    /\ runs = 0
    /\ log = <<>>

(* cli.py: weights are converted after the passes, before the selection.   *)
Convert ==
    /\ phase = "imported"
    /\ phase' = "converted"
    /\ graph' = Converted(graph, instance.conversion)
    /\ UNCHANGED <<instance, plan, users, caches, next, runs, log>>

Select ==
    /\ phase = "converted"
    /\ plan' = SelectKernelSpecs(graph, Profiles[instance.profile])
    /\ phase' = IF plan'.error = "none" THEN "ready" ELSE "refused"
    /\ UNCHANGED <<instance, graph, users, caches, next, runs, log>>

\* The host calls the runtime between runs.
Idle == phase = "ready" /\ next = 1

(* spkv2_register_kernel                                                   *)
Register ==
    /\ Idle
    /\ \E id \in DOMAIN plan.specs, offer \in Offers :
          LET spec == plan.specs[id]
              entry == [op |-> graph.nodes[spec.node].op, backend |-> spec.backend,
                        kind |-> spec.kind, priority |-> offer.priority,
                        supports |-> offer.supports]
          IN  users' = IF Len(users) < TableSize THEN Append(users, entry) ELSE users
    /\ log' = <<>>
    /\ UNCHANGED <<instance, graph, phase, plan, caches, next, runs>>

(* spkv2_clear_user_kernels                                                *)
Clear ==
    /\ Idle
    /\ users' = <<>>
    /\ log' = <<>>
    /\ UNCHANGED <<instance, graph, phase, plan, caches, next, runs>>

(* One node of spkv2_run or of the generated exec; the first code that is  *)
(* not 0 ends the run.                                                     *)
RunNode ==
    /\ phase = "ready"
    /\ next \in Nodes
    /\ runs < MaxRuns
    /\ LET entry == IF instance.way = "inline" THEN InlineCall(next) ELSE ExecuteNode(next)
       IN  /\ log' = IF next = 1 THEN <<entry>> ELSE Append(log, entry)
           /\ caches' = [caches EXCEPT ![next] = entry.outcome.cache]
           /\ IF entry.outcome.rc # 0 \/ next = Len(graph.nodes)
              THEN next' = 1 /\ runs' = runs + 1
              ELSE next' = next + 1 /\ UNCHANGED runs
    /\ UNCHANGED <<instance, graph, phase, plan, users>>

Next == Convert \/ Select \/ Register \/ Clear \/ RunNode

Spec == Init /\ [][Next]_vars

-----------------------------------------------------------------------------
Caches == {"empty", "fp32", "f23", "f43", "gemm", "int8", "bnns"}

\* Types, and the ids that tie nodes, specs and fallbacks together.
TypeOK ==
    /\ instance \in Instances
    /\ phase \in {"imported", "converted", "ready", "refused"}
    /\ Len(users) <= TableSize
    /\ caches \in [Nodes -> Caches]
    /\ next \in Nodes
    /\ runs \in 0..MaxRuns
    /\ phase = "ready" =>
          /\ DOMAIN plan.byNode = Nodes
          /\ \A node \in Nodes :
                LET spec == plan.specs[plan.byNode[node]]
                IN  /\ spec.node = node
                    /\ spec.scratch <= plan.scratch
                    /\ spec.fallback # NoSpec =>
                          plan.specs[spec.fallback] = FallbackRefSpec(node)

LastKernel(entry) == entry.tried[Len(entry.tried)]
Selected(node) == plan.specs[plan.byNode[node]]

\* The kernel that an inline program calls answers -99, where the library
\* would go on to the fallback.
InlineGap(node) ==
    LET n == graph.nodes[node]
    IN  /\ instance.way = "inline"
        /\ \/ Selected(node).kind = "int8_im2col_gemm"
           \/ n.op = "Conv" /\ Selected(node).backend = "cpu" /\ n.group # 1
           \/ n.op = "Gemm" /\ n.trans /\ build # "apple"
           \/ Weight(n) = "fp16" /\ ~Arm
           \/ /\ Selected(node).kind = "conv3x3s2_direct" /\ ~Depthwise(n)
              /\ build \in {"neon", "dotprod"}

(***************************************************************************)
(* A node that the compiler accepted executes on every build: a kernel     *)
(* that is not compiled in, or does not take the node, hands over to the   *)
(* fallback of the plan or to the reference kernel, with the scratch it    *)
(* needs (kernels.c:184-245), unless the host's own kernel refuses, or the *)
(* program is inline and has no way back (c_codegen.py:703-722).           *)
(***************************************************************************)
NodesExecute ==
    \A node \in DOMAIN log :
        (LastKernel(log[node]).by # "user" /\ ~InlineGap(node)) => log[node].outcome.rc = 0

TypedKernels == {"conv_simd", "gemm_simd", "conv_bnns"}

(***************************************************************************)
(* Over all runs on one context, kernels read weights as the type they are *)
(* stored in, from the record or from what an earlier run left in the      *)
(* cache (conv.c:961, 1051): FP32 always; FP16 where a kernel of           *)
(* TypedKernels gets the node, Winograd excepted, which takes the promoted *)
(* weights in the cache for packed ones (conv.c:2080); INT8 where the INT8 *)
(* kernel does, and that one gets every quantized convolution on a build   *)
(* that has it.  No kernel but the direct stride-2 one, which no bundled   *)
(* profile offers, forgets the residual.                                   *)
(***************************************************************************)
OperandsUsed ==
    \A node \in DOMAIN log :
        LET n == graph.nodes[node]
            kernel == LastKernel(log[node]).which
            outcome == log[node].outcome
        IN  (LastKernel(log[node]).by = "builtin" /\ outcome.rc = 0) =>
              /\ (\/ Weight(n) = "fp32"
                  \/ /\ Weight(n) = "fp16" /\ kernel \in TypedKernels
                     /\ Selected(node).kind # "winograd_f43"
                  \/ Weight(n) = "int8" /\ kernel = "conv_int8") => outcome.reads
              /\ (n.residual /\ Selected(node).kind # "conv3x3s2_direct") => outcome.residual
              /\ (/\ Selected(node).kind = "int8_im2col_gemm" /\ Dotprod
                  /\ instance.way = "library" /\ n.x \in graph.captured
                  /\ users = <<>>) => kernel = "conv_int8"

(***************************************************************************)
(* A kernel writes no more scratch than the planner gave its node          *)
(* (kernel_spec.py:240), unless a single row of columns is longer than the *)
(* planner's cap of 2 MiB (conv.c:1116).                                   *)
(***************************************************************************)
KernelScratchFits ==
    \A node \in DOMAIN log :
        LET n == graph.nodes[node]
        IN  GroupColumns(n) * OutSize(n) * 4 <= SegmentCap
              => log[node].outcome.bytes <= Selected(node).scratch

(***************************************************************************)
(* The registry, without its loops: among the host's kernels for an op and *)
(* a spec that have a priority of at least 0, the first of the highest one *)
(* runs; without any, the built-in kernel; and the same for the fallback.  *)
(* A table that is full keeps its entries (kernels.c:18, 144-167).         *)
(***************************************************************************)
Preferred(op, spec) ==
    LET mine == {i \in DOMAIN users :
                    /\ users[i].op = op /\ users[i].backend = spec.backend
                    /\ users[i].kind = spec.kind /\ users[i].priority >= 0}
        top == {i \in mine : \A j \in mine : users[j].priority <= users[i].priority}
    IN  IF mine # {} THEN Found("user", CHOOSE i \in top : \A j \in top : i <= j)
        ELSE IF Builtin(op, spec) = "none" THEN Found("none", 0)
        ELSE Found("builtin", Builtin(op, spec))

UserKernelsPreferred ==
    instance.way = "library" =>
        \A node \in DOMAIN log :
            LET op == graph.nodes[node].op
            IN  /\ log[node].tried[1] = Preferred(op, Selected(node))
                /\ Len(log[node].tried) = 2 =>
                      log[node].tried[2] = Preferred(op, FallbackRefSpec(node))
=============================================================================
