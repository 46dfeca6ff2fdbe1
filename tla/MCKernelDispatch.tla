-------------------------- MODULE MCKernelDispatch --------------------------
(***************************************************************************)
(* Instances of KernelDispatch: one node of every shape that decides a     *)
(* kernel, and pairs of nodes that share a weight, for every profile,      *)
(* build, conversion and way of deployment.                                *)
(***************************************************************************)
EXTENDS KernelDispatch

Conv(c, oc, k, s, p, group, h) ==
    [op |-> "Conv", c |-> c, oc |-> oc, k |-> k, s |-> s, p |-> p, d |-> 1, group |-> group,
     h |-> h, trans |-> FALSE, residual |-> FALSE, x |-> 1, w |-> 1]

Other(op, w) ==
    [op |-> op, c |-> 4, oc |-> 4, k |-> 1, s |-> 1, p |-> 0, d |-> 1, group |-> 1,
     h |-> 4, trans |-> FALSE, residual |-> FALSE, x |-> 1, w |-> w]

Residual(n) == [n EXCEPT !.residual = TRUE]

Shapes ==
    << Conv(8, 8, 1, 1, 0, 1, 8),              \* pointwise
       Residual(Conv(8, 8, 3, 1, 1, 1, 8)),     \* Winograd F(4,3) where offered
       Residual(Conv(4, 4, 3, 1, 1, 1, 8)),     \* too few channels for it
       Conv(4, 4, 3, 1, 1, 4, 8),               \* depthwise
       Residual(Conv(8, 8, 3, 1, 1, 2, 8)),     \* grouped
       Residual(Conv(8, 8, 3, 2, 1, 1, 8)),     \* stride 2
       [Conv(4, 6, 3, 1, 2, 1, 9) EXCEPT !.d = 2],
       Conv(64, 512, 3, 1, 1, 1, 56),           \* im2col in segments
       Conv(512, 512, 3, 1, 1, 1, 114),         \* one row is over the cap
       Other("Gemm", 1), [Other("Gemm", 1) EXCEPT !.trans = TRUE], Other("MatMul", 1),
       Other("Add", 1), Other("Clip", 0), Other("Reshape", 0) >>

OpsOfShapes == {Shapes[i].op : i \in DOMAIN Shapes}

Graph(nodes, captured) ==
    [nodes |-> nodes, weights |-> <<[dtype |-> "fp32", rank |-> 4]>>,
     captured |-> captured, scales |-> {}]

\* The first of them again where onnxruntime does not return its input, and
\* a weight that a quantized convolution shares with another node.
MCGraphs ==
    [i \in DOMAIN Shapes |-> Graph(<<Shapes[i]>>, {1})]
      \o << Graph(<<Conv(8, 8, 1, 1, 0, 1, 8)>>, {}),
            Graph(<<Conv(4, 8, 3, 1, 1, 1, 8), Conv(8, 8, 3, 1, 1, 2, 8)>>, {1}),
            Graph(<<Conv(4, 4, 1, 1, 0, 1, 4), Other("MatMul", 1)>>, {1}) >>

\* A profile of a user's own: no reference kernels, and the stride-2 kernel.
Custom ==
    Profile([op \in OpsOfShapes |->
                CASE op = "Conv" -> {"simd_conv3x3s2_direct", "simd_im2col_gemm"}
                  [] op = "Gemm" -> {"direct"}
                  [] op = "Clip" -> {"simd"}
                  [] OTHER       -> {"ref"}], 32 * MiB)

MCProfiles ==
    [ neon    |-> CpuArmNeon(OpsOfShapes),
      generic |-> CpuGeneric(OpsOfShapes),
      custom  |-> Custom,
      ref     |-> CpuRef(OpsOfShapes),
      limited |-> MemoryLimited(OpsOfShapes) ]

\* The kernels that the last two profiles ask for are compiled into every
\* build, so one build is enough for them.
MCInstances ==
    LET With(profiles, builds) ==
            [graph : DOMAIN MCGraphs, profile : profiles, build : builds,
             way : {"library", "inline"}, conversion : {"none", "fp16", "int8"}]
    IN  With({"neon", "generic", "custom"}, Builds) \cup With({"ref", "limited"}, {"plain"})

\* An entry that never counts, an equal and a better one, one that refuses.
MCOffers ==
    { [priority |-> -1, supports |-> TRUE], [priority |-> 0, supports |-> TRUE],
      [priority |-> 1, supports |-> TRUE],  [priority |-> 1, supports |-> FALSE] }
=============================================================================
