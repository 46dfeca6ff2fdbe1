---------------------------- MODULE MCGraphPasses ----------------------------
(***************************************************************************)
(* Small graphs for TLC, by the patterns that the passes look for.         *)
(***************************************************************************)
EXTENDS GraphPasses

Family(ops, consts, maxNodes, most, inner, levels, swap) ==
  [ops |-> ops, consts |-> consts, maxNodes |-> maxNodes, most |-> most,
   inner |-> inner, levels |-> levels, swap |-> swap]

MCFamilies ==
  { \* BatchNorms and activations behind convolutions, any output, each level
    Family({"Conv", "BatchNormalization", "Relu"}, {1, 3, 4}, 3, 2, TRUE, 0 .. 2, FALSE),
    \* residuals, two convolutions and an activation
    Family({"Conv", "Add", "Relu"}, {1}, 4, 2, FALSE, {2}, FALSE),
    \* a residual that is broadcast
    Family({"Conv", "Add"}, {1, 5}, 3, 2, TRUE, {2}, FALSE),
    \* Silu, with and without another reader or activation
    Family({"Conv", "Sigmoid", "Mul", "Relu"}, {1}, 4, 1, TRUE, {2}, FALSE),
    Family({"Conv", "Sigmoid", "Mul"}, {1}, 4, 2, FALSE, {2}, FALSE),
    \* elimination and folding, in chains
    Family({"Add", "Relu", "Identity", "Flatten", "Transpose"}, {6}, 3, 3, FALSE, {2}, FALSE),
    \* equal kernels, shared after some of them were folded
    Family({"Conv", "BatchNormalization"}, {1, 2, 4}, 4, 2, FALSE, {2}, FALSE),
    \* two fusions in any order
    Family({"Conv", "BatchNormalization", "Relu", "Add"}, {1, 4}, 3, 2, FALSE, {}, TRUE) }

OutputFamilies == {Family({"Conv", "Relu"}, {1}, 2, 2, TRUE, {2}, FALSE)}
=============================================================================
