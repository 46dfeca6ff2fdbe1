------------------------ MODULE MCPlannedExecution ------------------------
(***************************************************************************)
(* Small graphs for TLC, by what the planner can do wrong with them.       *)
(***************************************************************************)
EXTENDS PlannedExecution

Family(ops, minNodes, maxNodes, sizes, flags) ==
  [ops |-> ops, minNodes |-> minNodes, maxNodes |-> maxNodes,
   sizes |-> sizes, allocFlags |-> flags]

MCFamilies ==
  { \* everything in the arena: aliases of aliases
    Family({"Conv", "Relu", "Reshape", "Add", "Concat"}, 4, 4, {16}, {TRUE}),
    \* inputs and outputs outside it, and tensors of half an alignment unit
    Family({"Conv", "Relu", "Reshape", "Concat"}, 2, 3, {8, 16}, BOOLEAN) }

InPlaceFamilies == {Family({"Conv", "Relu", "Reshape", "Add"}, 3, 4, {16}, {TRUE})}
=============================================================================
