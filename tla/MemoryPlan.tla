----------------------------- MODULE MemoryPlan -----------------------------
(***************************************************************************)
(* plan_memory of compiler/planner/memory_plan.py on a whole graph: tensor *)
(* lifetimes, the in-place and the Concat aliases, the packing loop of     *)
(* BestFitArena for the tensors that own storage, and the offsets that the *)
(* aliases get from the storage they share.                                *)
(*                                                                         *)
(* A graph is a record                                                     *)
(*   inputs   number of graph inputs, tensors 0 .. inputs - 1              *)
(*   nodes    sequence of [op, ins, bytes]: node i (from 0) is nodes[i+1], *)
(*            its output is tensor inputs + i and has that many bytes      *)
(*   bytes    sequence of the input sizes                                  *)
(*   outputs  set of graph outputs                                         *)
(*   alloc_input, alloc_output   the flags of plan_memory                  *)
(* Weights are not in it: they are never allocated and never aliased.      *)
(* Nodes with several outputs only allocate, and are left out.  A Concat   *)
(* has two inputs, which may be the same tensor, and joins them along the  *)
(* outermost axis.                                                         *)
(*                                                                         *)
(* The two loops that find aliases visit one node in each step, and what   *)
(* an alias does to the lifetimes is done in the step that finds it: the   *)
(* loops read no lifetimes, and the code extends them in the order found.  *)
(***************************************************************************)
EXTENDS Integers, Sequences, SequencesExt

CONSTANTS MaxTensors, MaxArenaBytes

VARIABLES
  graph,        \* the graph to plan
  phase,        \* "build", "analyze", "inplace", "concat", "plan", "run", "failed"
  visited,      \* nodes that the current alias loop has visited
  inplace,      \* inplace_map: tensor -> the tensor whose storage it shares
  concat,       \* concat_map: tensor -> [parent, shift] inside a Concat's output
  lives,        \* lifetimes, extended by the aliases found so far
  offsets,      \* tensor id -> arena offset, once the plan is made
  \* the variables of the packing loop
  entries, active, free_blocks, peak, request, cursor, status

packVars == <<entries, active, free_blocks, peak, request, cursor, status>>
aliasVars == <<visited, inplace, concat, lives>>
planVars == <<graph, phase, aliasVars, offsets, packVars>>

Pack == INSTANCE BestFitArena WITH
  Tensors <- 0 .. MaxTensors - 1,
  FirstUses <- 0 .. MaxTensors,
  LastUses <- 0 .. MaxTensors + 1,
  ByteSizes <- Nat \ {0}

INPLACE_SHAPE_ONLY_OPS == {"Reshape", "Flatten", "Unsqueeze", "Cast"}
INPLACE_ELEMENTWISE_OPS == {"Relu"}
GRAPH_END_EXTRA == 1

-----------------------------------------------------------------------------
(* The graph.                                                              *)

NodeCount(g) == Len(g.nodes)
TensorIds(g) == 0 .. g.inputs + NodeCount(g) - 1
InputIds(g) == 0 .. g.inputs - 1
OutOf(g, i) == g.inputs + i
NodeAt(g, i) == g.nodes[i + 1]
Bytes(g, t) == IF t < g.inputs THEN g.bytes[t + 1] ELSE g.nodes[t - g.inputs + 1].bytes
Consumers(g, t) == {i \in 0 .. NodeCount(g) - 1 : t \in ToSet(NodeAt(g, i).ins)}

MaxOf(S) == CHOOSE m \in S : \A x \in S : x <= m

ShouldAllocate(g, t) ==
  /\ t \in InputIds(g) => g.alloc_input
  /\ t \in g.outputs => g.alloc_output

-----------------------------------------------------------------------------
(* Lifetimes.                                                              *)

FirstUse(g, t) == IF t \in InputIds(g) THEN 0 ELSE t - g.inputs

\* Mutant: an output lives no longer than its last consumer.
OutputsExpireLifetimes(g) ==
  [t \in TensorIds(g) |->
     [first |-> FirstUse(g, t),
      last  |-> IF Consumers(g, t) # {} THEN MaxOf(Consumers(g, t)) ELSE FirstUse(g, t)]]

\* [first, last] of every tensor, before the aliases extend them.
AnalyzeLifetimes(g) ==
  [t \in TensorIds(g) |->
     [first |-> FirstUse(g, t),
      last  |-> IF t \in g.outputs THEN NodeCount(g) + GRAPH_END_EXTRA
                ELSE IF Consumers(g, t) # {} THEN MaxOf(Consumers(g, t))
                ELSE FirstUse(g, t)]]

Widen(a, b) ==
  [first |-> IF a.first <= b.first THEN a.first ELSE b.first,
   last  |-> IF a.last >= b.last THEN a.last ELSE b.last]

\* The storage of an in-place alias lives as long as the alias does.
InplaceLifetimes(ls, src, out) == [ls EXCEPT ![src] = Widen(@, ls[out])]

\* Mutant: the Concat output keeps its own life, whatever is placed inside it.
ConcatNotWidened(ls, ins, out) == ls

\* The output of a Concat lives as long as the inputs placed inside it.
ConcatLifetimes(ls, ins, out) ==
  [ls EXCEPT ![out] = Widen(Widen(@, ls[ins[1]]), ls[ins[2]])]

-----------------------------------------------------------------------------
(* Aliases.                                                                *)

\* aliases.get(tid, tid)
Root(aliases, t) == IF t \in DOMAIN aliases THEN aliases[t] ELSE t

CanRunInPlace(g, aliases, i) ==
  LET node == NodeAt(g, i)
      in   == node.ins[1]
      out  == OutOf(g, i)
  IN  /\ node.op \in INPLACE_SHAPE_ONLY_OPS \cup INPLACE_ELEMENTWISE_OPS
      /\ Bytes(g, in) = Bytes(g, out)
      /\ ShouldAllocate(g, out)
      /\ ShouldAllocate(g, in)
      /\ ~(out \in g.outputs /\ in \in InputIds(g))
      /\ node.op \in INPLACE_ELEMENTWISE_OPS =>
           Consumers(g, in) = {i} /\ Root(aliases, in) \notin InputIds(g)

\* Mutant: the offset inside the Concat may be any number of bytes.
ConcatAnyOffset(g, aliases, i) ==
  LET node == NodeAt(g, i)
  IN  /\ node.op = "Concat"
      /\ ShouldAllocate(g, OutOf(g, i))
      /\ \A k \in {1, 2} :
           /\ ShouldAllocate(g, node.ins[k])
           /\ node.ins[k] \notin InputIds(g) \cup DOMAIN aliases

\* The inputs of a Concat may be written where it would copy them.
CanAliasConcat(g, aliases, i) ==
  LET node == NodeAt(g, i)
  IN  /\ node.op = "Concat"
      /\ ShouldAllocate(g, OutOf(g, i))
      /\ \A k \in {1, 2} :
           /\ ShouldAllocate(g, node.ins[k])
           /\ node.ins[k] \notin InputIds(g)
           /\ node.ins[k] \notin DOMAIN aliases
      /\ Bytes(g, node.ins[1]) % Pack!ALIGNMENT = 0

\* The place of an input inside the Concat's output, the last one if it is both.
PlaceInConcat(g, i, t) ==
  LET ins == NodeAt(g, i).ins
  IN  [parent |-> OutOf(g, i),
       shift  |-> IF t = ins[2] THEN Bytes(g, ins[1]) ELSE 0]

PlannedTensors ==
  {t \in TensorIds(graph) : /\ ShouldAllocate(graph, t)
                            /\ t \notin DOMAIN inplace
                            /\ t \notin DOMAIN concat}

-----------------------------------------------------------------------------
(* Offsets of the aliases, tensor by tensor in order of id.  An alias whose *)
(* storage has no entry yet raises KeyError.                               *)

\* The tensor whose storage t shares, and how far into it t starts.
Storage(t) == IF t \in DOMAIN inplace THEN inplace[t] ELSE concat[t].parent

\* The offset of a tensor that is not an in-place alias.
OwnOffset(t) ==
  IF t \in DOMAIN entries THEN entries[t].off
  ELSE IF t \in DOMAIN concat THEN entries[concat[t].parent].off + concat[t].shift
  ELSE 0

\* Mutant: only the storage of a packed tensor is found.
StorageNotPacked(t) == Storage(t) \notin DOMAIN entries

\* When t is visited, the tensors with an entry are the packed ones and those
\* below t.
StorageMissing(t) == Storage(t) \notin DOMAIN entries /\ Storage(t) >= t

RaisesKeyError ==
  \E t \in (DOMAIN inplace \cup DOMAIN concat) \ DOMAIN entries : StorageMissing(t)

\* Mutant: the second loop of plan_memory is missing.
PackedOnly == [t \in DOMAIN entries |-> entries[t].off]

\* The storage of an in-place alias is no in-place alias itself.
ResolveOffsets == [t \in TensorIds(graph) |-> OwnOffset(Root(inplace, t))]

-----------------------------------------------------------------------------
(* The actions.                                                            *)

AnalyzeGraph ==
  /\ phase = "analyze"
  /\ lives' = AnalyzeLifetimes(graph)
  /\ visited' = 0
  /\ phase' = "inplace"
  /\ UNCHANGED <<graph, inplace, concat, offsets, packVars>>

\* One node of _find_inplace_aliases.  An alias of an alias shares the storage of
\* the first.
VisitInplace ==
  /\ phase = "inplace"
  /\ visited < NodeCount(graph)
  /\ LET out == OutOf(graph, visited)
         src == Root(inplace, NodeAt(graph, visited).ins[1])
     IN  IF CanRunInPlace(graph, inplace, visited)
         THEN /\ inplace' = [t \in DOMAIN inplace \cup {out} |->
                               IF t = out THEN src ELSE inplace[t]]
              /\ lives' = InplaceLifetimes(lives, src, out)
         ELSE UNCHANGED <<inplace, lives>>
  /\ visited' = visited + 1
  /\ UNCHANGED <<graph, phase, concat, offsets, packVars>>

InplaceDone ==
  /\ phase = "inplace"
  /\ visited = NodeCount(graph)
  /\ visited' = 0
  /\ phase' = "concat"
  /\ UNCHANGED <<graph, inplace, concat, lives, offsets, packVars>>

\* One node of _find_concat_aliases.
VisitConcat ==
  /\ phase = "concat"
  /\ visited < NodeCount(graph)
  /\ LET ins == NodeAt(graph, visited).ins
     IN  IF CanAliasConcat(graph, concat, visited)
         THEN /\ concat' = [t \in DOMAIN concat \cup ToSet(ins) |->
                              IF t \in ToSet(ins) THEN PlaceInConcat(graph, visited, t)
                              ELSE concat[t]]
              /\ lives' = ConcatLifetimes(lives, ins, OutOf(graph, visited))
         ELSE UNCHANGED <<concat, lives>>
  /\ visited' = visited + 1
  /\ UNCHANGED <<graph, phase, inplace, offsets, packVars>>

ConcatDone ==
  /\ phase = "concat"
  /\ visited = NodeCount(graph)
  /\ phase' = "plan"
  /\ UNCHANGED <<graph, aliasVars, offsets, packVars>>

\* sorted(planned_tensors, key = (first use, id))
IsNext(t) ==
  \A u \in PlannedTensors \ DOMAIN entries :
    \/ lives[t].first < lives[u].first
    \/ lives[t].first = lives[u].first /\ t <= u

ConsiderNext ==
  /\ phase = "plan"
  /\ \E t \in PlannedTensors \ DOMAIN entries :
       /\ IsNext(t)
       /\ Pack!Consider(t, lives[t].first, lives[t].last, Bytes(graph, t))
  /\ UNCHANGED <<graph, phase, aliasVars, offsets>>

PackStep ==
  /\ phase = "plan"
  /\ Pack!Step
  /\ UNCHANGED <<graph, phase, aliasVars, offsets>>

\* All tensors are placed: aliases are resolved, then the budget is checked.
FinishPlan ==
  /\ phase = "plan"
  /\ PlannedTensors \subseteq DOMAIN entries
  /\ IF RaisesKeyError
     THEN /\ phase' = "failed"
          /\ status' = "KeyError"
          /\ UNCHANGED <<offsets, entries, active, free_blocks, peak, request, cursor>>
     ELSE /\ Pack!Finish
          /\ phase' = IF status' = "planned" THEN "run" ELSE "failed"
          /\ offsets' = ResolveOffsets
  /\ UNCHANGED <<graph, aliasVars>>

PlanNext ==
  \/ AnalyzeGraph
  \/ VisitInplace \/ InplaceDone
  \/ VisitConcat \/ ConcatDone
  \/ ConsiderNext \/ PackStep \/ FinishPlan
=============================================================================
