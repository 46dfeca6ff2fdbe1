-------------------------- MODULE PlannedExecution --------------------------
(***************************************************************************)
(* A graph planned by plan_memory and run by runtime/core/executor.c: the  *)
(* host prepares the context, sets the inputs, runs the nodes in order and *)
(* reads the outputs, several times on one context.  Memory is a function  *)
(* from addresses to values, so a tensor whose bytes are overwritten while *)
(* it is still needed shows up as a node that reads a wrong value.         *)
(*                                                                         *)
(* An address is one cell of the arena or of an external buffer; the value *)
(* <<run, <<t, k>>>> is what an op computes for cell k of its output t.     *)
(* A kernel that reads anything else writes Garbage.                       *)
(***************************************************************************)
EXTENDS MemoryPlan

CONSTANTS
  Families,     \* kinds of graphs: records of
                \*   ops          op types a graph is built from
                \*   minNodes, maxNodes
                \*   sizes        bytes of a tensor not fixed by its inputs
                \*   allocFlags   values of alloc_input and alloc_output
  CELL,         \* bytes of one cell of memory
  MaxRuns       \* inferences on one context

ASSUME ExecutionAssumption ==
  /\ MaxArenaBytes \in Nat
  /\ MaxRuns \in Nat \ {0}
  /\ CELL \in {1, 2, 4, 8, 16}        \* divides ALIGNMENT
  /\ MaxTensors \in Nat
  /\ \A f \in Families :
       /\ f.minNodes \in Nat /\ f.maxNodes \in Nat
       /\ MaxTensors >= f.maxNodes + 1
       /\ f.allocFlags \subseteq BOOLEAN
       /\ f.sizes \subseteq Nat \ {0}     \* _should_allocate drops empty tensors
       /\ \A b \in f.sizes : b % CELL = 0

VARIABLES
  family,    \* the kind of graph under compilation, chosen once
  meaning,   \* for each tensor, what its cells must hold, whatever the storage
  memory,    \* address -> value
  run,       \* number of the current inference, 0 before the first
  ip,        \* next node to execute, -1 between two inferences
  misread    \* a node has read a value that is not its input's

execVars == <<family, meaning, memory, run, ip, misread>>
vars == <<planVars, execVars>>

Garbage == <<0, <<-1, 0>>>>
Cells(g, t) == 0 .. Bytes(g, t) \div CELL - 1

\* Tensors with no place in the arena live in a buffer the host binds.
External(g, t) == ~ShouldAllocate(g, t)
Addr(t, k) == IF External(graph, t) THEN <<t, k>> ELSE <<-1, offsets[t] \div CELL + k>>

Addresses ==
  {<<-1, k>> : k \in 0 .. peak \div CELL - 1} \cup
  UNION {{<<t, k>> : k \in Cells(graph, t)} : t \in {u \in TensorIds(graph) : External(graph, u)}}

Footprint(t) == {Addr(t, k) : k \in Cells(graph, t)}

Correct(t, k) == <<run, meaning[t + 1][k + 1]>>
Holds(mem, t, k) == mem[Addr(t, k)] = Correct(t, k)
Intact(t) == \A k \in Cells(graph, t) : Holds(memory, t, k)

-----------------------------------------------------------------------------
(* Kernels.                                                                *)

CopyCells(mem, from, to, shift) ==
  [a \in DOMAIN mem |->
     IF \E k \in Cells(graph, from) : a = Addr(to, k + shift)
     THEN mem[Addr(from, CHOOSE k \in Cells(graph, from) : a = Addr(to, k + shift))]
     ELSE mem[a]]

\* Cell by cell: in place it reads each cell just before it writes it.
ReluKernel(i) ==
  LET in == NodeAt(graph, i).ins[1]  out == OutOf(graph, i)
      sameCells == \A k \in Cells(graph, in) : Addr(in, k) = Addr(out, k)
      clean == sameCells \/ Footprint(in) \cap Footprint(out) = {}
  IN  [a \in Addresses |->
         IF a \in Footprint(out)
         THEN LET k == CHOOSE j \in Cells(graph, out) : a = Addr(out, j)
              IN  IF clean /\ Holds(memory, in, k) THEN Correct(out, k) ELSE Garbage
         ELSE memory[a]]

\* Every output cell depends on all the inputs, which are read while it writes.
ComputeKernel(i) ==
  LET out == OutOf(graph, i)
      ins == ToSet(NodeAt(graph, i).ins)
      clean == \A t \in ins : Intact(t) /\ Footprint(t) \cap Footprint(out) = {}
  IN  [a \in Addresses |->
         IF a \in Footprint(out)
         THEN IF clean
              THEN Correct(out, CHOOSE k \in Cells(graph, out) : a = Addr(out, k))
              ELSE Garbage
         ELSE memory[a]]

\* The inputs are copied one after the other to their place in the output.
ConcatKernel(i) ==
  LET ins == NodeAt(graph, i).ins  out == OutOf(graph, i)
  IN  CopyCells(CopyCells(memory, ins[1], out, 0),
                ins[2], out, Bytes(graph, ins[1]) \div CELL)

Kernel(i) ==
  LET op == NodeAt(graph, i).op
  IN  CASE op \in INPLACE_SHAPE_ONLY_OPS ->
             CopyCells(memory, NodeAt(graph, i).ins[1], OutOf(graph, i), 0)
        [] op = "Relu" -> ReluKernel(i)
        [] op = "Concat" -> ConcatKernel(i)
        [] OTHER -> ComputeKernel(i)

-----------------------------------------------------------------------------
(* The graph under compilation, chosen node by node.                       *)

UnaryOps == {"Conv"} \cup INPLACE_SHAPE_ONLY_OPS \cup INPLACE_ELEMENTWISE_OPS

\* Cells that no other tensor has.  A copy has the cells of its input instead, and
\* a Concat along the outermost axis those of its inputs, one after the other.
NewCells(t, bytes) == [k \in 1 .. bytes \div CELL |-> <<t, k - 1>>]

Init ==
  /\ family \in Families
  /\ \E b \in family.sizes, ai \in family.allocFlags, ao \in family.allocFlags :
        /\ graph = [inputs |-> 1, nodes |-> << >>, bytes |-> <<b>>, outputs |-> {},
                    alloc_input |-> ai, alloc_output |-> ao]
        /\ meaning = <<NewCells(0, b)>>
  /\ phase = "build"
  /\ offsets = << >>
  /\ Pack!Init
  /\ visited = 0 /\ inplace = << >> /\ concat = << >> /\ lives = << >>
  /\ memory = << >>
  /\ run = 0
  /\ ip = -1
  /\ misread = FALSE

AddNode ==
  /\ phase = "build"
  /\ NodeCount(graph) < family.maxNodes
  /\ \E op \in family.ops, x \in TensorIds(graph), y \in TensorIds(graph), b \in family.sizes :
       LET inBytes == Bytes(graph, x)
           bytes == IF op = "Conv" THEN b
                    ELSE IF op = "Concat" THEN inBytes + Bytes(graph, y)
                    ELSE inBytes
           ins == IF op \in UnaryOps THEN <<x>> ELSE <<x, y>>
       IN  /\ op \in UnaryOps => y = x
           /\ op # "Conv" => b = CHOOSE s \in family.sizes : TRUE
           /\ op = "Add" => x < y /\ Bytes(graph, y) = inBytes
           /\ graph' = [graph EXCEPT !.nodes =
                Append(@, [op |-> op, bytes |-> bytes, ins |-> ins])]
           /\ meaning' = Append(meaning,
                CASE op \in INPLACE_SHAPE_ONLY_OPS -> meaning[x + 1]
                  [] op = "Concat" -> meaning[x + 1] \o meaning[y + 1]
                  [] OTHER -> NewCells(OutOf(graph, NodeCount(graph)), bytes))
  /\ UNCHANGED <<phase, aliasVars, offsets, packVars, family, memory, run, ip, misread>>

\* The outputs are chosen; every other tensor has a consumer, as after
\* dead-node elimination.
Seal ==
  /\ phase = "build"
  /\ NodeCount(graph) >= family.minNodes
  /\ \E outs \in SUBSET (TensorIds(graph) \ InputIds(graph)) :
       /\ \A t \in TensorIds(graph) : Consumers(graph, t) # {} \/ t \in outs
       /\ outs # {}
       /\ graph' = [graph EXCEPT !.outputs = outs]
  /\ phase' = "analyze"
  /\ UNCHANGED <<aliasVars, offsets, packVars, execVars>>

-----------------------------------------------------------------------------
(* The host and the runtime.                                               *)

\* Prepare: the arena is zeroed, so it holds nothing that a run computes.
Prepare ==
  /\ phase = "run"
  /\ run = 0 /\ memory = << >>
  /\ memory' = [a \in Addresses |-> Garbage]
  /\ UNCHANGED <<planVars, family, meaning, run, ip, misread>>

\* spkv2_set_input (or bind_input) for every input, then spkv2_run starts.
SetInputs ==
  /\ phase = "run"
  /\ memory # << >>
  /\ ip = -1
  /\ run < MaxRuns
  /\ run' = run + 1
  /\ ip' = 0
  /\ memory' = [a \in Addresses |->
       IF \E t \in InputIds(graph) : a \in Footprint(t)
       THEN LET t == CHOOSE u \in InputIds(graph) : a \in Footprint(u)
                k == CHOOSE j \in Cells(graph, t) : a = Addr(t, j)
            IN  <<run', meaning[t + 1][k + 1]>>
       ELSE memory[a]]
  /\ UNCHANGED <<planVars, family, meaning, misread>>

\* One node of spkv2_run.
ExecuteNode ==
  /\ ip \in 0 .. NodeCount(graph) - 1
  /\ memory' = Kernel(ip)
  /\ misread' = (misread \/ \E t \in ToSet(NodeAt(graph, ip).ins) : ~Intact(t))
  /\ ip' = ip + 1
  /\ UNCHANGED <<planVars, family, meaning, run>>

\* spkv2_run returns; the host copies the outputs out.
Return ==
  /\ ip = NodeCount(graph)
  /\ ip' = -1
  /\ UNCHANGED <<planVars, family, meaning, memory, run, misread>>

Next ==
  \/ AddNode
  \/ Seal
  \/ PlanNext /\ UNCHANGED execVars
  \/ Prepare
  \/ SetInputs
  \/ ExecuteNode
  \/ Return

Spec == Init /\ [][Next]_vars

-----------------------------------------------------------------------------
Returned == run > 0 /\ ip = -1

\* Tensors whose storage a write to tensor t reaches: the aliases of its block,
\* and for a Concat also its inputs placed inside it, and the Concat itself.
Owner(t) ==
  LET root == Root(inplace, t)
  IN  IF root \in DOMAIN concat THEN concat[root].parent ELSE root

\* The condition under which rewriting a tensor in place is safe: nothing that
\* shares its storage is read later or is an output of the graph.  The planner
\* only asks that the input itself has no other consumer.
InPlaceIsSafe ==
  \A i \in 0 .. NodeCount(graph) - 1 :
    LET out == OutOf(graph, i)
    IN  NodeAt(graph, i).op = "Relu" /\ out \in DOMAIN inplace =>
          \A t \in 0 .. out - 1 :
            Owner(t) = Owner(out) =>
              /\ t \notin graph.outputs
              /\ \A c \in Consumers(graph, t) : c <= i

\* Every node reads exactly what its producers computed in this run, in every
\* inference on the context, whenever in-place rewriting is safe.
ReadsIntact == InPlaceIsSafe => ~misread

\* When a run has returned, every output of the graph holds its value, whatever
\* was placed, aliased or overwritten on the way.
OutputsCorrect ==
  Returned /\ InPlaceIsSafe => \A t \in graph.outputs : Intact(t)

\* docs/architecture.md: no two tensors share an offset while both are alive, so
\* each node reads the values its producers wrote.
NodesReadTheirInputs == ~misread

\* Every tensor lies inside the arena of the package and starts at a multiple of
\* 16, as the SIMD kernels that load from its base need; an alias never sticks
\* out of the storage it shares.  The inputs placed inside a Concat's output are
\* the hard case: they start at a running sum of sizes.
TensorsWellPlaced ==
  phase = "run" =>
    \A t \in TensorIds(graph) :
      ShouldAllocate(graph, t) =>
        /\ offsets[t] + Bytes(graph, t) <= peak
        /\ offsets[t] % Pack!ALIGNMENT = 0
        /\ Owner(t) \in DOMAIN entries =>
             /\ entries[Owner(t)].off <= offsets[t]
             /\ offsets[t] + Bytes(graph, t) <=
                  entries[Owner(t)].off + entries[Owner(t)].size

\* A Concat whose output was itself placed inside a later Concat, with an input
\* placed in it that is no in-place alias.
ConcatInConcat ==
  \E t \in DOMAIN concat \ DOMAIN inplace : concat[t].parent \in DOMAIN concat

\* The lookup of a storage without an entry (memory_plan.py:131) fails on Concats
\* inside Concats and on nothing else: every other alias, of an alias, inside a
\* Concat or in place of a tensor inside a Concat, finds the entry it needs in the
\* order in which the tensors are visited.
KeyErrorOnlyForNested ==
  phase \in {"run", "failed"} => (status = "KeyError" <=> ConcatInConcat)

\* The type of the state.
TypeOK ==
  /\ phase \in {"build", "analyze", "inplace", "concat", "plan", "run", "failed"}
  /\ visited \in 0 .. family.maxNodes
  /\ status \in {"planning", "planned", "MemoryError", "KeyError"}
  /\ run \in 0 .. MaxRuns
  /\ ip \in -1 .. family.maxNodes
  /\ misread \in BOOLEAN
  /\ offsets = << >> \/ offsets \in [TensorIds(graph) -> Nat]
  /\ memory = << >> \/ DOMAIN memory = Addresses
=============================================================================
