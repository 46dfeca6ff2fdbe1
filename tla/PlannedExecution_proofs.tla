---------------------- MODULE PlannedExecution_proofs ----------------------
(***************************************************************************)
(* Proofs about planned execution: for every graph that can be built,      *)
(* every tensor lies where it should in the arena, and when in-place       *)
(* rewriting is safe each node reads, and the host gets, what the graph    *)
(* computes, in every inference on a context.                              *)
(***************************************************************************)
EXTENDS PlannedExecution, NaturalOrder, SequenceTheorems

P == INSTANCE BestFitArena_proofs WITH
  Tensors <- Nat, FirstUses <- Nat, LastUses <- Nat, ByteSizes <- Nat \ {0}

-----------------------------------------------------------------------------
(* The inductive invariant.                                                *)

AllOps == UNION {f.ops : f \in Families}
NodeRecords == [op : AllOps, bytes : Nat \ {0}, ins : Seq(Nat)]
Graphs == [inputs : {1}, nodes : Seq(NodeRecords), bytes : Seq(Nat \ {0}),
           outputs : SUBSET Nat, alloc_input : BOOLEAN, alloc_output : BOOLEAN]
Steps(g) == 0 .. NodeCount(g) - 1

\* Node i reads tensors that exist when it runs, and the sizes follow the ops.
NodeOK(g, i) ==
  LET node == NodeAt(g, i)
  IN  /\ \E x, y \in 0 .. i :
           node.ins = IF node.op \in UnaryOps THEN <<x>> ELSE <<x, y>>
      /\ node.bytes \in Nat \ {0} /\ node.bytes % CELL = 0
      /\ node.op \in INPLACE_SHAPE_ONLY_OPS \cup INPLACE_ELEMENTWISE_OPS =>
           node.bytes = Bytes(g, node.ins[1])
      /\ node.op = "Concat" =>
           node.bytes = Bytes(g, node.ins[1]) + Bytes(g, node.ins[2])

GraphOK ==
  /\ family \in Families
  /\ graph \in Graphs
  /\ Len(graph.bytes) = 1 /\ graph.bytes[1] % CELL = 0
  /\ \A i \in Steps(graph) : NodeOK(graph, i)
  /\ NodeCount(graph) <= family.maxNodes
  /\ graph.outputs \subseteq 1 .. NodeCount(graph)

\* The cells of a tensor, by what the node that makes it does.
MeaningOK ==
  /\ meaning \in Seq(Seq(Nat \X Nat))
  /\ Len(meaning) = NodeCount(graph) + 1
  /\ \A t \in TensorIds(graph) : Len(meaning[t + 1]) = Bytes(graph, t) \div CELL
  /\ \A i \in Steps(graph) :
       LET node == NodeAt(graph, i)
       IN  /\ node.op \in INPLACE_SHAPE_ONLY_OPS =>
                meaning[i + 2] = meaning[node.ins[1] + 1]
           /\ node.op = "Concat" =>
                meaning[i + 2] = meaning[node.ins[1] + 1] \o meaning[node.ins[2] + 1]

\* What the in-place loop has found: the storage of an alias is an older tensor of
\* the same size that is no alias itself.
InplaceOK ==
  \A t \in DOMAIN inplace :
    LET node == NodeAt(graph, t - 1)
    IN  /\ t \in 1 .. NodeCount(graph)
        /\ node.op \in INPLACE_SHAPE_ONLY_OPS \cup INPLACE_ELEMENTWISE_OPS
        /\ ShouldAllocate(graph, t)
        /\ inplace[t] \in 0 .. t - 1
        /\ inplace[t] \notin DOMAIN inplace
        /\ ShouldAllocate(graph, inplace[t])
        /\ Bytes(graph, inplace[t]) = Bytes(graph, t)
        /\ inplace[t] = Root(inplace, node.ins[1])

\* What the Concat loop has found: an input of a Concat, at its place.
ConcatOK ==
  \A t \in DOMAIN concat :
    LET i == concat[t].parent - 1
    IN  /\ concat[t].parent \in 1 .. NodeCount(graph)
        /\ NodeAt(graph, i).op = "Concat"
        /\ t \in {NodeAt(graph, i).ins[1], NodeAt(graph, i).ins[2]}
        /\ concat[t] = PlaceInConcat(graph, i, t)
        /\ concat[t].shift % P!ALIGNMENT = 0
        /\ ShouldAllocate(graph, concat[t].parent)

Lives == [first : Nat, last : Nat]
Covers(a, b) == a.first <= b.first /\ b.last <= a.last

\* The storage of a tensor lives at least as long as the tensor itself.
LivesOK ==
  /\ lives \in [TensorIds(graph) -> Lives]
  /\ \A t \in TensorIds(graph) : lives[t].first <= lives[t].last
  /\ \A t \in TensorIds(graph) : Covers(lives[Owner(t)], AnalyzeLifetimes(graph)[t])

\* The packing loop packs the planned tensors, with their lives and sizes.
PackOK ==
  /\ P!IInv
  /\ P!Aligned
  /\ DOMAIN entries \subseteq PlannedTensors
  /\ \A t \in DOMAIN entries :
       /\ entries[t].first = lives[t].first
       /\ entries[t].last = lives[t].last
       /\ entries[t].size = P!Align(Bytes(graph, t))
  /\ request # P!NoRequest =>
       LET t == request.tensor_id
       IN  /\ t \in PlannedTensors
           /\ request.first = lives[t].first
           /\ request.last = lives[t].last
           /\ request.bytes = Bytes(graph, t)

\* How far into its owner a tensor starts.
Shift(t) == IF Root(inplace, t) \in DOMAIN concat THEN concat[Root(inplace, t)].shift ELSE 0

\* Every tensor of the arena has a place in the block of its owner.
OffsetsOK ==
  /\ offsets \in [TensorIds(graph) -> Nat]
  /\ \A t \in TensorIds(graph) :
       ShouldAllocate(graph, t) =>
         /\ Owner(t) \in DOMAIN entries
         /\ offsets[t] = entries[Owner(t)].off + Shift(t)

\* A tensor that exists before node i and is read by node i or later, or returned.
NeededAt(t, i) ==
  /\ t \in 0 .. i
  /\ t \in graph.outputs \/ \E c \in Consumers(graph, t) : c >= i

\* Before node ip every tensor that is still needed holds its value.
NeededIntact ==
  InPlaceIsSafe =>
    /\ ~misread
    /\ ip >= 0 => \A t \in 0 .. ip : NeededAt(t, ip) => Intact(t)
    /\ Returned => \A t \in graph.outputs : Intact(t)

NotPlanned == {"build", "analyze"}
NotPacked == NotPlanned \cup {"inplace", "concat"}
Phases == NotPacked \cup {"plan", "run", "failed"}

\* How far the planner has got.
StageOK ==
  /\ phase \in Phases
  /\ visited \in 0 .. NodeCount(graph)
  /\ phase \in NotPlanned => visited = 0 /\ inplace = << >>
  /\ phase \in NotPlanned \cup {"inplace"} => concat = << >>
  /\ phase = "inplace" => DOMAIN inplace \subseteq 1 .. visited
  /\ phase = "concat" => \A t \in DOMAIN concat : concat[t].parent <= visited
  /\ phase \in NotPacked => P!Init
  /\ phase \in NotPacked \cup {"plan"} => offsets = << >> /\ status = "planning"
  /\ phase = "run" => status = "planned" /\ request = P!NoRequest
  /\ phase = "failed" =>
       /\ status \in {"MemoryError", "KeyError"}
       /\ offsets = << >> \/ offsets \in [TensorIds(graph) -> Nat]

\* The plan, as far as it is made.
PlanOK ==
  /\ phase \notin NotPlanned => LivesOK
  /\ phase # "failed" => PackOK
  /\ phase = "run" => OffsetsOK

\* The context, prepared or not, and the run on it.
ContextOK ==
  /\ run \in 0 .. MaxRuns
  /\ ip \in -1 .. NodeCount(graph)
  /\ misread \in BOOLEAN
  /\ phase # "run" => memory = << >>
  /\ memory = << >> => run = 0 /\ ip = -1 /\ ~misread
  /\ ip >= 0 => run > 0
  /\ memory # << >> => DOMAIN memory = Addresses /\ NeededIntact

GraphInv == GraphOK /\ MeaningOK
AliasInv == StageOK /\ InplaceOK /\ ConcatOK

PlannedInv == GraphInv /\ AliasInv /\ PlanOK /\ ContextOK

-----------------------------------------------------------------------------
(* The packing loop of the model is the one of the proofs about it.        *)

LEMMA PackBridge ==
  /\ Pack!Init <=> P!Init
  /\ Pack!Step => P!Step
  /\ Pack!Finish <=> P!Finish
  /\ Pack!NoRequest = P!NoRequest
  /\ Pack!ALIGNMENT = 16 /\ P!ALIGNMENT = 16
<1> USE DEF Pack!NoRequest, P!NoRequest, Pack!ALIGNMENT, P!ALIGNMENT
<1>1. Pack!Init <=> P!Init
  BY Zenon DEF Pack!Init, P!Init
<1>2. Pack!Finish <=> P!Finish
  BY Zenon DEF Pack!Finish, P!Finish
<1>0. \A blocks, off, size :
        Pack!InsertFreeBlock(blocks, off, size) = P!InsertFreeBlock(blocks, off, size)
  BY Zenon DEF Pack!InsertFreeBlock, P!InsertFreeBlock, Pack!End, P!End
<1>3. \A t : Pack!Expire(t) <=> P!Expire(t)
  BY <1>0, Zenon DEF Pack!Expire, P!Expire, Pack!Expired, P!Expired
<1>4. Pack!ExpiryDone <=> P!ExpiryDone
  BY Zenon DEF Pack!ExpiryDone, P!ExpiryDone, Pack!Expired, P!Expired
<1>5. \A off, size : Pack!AddEntry(off, size) <=> P!AddEntry(off, size)
  BY Zenon DEF Pack!AddEntry, P!AddEntry
<1>6. \A n : Pack!Align(n) = P!Align(n)
  BY Zenon DEF Pack!Align, P!Align
<1>7. \A blocks, size : Pack!Fitting(blocks, size) = P!Fitting(blocks, size)
  BY Zenon DEF Pack!Fitting, P!Fitting
<1>8. \A blocks, size : Pack!BestFit(blocks, size) = P!BestFit(blocks, size)
  BY <1>7, Zenon DEF Pack!BestFit, P!BestFit
<1>9. \A blocks, size : Pack!TakeBestFit(blocks, size) = P!TakeBestFit(blocks, size)
  BY <1>0, <1>8, Zenon DEF Pack!TakeBestFit, P!TakeBestFit
<1>10. Pack!PlaceInFree <=> P!PlaceInFree
  BY <1>4, <1>5, <1>6, <1>7, <1>8, <1>9, Zenon DEF Pack!PlaceInFree, P!PlaceInFree
<1>11. Pack!PlaceAtPeak <=> P!PlaceAtPeak
  BY <1>4, <1>5, <1>6, <1>7, Zenon DEF Pack!PlaceAtPeak, P!PlaceAtPeak
<1>12. \A t : t \in 0 .. MaxTensors - 1 => t \in Nat
  BY ExecutionAssumption
<1>13. Pack!Step => P!Step
  BY <1>3, <1>10, <1>11, <1>12, Zenon DEF Pack!Step, P!Step
<1>14. QED
  BY <1>1, <1>2, <1>13

LEMMA BestFitHolds == P!BestFitAssumption
BY ExecutionAssumption DEF P!BestFitAssumption

-----------------------------------------------------------------------------
(* Graphs.                                                                 *)

\* Sizes that are whole numbers of cells.
LEMMA CellArithmetic ==
  /\ \A a \in Nat : a \div CELL \in Nat /\ (a % 16 = 0 => a % CELL = 0)
  /\ \A a \in Nat \ {0} : a % CELL = 0 => a \div CELL >= 1
  /\ \A a, b \in Nat : a % CELL = 0 /\ b % CELL = 0 =>
       /\ (a + b) % CELL = 0
       /\ (a + b) \div CELL = (a \div CELL) + (b \div CELL)
       /\ a <= b => a \div CELL <= b \div CELL
<1>1. CASE CELL = 1
  BY <1>1
<1>2. CASE CELL = 2
  BY <1>2
<1>3. CASE CELL = 4
  BY <1>3
<1>4. CASE CELL = 8
  BY <1>4
<1>5. CASE CELL = 16
  BY <1>5
<1>6. QED
  BY <1>1, <1>2, <1>3, <1>4, <1>5, ExecutionAssumption

\* The ids of a graph with one input, and the sizes of its tensors.
LEMMA GraphFacts ==
  ASSUME GraphOK
  PROVE  /\ NodeCount(graph) \in Nat
         /\ TensorIds(graph) = 0 .. NodeCount(graph)
         /\ InputIds(graph) = {0}
         /\ \A i : OutOf(graph, i) = 1 + i
         /\ \A i \in Steps(graph) :
              /\ NodeAt(graph, i) \in NodeRecords
              /\ Bytes(graph, i + 1) = NodeAt(graph, i).bytes
         /\ \A t \in 0 .. NodeCount(graph) :
              Bytes(graph, t) \in Nat \ {0} /\ Bytes(graph, t) % CELL = 0
<1> DEFINE Node == NodeRecords
<1>1. /\ graph.inputs = 1 /\ graph.nodes \in Seq(Node) /\ graph.bytes \in Seq(Nat \ {0})
      /\ Len(graph.bytes) = 1 /\ graph.bytes[1] % CELL = 0
      /\ \A i \in Steps(graph) : NodeOK(graph, i)
  BY DEF GraphOK, Graphs
<1> HIDE DEF Node
<1>2. NodeCount(graph) \in Nat
  BY <1>1 DEF NodeCount
<1>3. TensorIds(graph) = 0 .. NodeCount(graph) /\ InputIds(graph) = {0}
  BY <1>1, <1>2 DEF TensorIds, InputIds
<1>4. \A i : OutOf(graph, i) = 1 + i
  BY <1>1 DEF OutOf
<1>5. ASSUME NEW i \in Steps(graph)
      PROVE  NodeAt(graph, i) \in Node /\ Bytes(graph, i + 1) = NodeAt(graph, i).bytes
  <2>1. i + 1 \in 1 .. Len(graph.nodes) /\ (i + 1) - 1 + 1 = i + 1 /\ ~(i + 1 < 1)
    BY <1>2 DEF Steps, NodeCount
  <2>2. QED
    BY <1>1, <2>1 DEF NodeAt, Bytes
<1>6. ASSUME NEW t \in 0 .. NodeCount(graph)
      PROVE  Bytes(graph, t) \in Nat \ {0} /\ Bytes(graph, t) % CELL = 0
  <2>1. CASE t = 0
    BY <1>1, <2>1 DEF Bytes
  <2>2. CASE t # 0
    <3>1. t - 1 \in Steps(graph) /\ (t - 1) + 1 = t
      BY <2>2, <1>2 DEF Steps
    <3>2. QED
      BY <1>1, <1>5, <3>1 DEF NodeOK
  <2>3. QED
    BY <2>1, <2>2
<1>7. QED
  BY <1>2, <1>3, <1>4, <1>5, <1>6 DEF Node

\* What a node reads, and how many bytes it writes.
LEMMA NodeFacts ==
  ASSUME GraphOK, NEW i \in Steps(graph)
  PROVE  LET node == NodeAt(graph, i)
         IN  /\ i \in Nat /\ i + 1 \in 0 .. NodeCount(graph)
             /\ node.ins[1] \in 0 .. i
             /\ node.op \in UnaryOps => ToSet(node.ins) = {node.ins[1]}
             /\ node.op \notin UnaryOps =>
                  /\ node.ins[2] \in 0 .. i
                  /\ ToSet(node.ins) = {node.ins[1], node.ins[2]}
             /\ node.op \in INPLACE_SHAPE_ONLY_OPS \cup INPLACE_ELEMENTWISE_OPS =>
                  node.op \in UnaryOps /\ Bytes(graph, i + 1) = Bytes(graph, node.ins[1])
             /\ node.op = "Concat" =>
                  /\ node.op \notin UnaryOps
                  /\ Bytes(graph, i + 1) =
                       Bytes(graph, node.ins[1]) + Bytes(graph, node.ins[2])
<1> DEFINE node == NodeAt(graph, i)
<1>1. PICK x \in 0 .. i, y \in 0 .. i :
        node.ins = IF node.op \in UnaryOps THEN <<x>> ELSE <<x, y>>
  BY DEF GraphOK, NodeOK
<1>2. i \in Nat /\ i + 1 \in 0 .. NodeCount(graph)
  BY GraphFacts DEF Steps
<1>3. node.op \in UnaryOps =>
        node.ins[1] \in 0 .. i /\ ToSet(node.ins) = {node.ins[1]}
  BY <1>1 DEF ToSet
<1>4. node.op \notin UnaryOps =>
        node.ins[1] \in 0 .. i /\ node.ins[2] \in 0 .. i
        /\ ToSet(node.ins) = {node.ins[1], node.ins[2]}
  BY <1>1 DEF ToSet
<1>5. Bytes(graph, i + 1) = node.bytes
  BY GraphFacts
<1>6. "Concat" \notin UnaryOps
  BY DEF UnaryOps, INPLACE_SHAPE_ONLY_OPS, INPLACE_ELEMENTWISE_OPS
<1>7. NodeOK(graph, i)
  BY DEF GraphOK
<1> HIDE DEF node
<1>8. /\ node.op \in INPLACE_SHAPE_ONLY_OPS \cup INPLACE_ELEMENTWISE_OPS =>
           node.op \in UnaryOps /\ Bytes(graph, i + 1) = Bytes(graph, node.ins[1])
      /\ node.op = "Concat" =>
           Bytes(graph, i + 1) = Bytes(graph, node.ins[1]) + Bytes(graph, node.ins[2])
  BY <1>5, <1>7 DEF NodeOK, UnaryOps, node
<1>9. QED
  BY <1>2, <1>3, <1>4, <1>6, <1>8 DEF node

-----------------------------------------------------------------------------
(* Lifetimes.                                                              *)

\* A tensor is read only after it is made.
LEMMA ReadersAreLater ==
  ASSUME GraphOK, NEW t, NEW c \in Consumers(graph, t)
  PROVE  c \in Steps(graph) /\ c \in Nat /\ t \in 0 .. c
<1>1. c \in Steps(graph) /\ t \in ToSet(NodeAt(graph, c).ins)
  BY DEF Consumers, Steps
<1>2. QED
  BY <1>1, NodeFacts

\* analyze_lifetimes: from the producer to the last reader, or to the end.
LEMMA AnalyzeFacts ==
  ASSUME GraphOK, NEW t \in 0 .. NodeCount(graph)
  PROVE  LET life == AnalyzeLifetimes(graph)[t]
         IN  /\ life \in Lives
             /\ life.first <= life.last
             /\ life.first = IF t = 0 THEN 0 ELSE t - 1
             /\ \A c \in Consumers(graph, t) : c <= life.last
             /\ t \in graph.outputs => life.last = NodeCount(graph) + 1
<1> DEFINE life == AnalyzeLifetimes(graph)[t]
           readers == Consumers(graph, t)
           first == FirstUse(graph, t)
           last == IF t \in graph.outputs THEN NodeCount(graph) + GRAPH_END_EXTRA
                   ELSE IF readers # {} THEN MaxOf(readers) ELSE first
<1>1. NodeCount(graph) \in Nat /\ t \in TensorIds(graph)
  BY GraphFacts
<1>2. first = (IF t = 0 THEN 0 ELSE t - 1) /\ first \in Nat /\ first <= NodeCount(graph)
  <2>1. graph.inputs = 1 /\ InputIds(graph) = {0}
    BY GraphFacts DEF GraphOK, Graphs
  <2>2. QED
    BY <1>1, <2>1 DEF FirstUse
<1>3. \A c \in readers : c \in 0 .. NodeCount(graph) /\ c \in Nat /\ first <= c
  <2> SUFFICES ASSUME NEW c \in readers
               PROVE  c \in 0 .. NodeCount(graph) /\ c \in Nat /\ first <= c
    OBVIOUS
  <2>1. c \in Steps(graph) /\ c \in Nat /\ t \in 0 .. c
    BY ReadersAreLater
  <2>2. QED
    BY <2>1, <1>1, <1>2 DEF Steps
<1>4. life = [first |-> first, last |-> last]
  BY <1>1 DEF AnalyzeLifetimes
<1>5. readers # {} => MaxOf(readers) \in readers /\ \A c \in readers : c <= MaxOf(readers)
  <2> SUFFICES ASSUME readers # {} PROVE \E m \in readers : \A c \in readers : c <= m
    BY Zenon DEF MaxOf
  <2>1. readers \subseteq 0 .. NodeCount(graph)
    BY <1>3
  <2> HIDE DEF readers
  <2>2. QED
    BY <2>1, <1>1, GreatestNatural
<1> HIDE DEF readers, first
<1>6. /\ last \in Nat /\ first <= last
      /\ \A c \in readers : c <= last
      /\ t \in graph.outputs => last = NodeCount(graph) + 1
  BY <1>1, <1>2, <1>3, <1>5 DEF GRAPH_END_EXTRA
<1> HIDE DEF last
<1>7. life.first = first /\ life.last = last /\ life \in Lives
  BY <1>2, <1>4, <1>6 DEF Lives
<1> HIDE DEF life
<1>8. QED
  BY <1>2, <1>6, <1>7 DEF life, readers

\* A tensor that node i or a later one needs is alive at node i.
LEMMA NeededAlive ==
  ASSUME GraphOK, NEW i \in Steps(graph), NEW t, NeededAt(t, i)
  PROVE  /\ t \in 0 .. NodeCount(graph) /\ t \in 0 .. i
         /\ AnalyzeLifetimes(graph)[t].first <= i
         /\ i <= AnalyzeLifetimes(graph)[t].last
<1>1. /\ t \in 0 .. i /\ i \in Nat /\ i < NodeCount(graph) /\ NodeCount(graph) \in Nat
  BY GraphFacts DEF NeededAt, Steps
<1>2. t \in 0 .. NodeCount(graph)
  BY <1>1
<1> DEFINE life == AnalyzeLifetimes(graph)[t]
<1>3. /\ life \in Lives
      /\ life.first = IF t = 0 THEN 0 ELSE t - 1
      /\ \A c \in Consumers(graph, t) : c <= life.last
      /\ t \in graph.outputs => life.last = NodeCount(graph) + 1
  BY <1>2, AnalyzeFacts
<1>4. life.first \in Nat /\ life.last \in Nat
  BY <1>3 DEF Lives
<1> HIDE DEF life
<1>5. i <= life.last
  <2>1. CASE t \in graph.outputs
    BY <2>1, <1>1, <1>3
  <2>2. CASE t \notin graph.outputs
    <3>1. PICK c \in Consumers(graph, t) : c >= i
      BY <2>2 DEF NeededAt
    <3>2. c \in Nat
      BY ReadersAreLater
    <3>3. QED
      BY <1>1, <1>3, <1>4, <3>1, <3>2
  <2>3. QED
    BY <2>1, <2>2
<1>6. life.first <= i
  BY <1>1, <1>3, <1>4
<1>7. QED
  BY <1>1, <1>2, <1>5, <1>6 DEF life

\* The output of node i is alive at node i.
LEMMA OutputAlive ==
  ASSUME GraphOK, NEW i \in Steps(graph)
  PROVE  AnalyzeLifetimes(graph)[i + 1].first <= i /\ i <= AnalyzeLifetimes(graph)[i + 1].last
<1> DEFINE life == AnalyzeLifetimes(graph)[i + 1]
<1>1. i \in Nat /\ i + 1 \in 0 .. NodeCount(graph)
  BY NodeFacts
<1>2. life \in Lives /\ life.first <= life.last /\ life.first = i
  BY <1>1, AnalyzeFacts
<1>3. QED
  BY <1>1, <1>2 DEF Lives

-----------------------------------------------------------------------------
(* The graph grows node by node.                                           *)

\* What a new last node changes.
LEMMA GraphGrows ==
  ASSUME GraphOK, NEW node \in NodeRecords, NEW g,
         g = [graph EXCEPT !.nodes = Append(@, node)]
  PROVE  /\ g \in Graphs
         /\ g.bytes = graph.bytes /\ g.outputs = graph.outputs
         /\ NodeCount(g) = NodeCount(graph) + 1
         /\ Steps(g) = Steps(graph) \cup {NodeCount(graph)}
         /\ TensorIds(g) = 0 .. NodeCount(graph) + 1
         /\ \A i \in Steps(graph) : NodeAt(g, i) = NodeAt(graph, i)
         /\ NodeAt(g, NodeCount(graph)) = node
         /\ \A t \in 0 .. NodeCount(graph) : Bytes(g, t) = Bytes(graph, t)
         /\ Bytes(g, NodeCount(graph) + 1) = node.bytes
<1> DEFINE Node == NodeRecords
           n == NodeCount(graph)
<1>1. /\ graph \in Graphs /\ graph.inputs = 1 /\ graph.nodes \in Seq(Node)
      /\ Len(graph.nodes) \in Nat
  BY DEF GraphOK, Graphs
<1>2. /\ g.nodes = Append(graph.nodes, node)
      /\ g.inputs = 1 /\ g.bytes = graph.bytes /\ g.outputs = graph.outputs
      /\ g.alloc_input = graph.alloc_input /\ g.alloc_output = graph.alloc_output
  BY <1>1 DEF Graphs
<1> HIDE DEF Node
<1>3. /\ g.nodes \in Seq(Node) /\ Len(g.nodes) = Len(graph.nodes) + 1
      /\ \A k \in 1 .. Len(graph.nodes) : g.nodes[k] = graph.nodes[k]
      /\ g.nodes[Len(graph.nodes) + 1] = node
  BY <1>1, <1>2 DEF Node
<1>4. g \in Graphs
  BY <1>1, <1>2, <1>3 DEF Graphs, Node
<1>5. NodeCount(g) = n + 1 /\ n \in Nat /\ n = Len(graph.nodes)
  BY <1>1, <1>3 DEF NodeCount
<1>6. Steps(g) = Steps(graph) \cup {n} /\ TensorIds(g) = 0 .. n + 1
  BY <1>2, <1>5 DEF Steps, TensorIds
<1>7. \A i \in Steps(graph) : i + 1 \in 1 .. n
  BY <1>5 DEF Steps
<1>8. (\A i \in Steps(graph) : NodeAt(g, i) = NodeAt(graph, i)) /\ NodeAt(g, n) = node
  BY <1>3, <1>5, <1>7 DEF NodeAt
<1>9. ASSUME NEW t \in 0 .. n PROVE Bytes(g, t) = Bytes(graph, t)
  <2>1. CASE t < 1
    BY <2>1, <1>1, <1>2 DEF Bytes
  <2>2. CASE ~(t < 1)
    <3>1. t - 1 + 1 \in 1 .. n
      BY <2>2, <1>5
    <3>2. QED
      BY <2>2, <3>1, <1>1, <1>2, <1>3, <1>5 DEF Bytes
  <2>3. QED
    BY <2>1, <2>2
<1>10. Bytes(g, n + 1) = node.bytes
  <2>1. (n + 1) - 1 + 1 = n + 1 /\ ~(n + 1 < 1)
    BY <1>5
  <2>2. QED
    BY <2>1, <1>2, <1>3, <1>5 DEF Bytes
<1>11. QED
  BY <1>2, <1>4, <1>5, <1>6, <1>8, <1>9, <1>10

\* What is fine of a node only depends on it and on the sizes of what it reads.
LEMMA SameNodeOK ==
  ASSUME GraphOK, NEW i \in Steps(graph), NEW g,
         NodeAt(g, i) = NodeAt(graph, i),
         \A x \in 0 .. i : Bytes(g, x) = Bytes(graph, x)
  PROVE  NodeOK(g, i)
<1>1. /\ NodeAt(graph, i).ins[1] \in 0 .. i
      /\ NodeAt(graph, i).op = "Concat" => NodeAt(graph, i).ins[2] \in 0 .. i
  BY NodeFacts
<1>2. NodeOK(graph, i)
  BY DEF GraphOK
<1>3. /\ \E x, y \in 0 .. i : NodeAt(g, i).ins =
           IF NodeAt(g, i).op \in UnaryOps THEN <<x>> ELSE <<x, y>>
      /\ NodeAt(g, i).bytes \in Nat \ {0} /\ NodeAt(g, i).bytes % CELL = 0
  BY <1>2, Zenon DEF NodeOK
<1>4. /\ NodeAt(g, i).op \in INPLACE_SHAPE_ONLY_OPS \cup INPLACE_ELEMENTWISE_OPS =>
           NodeAt(g, i).bytes = Bytes(g, NodeAt(g, i).ins[1])
      /\ NodeAt(g, i).op = "Concat" =>
           NodeAt(g, i).bytes =
             Bytes(g, NodeAt(g, i).ins[1]) + Bytes(g, NodeAt(g, i).ins[2])
  BY <1>1, <1>2, Zenon DEF NodeOK
<1>5. QED
  BY <1>3, <1>4, Zenon DEF NodeOK

LEMMA AddNodeGraphInv ==
  ASSUME GraphInv, AddNode
  PROVE  GraphInv'
<1> DEFINE n == NodeCount(graph)
<1>1. GraphOK /\ MeaningOK
  BY DEF GraphInv
<1>2. /\ n \in Nat /\ TensorIds(graph) = 0 .. n /\ OutOf(graph, n) = n + 1
      /\ \A t \in 0 .. n : Bytes(graph, t) \in Nat \ {0} /\ Bytes(graph, t) % CELL = 0
  BY <1>1, GraphFacts
<1>3. PICK op \in family.ops, x \in TensorIds(graph), y \in TensorIds(graph), b \in family.sizes :
        LET inBytes == Bytes(graph, x)
            bytes == IF op = "Conv" THEN b
                     ELSE IF op = "Concat" THEN inBytes + Bytes(graph, y)
                     ELSE inBytes
            ins == IF op \in UnaryOps THEN <<x>> ELSE <<x, y>>
        IN  /\ op \in UnaryOps => y = x
            /\ op # "Conv" => b = CHOOSE s \in family.sizes : TRUE
            /\ op = "Add" => x < y /\ Bytes(graph, y) = inBytes
            /\ graph' = [graph EXCEPT !.nodes =
                 Append(@, [op |-> op, bytes |-> bytes, ins |-> ins])]
            /\ meaning' = Append(meaning,
                 CASE op \in INPLACE_SHAPE_ONLY_OPS -> meaning[x + 1]
                   [] op = "Concat" -> meaning[x + 1] \o meaning[y + 1]
                   [] OTHER -> NewCells(OutOf(graph, NodeCount(graph)), bytes))
  BY Zenon DEF AddNode
<1> DEFINE bytes == IF op = "Conv" THEN b
                    ELSE IF op = "Concat" THEN Bytes(graph, x) + Bytes(graph, y)
                    ELSE Bytes(graph, x)
           ins == IF op \in UnaryOps THEN <<x>> ELSE <<x, y>>
           node == [op |-> op, bytes |-> bytes, ins |-> ins]
           cells == CASE op \in INPLACE_SHAPE_ONLY_OPS -> meaning[x + 1]
                      [] op = "Concat" -> meaning[x + 1] \o meaning[y + 1]
                      [] OTHER -> NewCells(OutOf(graph, n), bytes)
<1>4. /\ graph' = [graph EXCEPT !.nodes = Append(@, node)]
      /\ meaning' = Append(meaning, cells)
  BY <1>3
<1>5. family \in Families /\ family' = family /\ n < family.maxNodes /\ family.maxNodes \in Nat
      /\ b \in Nat \ {0} /\ b % CELL = 0
  BY <1>1, ExecutionAssumption DEF AddNode, GraphOK
<1>6. x \in 0 .. n /\ y \in 0 .. n
  BY <1>2
<1>7. bytes \in Nat \ {0} /\ bytes % CELL = 0
  <2> DEFINE bx == Bytes(graph, x)
             by == Bytes(graph, y)
  <2>1. bx \in Nat \ {0} /\ bx % CELL = 0 /\ by \in Nat \ {0} /\ by % CELL = 0
    BY <1>2, <1>6
  <2> HIDE DEF bx, by
  <2>2. bx + by \in Nat \ {0} /\ (bx + by) % CELL = 0
    BY <2>1, CellArithmetic
  <2>3. bytes = b \/ bytes = bx + by \/ bytes = bx
    BY DEF bx, by
  <2> HIDE DEF bytes
  <2>4. QED
    BY <2>1, <2>2, <2>3, <1>5
<1>8. node \in NodeRecords
  <2>1. op \in AllOps
    BY <1>5 DEF AllOps
  <2>2. ins \in Seq(Nat)
    BY <1>6
  <2> HIDE DEF bytes, ins
  <2>3. QED
    BY <2>1, <2>2, <1>7 DEF NodeRecords
<1>9. /\ node.op = op /\ node.bytes = bytes /\ node.ins = ins
      /\ ins[1] = x /\ (op \notin UnaryOps => ins[2] = y)
  OBVIOUS
<1> HIDE DEF node
<1>10. /\ graph' \in Graphs
       /\ graph'.bytes = graph.bytes /\ graph'.outputs = graph.outputs
       /\ NodeCount(graph') = n + 1
       /\ Steps(graph') = Steps(graph) \cup {n}
       /\ TensorIds(graph') = 0 .. n + 1
       /\ \A i \in Steps(graph) : NodeAt(graph', i) = NodeAt(graph, i)
       /\ NodeAt(graph', n) = node
       /\ \A t \in 0 .. n : Bytes(graph', t) = Bytes(graph, t)
       /\ Bytes(graph', n + 1) = bytes
  <2>1. /\ GraphOK /\ node \in NodeRecords
        /\ graph' = [graph EXCEPT !.nodes = Append(@, node)]
    BY <1>1, <1>4, <1>8
  <2> HIDE DEF n
  <2>2. QED
    BY <2>1, <1>9, GraphGrows DEF n
<1>11. \A i \in Steps(graph) : NodeOK(graph', i)
  <2> SUFFICES ASSUME NEW i \in Steps(graph) PROVE NodeOK(graph', i)
    OBVIOUS
  <2>1. \A z \in 0 .. i : z \in 0 .. n
    BY <1>2 DEF Steps
  <2>2. QED
    BY <2>1, <1>1, <1>10, SameNodeOK
<1>12. NodeOK(graph', n)
  <2>1. \E p, q \in 0 .. n : ins = IF op \in UnaryOps THEN <<p>> ELSE <<p, q>>
    BY <1>6
  <2>2. /\ op \in INPLACE_SHAPE_ONLY_OPS \cup INPLACE_ELEMENTWISE_OPS => bytes = Bytes(graph, x)
        /\ op = "Concat" => bytes = Bytes(graph, x) + Bytes(graph, y) /\ op \notin UnaryOps
    BY DEF INPLACE_SHAPE_ONLY_OPS, INPLACE_ELEMENTWISE_OPS, UnaryOps
  <2>3. Bytes(graph', x) = Bytes(graph, x) /\ Bytes(graph', y) = Bytes(graph, y)
    BY <1>6, <1>10
  <2> HIDE DEF bytes, ins
  <2>4. QED
    BY <2>1, <2>2, <2>3, <1>7, <1>9, <1>10 DEF NodeOK
<1>13. GraphOK'
  <2>1. \A i \in Steps(graph') : NodeOK(graph', i)
    BY <1>10, <1>11, <1>12
  <2>2. n + 1 <= family'.maxNodes /\ graph'.outputs \subseteq 1 .. n + 1
    BY <1>1, <1>2, <1>5, <1>10 DEF GraphOK
  <2>3. Len(graph'.bytes) = 1 /\ graph'.bytes[1] % CELL = 0 /\ family' \in Families
    BY <1>1, <1>5, <1>10 DEF GraphOK
  <2>4. QED
    BY <2>1, <2>2, <2>3, <1>10 DEF GraphOK
<1> DEFINE Cell == Nat \X Nat
           Rows == Seq(Cell)
<1>14. /\ meaning \in Seq(Rows) /\ Len(meaning) = n + 1
       /\ \A t \in 0 .. n : Len(meaning[t + 1]) = Bytes(graph, t) \div CELL
  BY <1>1, <1>2 DEF MeaningOK
<1>15. /\ NewCells(n + 1, bytes) \in Rows
       /\ Len(NewCells(n + 1, bytes)) = bytes \div CELL
  <2>1. bytes \div CELL \in Nat
    BY <1>7, CellArithmetic
  <2> HIDE DEF bytes
  <2> DEFINE m == bytes \div CELL
  <2>2. NewCells(n + 1, bytes) = [k \in 1 .. m |-> <<n + 1, k - 1>>]
    BY DEF NewCells
  <2>3. \A k \in 1 .. m : <<n + 1, k - 1>> \in Cell
    BY <1>2, <2>1
  <2> HIDE DEF m, Cell
  <2>4. NewCells(n + 1, bytes) \in [1 .. m -> Cell]
    BY <2>2, <2>3
  <2>5. QED
    BY <2>1, <2>4, IsASeq, LenProperties DEF m
<1>16. \A t \in 0 .. n : meaning[t + 1] \in Rows
  <2> HIDE DEF Rows
  <2>1. \A t \in 0 .. n : t + 1 \in 1 .. Len(meaning)
    BY <1>2, <1>14
  <2>2. QED
    BY <2>1, <1>14, ElementOfSeq
<1>17. cells \in Rows /\ Len(cells) = bytes \div CELL
  <2>1. CASE op \in INPLACE_SHAPE_ONLY_OPS
    <3>1. cells = meaning[x + 1] /\ bytes = Bytes(graph, x)
      BY <2>1 DEF INPLACE_SHAPE_ONLY_OPS
    <3> HIDE DEF cells, bytes
    <3>2. QED
      BY <3>1, <1>6, <1>14, <1>16
  <2>2. CASE op = "Concat"
    <3>1. cells = meaning[x + 1] \o meaning[y + 1]
          /\ bytes = Bytes(graph, x) + Bytes(graph, y)
      BY <2>2 DEF INPLACE_SHAPE_ONLY_OPS
    <3>2. /\ cells \in Rows
          /\ Len(cells) = Len(meaning[x + 1]) + Len(meaning[y + 1])
      <4> HIDE DEF Cell, cells
      <4>1. meaning[x + 1] \in Seq(Cell) /\ meaning[y + 1] \in Seq(Cell)
        BY <1>6, <1>16
      <4>2. QED
        BY <3>1, <4>1, ConcatProperties
    <3>3. /\ Len(meaning[x + 1]) = Bytes(graph, x) \div CELL
          /\ Len(meaning[y + 1]) = Bytes(graph, y) \div CELL
          /\ Bytes(graph, x) \in Nat /\ Bytes(graph, x) % CELL = 0
          /\ Bytes(graph, y) \in Nat /\ Bytes(graph, y) % CELL = 0
      BY <1>2, <1>6, <1>14
    <3> HIDE DEF cells, bytes
    <3>4. QED
      BY <3>1, <3>2, <3>3, CellArithmetic
  <2>3. CASE op \notin INPLACE_SHAPE_ONLY_OPS /\ op # "Concat"
    BY <2>3, <1>2, <1>15
  <2>4. QED
    BY <2>1, <2>2, <2>3
<1> HIDE DEF Rows
<1>18. /\ meaning' \in Seq(Rows) /\ Len(meaning') = n + 2
       /\ \A t \in 0 .. n : meaning'[t + 1] = meaning[t + 1]
       /\ meaning'[n + 2] = cells
  <2> HIDE DEF cells
  <2>1. /\ meaning' \in Seq(Rows) /\ Len(meaning') = Len(meaning) + 1
        /\ \A k \in 1 .. Len(meaning) : meaning'[k] = meaning[k]
        /\ meaning'[Len(meaning) + 1] = cells
    BY <1>4, <1>14, <1>17, AppendProperties
  <2>2. \A t \in 0 .. n : t + 1 \in 1 .. Len(meaning)
    BY <1>2, <1>14
  <2>3. Len(meaning) + 1 = n + 2
    BY <1>2, <1>14
  <2>4. QED
    BY <2>1, <2>2, <2>3
<1>19. MeaningOK'
  <2>1. \A t \in 0 .. n + 1 : Len(meaning'[t + 1]) = Bytes(graph', t) \div CELL
    <3> SUFFICES ASSUME NEW t \in 0 .. n + 1
                 PROVE  Len(meaning'[t + 1]) = Bytes(graph', t) \div CELL
      OBVIOUS
    <3>1. CASE t \in 0 .. n
      BY <3>1, <1>10, <1>14, <1>18
    <3>2. CASE t \notin 0 .. n
      <4>1. t = n + 1 /\ t + 1 = n + 2
        BY <3>2, <1>2
      <4> HIDE DEF cells, bytes
      <4>2. QED
        BY <4>1, <1>10, <1>17, <1>18
    <3>3. QED
      BY <3>1, <3>2
  <2> DEFINE Made(i) ==
        LET nd == NodeAt(graph', i)
        IN  /\ nd.op \in INPLACE_SHAPE_ONLY_OPS => meaning'[i + 2] = meaning'[nd.ins[1] + 1]
            /\ nd.op = "Concat" =>
                 meaning'[i + 2] = meaning'[nd.ins[1] + 1] \o meaning'[nd.ins[2] + 1]
  <2>2. ASSUME NEW i \in Steps(graph) PROVE Made(i)
    <3>1. /\ NodeAt(graph', i) = NodeAt(graph, i)
          /\ NodeAt(graph, i).ins[1] \in 0 .. n
          /\ NodeAt(graph, i).op = "Concat" => NodeAt(graph, i).ins[2] \in 0 .. n
      <4>1. \A z \in 0 .. i : z \in 0 .. n
        BY <1>2 DEF Steps
      <4>2. QED
        BY <4>1, <1>1, <1>10, NodeFacts
    <3>2. i + 1 \in 0 .. n /\ (i + 1) + 1 = i + 2
      BY <1>2 DEF Steps
    <3>3. meaning'[i + 2] = meaning[i + 2]
      BY <3>2, <1>18
    <3>4. /\ NodeAt(graph, i).op \in INPLACE_SHAPE_ONLY_OPS =>
               meaning[i + 2] = meaning[NodeAt(graph, i).ins[1] + 1]
          /\ NodeAt(graph, i).op = "Concat" =>
               meaning[i + 2] = meaning[NodeAt(graph, i).ins[1] + 1]
                                \o meaning[NodeAt(graph, i).ins[2] + 1]
      BY <1>1 DEF MeaningOK
    <3>5. QED
      BY <3>1, <3>3, <3>4, <1>18
  <2>3. Made(n)
    <3>1. meaning'[x + 1] = meaning[x + 1] /\ meaning'[y + 1] = meaning[y + 1]
      BY <1>6, <1>18
    <3>2. NodeAt(graph', n).op = op /\ NodeAt(graph', n).ins[1] = x
      BY <1>9, <1>10
    <3>3. op = "Concat" => NodeAt(graph', n).ins[2] = y /\ op \notin INPLACE_SHAPE_ONLY_OPS
      BY <1>9, <1>10 DEF UnaryOps, INPLACE_SHAPE_ONLY_OPS, INPLACE_ELEMENTWISE_OPS
    <3>4. QED
      BY <3>1, <3>2, <3>3, <1>18
  <2>4. \A i \in Steps(graph') : Made(i)
    BY <2>2, <2>3, <1>10
  <2>5. NodeCount(graph') + 1 = n + 2 /\ TensorIds(graph') = 0 .. n + 1
    BY <1>2, <1>10
  <2>6. QED
    BY <2>1, <2>4, <2>5, <1>18 DEF MeaningOK, Rows
<1>20. QED
  BY <1>13, <1>19 DEF GraphInv

\* Choosing the outputs changes nothing else.
LEMMA SealGraphInv ==
  ASSUME GraphInv, Seal
  PROVE  /\ GraphInv'
         /\ NodeCount(graph') = NodeCount(graph) /\ TensorIds(graph') = TensorIds(graph)
<1>1. GraphOK /\ MeaningOK
  BY DEF GraphInv
<1>2. PICK outs \in SUBSET (TensorIds(graph) \ InputIds(graph)) :
        graph' = [graph EXCEPT !.outputs = outs]
  BY DEF Seal
<1>3. family' = family /\ meaning' = meaning
  BY DEF Seal, execVars
<1> DEFINE Nodes == Seq(NodeRecords)
           Sizes == Seq(Nat \ {0})
<1>4. graph \in [inputs : {1}, nodes : Nodes, bytes : Sizes,
                 outputs : SUBSET Nat, alloc_input : BOOLEAN, alloc_output : BOOLEAN]
  BY <1>1 DEF GraphOK, Graphs
<1>5. outs \subseteq 1 .. NodeCount(graph) /\ outs \subseteq Nat
  <2>1. /\ TensorIds(graph) = 0 .. NodeCount(graph) /\ InputIds(graph) = {0}
        /\ NodeCount(graph) \in Nat
    BY <1>1, GraphFacts
  <2>2. \A t \in 0 .. NodeCount(graph) : t # 0 => t \in 1 .. NodeCount(graph) /\ t \in Nat
    BY <2>1
  <2>3. QED
    BY <1>2, <2>1, <2>2
<1> HIDE DEF Nodes, Sizes
<1>6. /\ graph'.inputs = graph.inputs /\ graph'.nodes = graph.nodes
      /\ graph'.bytes = graph.bytes /\ graph'.outputs = outs
      /\ graph' \in [inputs : {1}, nodes : Nodes, bytes : Sizes,
                     outputs : SUBSET Nat, alloc_input : BOOLEAN, alloc_output : BOOLEAN]
  BY <1>2, <1>4, <1>5
<1>7. graph' \in Graphs
  BY <1>6 DEF Graphs, Nodes, Sizes
<1>8. /\ NodeCount(graph') = NodeCount(graph) /\ Steps(graph') = Steps(graph)
      /\ TensorIds(graph') = TensorIds(graph)
      /\ \A i : NodeAt(graph', i) = NodeAt(graph, i)
      /\ \A t : Bytes(graph', t) = Bytes(graph, t)
  BY <1>6, Zenon DEF NodeCount, Steps, TensorIds, NodeAt, Bytes
<1>9. \A i \in Steps(graph') : NodeOK(graph', i)
  BY <1>1, <1>8, SameNodeOK
<1>10. GraphOK'
  <2>1. /\ Len(graph'.bytes) = 1 /\ graph'.bytes[1] % CELL = 0 /\ family' \in Families
        /\ NodeCount(graph') <= family'.maxNodes
    BY <1>1, <1>3, <1>6, <1>8 DEF GraphOK
  <2>2. graph'.outputs \subseteq 1 .. NodeCount(graph')
    BY <1>5, <1>6, <1>8
  <2>3. QED
    BY <2>1, <2>2, <1>7, <1>9, Zenon DEF GraphOK
<1>11. MeaningOK'
  BY <1>1, <1>3, <1>8, Zenon DEF MeaningOK
<1>12. QED
  BY <1>8, <1>10, <1>11 DEF GraphInv

LEMMA InitGraphInv == Init => GraphInv
<1> SUFFICES ASSUME Init PROVE GraphInv
  OBVIOUS
<1>1. PICK b \in family.sizes, ai \in family.allocFlags, ao \in family.allocFlags :
        /\ graph = [inputs |-> 1, nodes |-> << >>, bytes |-> <<b>>, outputs |-> {},
                    alloc_input |-> ai, alloc_output |-> ao]
        /\ meaning = <<NewCells(0, b)>>
  BY DEF Init
<1>2. /\ family \in Families /\ family.maxNodes \in Nat
      /\ b \in Nat \ {0} /\ b % CELL = 0 /\ ai \in BOOLEAN /\ ao \in BOOLEAN
  BY ExecutionAssumption DEF Init
<1> DEFINE Nodes == Seq(NodeRecords)
           Sizes == Seq(Nat \ {0})
           Cell == Nat \X Nat
           Rows == Seq(Cell)
<1>3. << >> \in Nodes /\ Len(<< >>) = 0
  OBVIOUS
<1>4. <<b>> \in Sizes /\ Len(<<b>>) = 1 /\ <<b>>[1] = b
  BY <1>2
<1> HIDE DEF Nodes, Sizes
<1>5. graph \in [inputs : {1}, nodes : Nodes, bytes : Sizes,
                 outputs : SUBSET Nat, alloc_input : BOOLEAN, alloc_output : BOOLEAN]
  BY <1>1, <1>2, <1>3, <1>4
<1>6. graph.nodes = << >> /\ graph.bytes = <<b>> /\ graph.outputs = {} /\ graph.inputs = 1
  BY <1>1
<1>7. NodeCount(graph) = 0 /\ Steps(graph) = {} /\ TensorIds(graph) = {0}
  BY <1>3, <1>6 DEF NodeCount, Steps, TensorIds
<1>8. GraphOK
  BY <1>2, <1>4, <1>5, <1>6, <1>7 DEF GraphOK, Graphs, Nodes, Sizes
<1>9. NewCells(0, b) \in Rows /\ Len(NewCells(0, b)) = b \div CELL
  <2> DEFINE m == b \div CELL
  <2>1. m \in Nat
    BY <1>2, CellArithmetic
  <2>2. NewCells(0, b) = [k \in 1 .. m |-> <<0, k - 1>>]
    BY DEF NewCells
  <2>3. \A k \in 1 .. m : <<0, k - 1>> \in Cell
    BY <2>1
  <2> HIDE DEF m, Cell
  <2>4. NewCells(0, b) \in [1 .. m -> Cell]
    BY <2>2, <2>3
  <2>5. QED
    BY <2>1, <2>4, IsASeq, LenProperties DEF m
<1> HIDE DEF Rows
<1>10. meaning \in Seq(Rows) /\ Len(meaning) = 1 /\ meaning[1] = NewCells(0, b)
  BY <1>1, <1>9
<1>11. Bytes(graph, 0) = b
  BY <1>6 DEF Bytes
<1>12. MeaningOK
  BY <1>7, <1>9, <1>10, <1>11 DEF MeaningOK, Rows
<1>13. QED
  BY <1>8, <1>12 DEF GraphInv

-----------------------------------------------------------------------------
(* Parts of the state that a step leaves alone.                            *)

LEMMA GraphFrame ==
  ASSUME GraphInv, UNCHANGED <<graph, family, meaning>>
  PROVE  GraphInv'
BY Zenon DEF GraphInv, GraphOK, MeaningOK

LEMMA InplaceFrame ==
  ASSUME InplaceOK, UNCHANGED <<graph, inplace>>
  PROVE  InplaceOK'
BY Zenon DEF InplaceOK

LEMMA ConcatFrame ==
  ASSUME ConcatOK, UNCHANGED <<graph, concat>>
  PROVE  ConcatOK'
BY Zenon DEF ConcatOK, PlaceInConcat

LEMMA LivesFrame ==
  ASSUME LivesOK, UNCHANGED <<graph, inplace, concat, lives>>
  PROVE  LivesOK'
BY Zenon DEF LivesOK, Owner, Root

\* Nothing runs before the plan is accepted.
LEMMA ContextFrame ==
  ASSUME ContextOK, phase # "run", NodeCount(graph') \in Nat,
         UNCHANGED <<memory, run, ip, misread>>
  PROVE  ContextOK'
<1>1. /\ memory' = << >> /\ run' = 0 /\ ip' = -1 /\ misread' = FALSE
      /\ run' \in 0 .. MaxRuns
  BY DEF ContextOK
<1>2. ip' \in -1 .. NodeCount(graph') /\ ~(ip' >= 0)
  BY <1>1
<1>3. QED
  BY <1>1, <1>2, Zenon DEF ContextOK

-----------------------------------------------------------------------------
(* Aliases and the lives of their storage.                                 *)

LEMMA WidenCovers ==
  ASSUME NEW a \in Lives, NEW b \in Lives, a.first <= a.last, b.first <= b.last
  PROVE  /\ Widen(a, b) \in Lives
         /\ Widen(a, b).first <= Widen(a, b).last
         /\ Covers(Widen(a, b), a) /\ Covers(Widen(a, b), b)
BY DEF Widen, Covers, Lives

LEMMA CoversTransitive ==
  ASSUME NEW a \in Lives, NEW b \in Lives, NEW c \in Lives, Covers(a, b), Covers(b, c)
  PROVE  Covers(a, c)
BY DEF Covers, Lives

LEMMA CoversItself == \A a \in Lives : Covers(a, a)
BY DEF Covers, Lives

\* The storage and the owner of a tensor are tensors of the graph.
LEMMA RootsAndOwners ==
  ASSUME GraphOK, InplaceOK, ConcatOK, NEW t \in 0 .. NodeCount(graph)
  PROVE  /\ Root(inplace, t) \in 0 .. t
         /\ Root(inplace, t) \in 0 .. NodeCount(graph)
         /\ Root(inplace, t) \notin DOMAIN inplace
         /\ Bytes(graph, Root(inplace, t)) = Bytes(graph, t)
         /\ ShouldAllocate(graph, t) => ShouldAllocate(graph, Root(inplace, t))
         /\ Owner(t) \in 0 .. NodeCount(graph)
<1>1. NodeCount(graph) \in Nat
  BY GraphFacts
<1> DEFINE r == Root(inplace, t)
<1>2. /\ r \in 0 .. t /\ r \in 0 .. NodeCount(graph) /\ r \notin DOMAIN inplace
      /\ Bytes(graph, r) = Bytes(graph, t)
      /\ ShouldAllocate(graph, t) => ShouldAllocate(graph, r)
  <2>1. CASE t \in DOMAIN inplace
    <3>1. r = inplace[t]
      BY <2>1 DEF Root
    <3>2. /\ inplace[t] \in 0 .. t - 1 /\ inplace[t] \notin DOMAIN inplace
          /\ ShouldAllocate(graph, inplace[t])
          /\ Bytes(graph, inplace[t]) = Bytes(graph, t)
      BY <2>1 DEF InplaceOK
    <3> HIDE DEF r
    <3>3. QED
      BY <3>1, <3>2, <1>1
  <2>2. CASE t \notin DOMAIN inplace
    <3>1. r = t
      BY <2>2 DEF Root
    <3> HIDE DEF r
    <3>2. QED
      BY <2>2, <3>1, <1>1
  <2>3. QED
    BY <2>1, <2>2
<1>3. Owner(t) = IF r \in DOMAIN concat THEN concat[r].parent ELSE r
  BY DEF Owner
<1> HIDE DEF r
<1>4. \A x \in DOMAIN concat : concat[x].parent \in 0 .. NodeCount(graph)
  BY <1>1 DEF ConcatOK
<1>5. Owner(t) \in 0 .. NodeCount(graph)
  BY <1>2, <1>3, <1>4
<1>6. QED
  BY <1>2, <1>5 DEF r

\* Widening the life of one tensor keeps every owner alive as long as before.
LEMMA WidenedLives ==
  ASSUME NEW ls \in [TensorIds(graph) -> Lives], \A t \in TensorIds(graph) : ls[t].first <= ls[t].last,
         NEW x \in TensorIds(graph), NEW new \in Lives, new.first <= new.last,
         Covers(new, ls[x])
  PROVE  /\ [ls EXCEPT ![x] = new] \in [TensorIds(graph) -> Lives]
         /\ \A t \in TensorIds(graph) : [ls EXCEPT ![x] = new][t].first <= [ls EXCEPT ![x] = new][t].last
         /\ \A t \in TensorIds(graph) : Covers([ls EXCEPT ![x] = new][t], ls[t])
         /\ [ls EXCEPT ![x] = new][x] = new
<1>1. \A t \in TensorIds(graph) : [ls EXCEPT ![x] = new][t] = IF t = x THEN new ELSE ls[t]
  OBVIOUS
<1>2. \A t \in TensorIds(graph) : Covers(ls[t], ls[t])
  BY CoversItself
<1>3. QED
  BY <1>1, <1>2

\* One visit of the in-place loop.
LEMMA VisitInplaceInv ==
  ASSUME GraphOK, AliasInv, LivesOK, VisitInplace
  PROVE  AliasInv' /\ LivesOK'
<1> DEFINE n == NodeCount(graph)
           i == visited
           out == i + 1
           in == NodeAt(graph, i).ins[1]
           src == Root(inplace, in)
<1>1. /\ StageOK /\ InplaceOK /\ ConcatOK
      /\ phase = "inplace" /\ concat = << >> /\ DOMAIN inplace \subseteq 1 .. visited
      /\ phase' = phase /\ concat' = concat /\ graph' = graph /\ offsets' = offsets
      /\ UNCHANGED packVars /\ visited' = visited + 1
  BY DEF AliasInv, StageOK, VisitInplace, NotPlanned
<1>2. /\ n \in Nat /\ i \in Nat /\ i \in Steps(graph) /\ out \in 0 .. n /\ TensorIds(graph) = 0 .. n
      /\ OutOf(graph, i) = out
  <2>1. n \in Nat /\ visited \in 0 .. n /\ visited < n /\ TensorIds(graph) = 0 .. n
    BY <1>1, GraphFacts DEF StageOK, VisitInplace
  <2>2. OutOf(graph, i) = 1 + i
    BY GraphFacts
  <2>3. QED
    BY <2>1, <2>2 DEF Steps
<1>3. /\ in \in 0 .. i /\ in \in 0 .. n
      /\ NodeAt(graph, i).op \in INPLACE_SHAPE_ONLY_OPS \cup INPLACE_ELEMENTWISE_OPS =>
           Bytes(graph, out) = Bytes(graph, in)
  BY <1>2, NodeFacts
<1>4. /\ src \in 0 .. in /\ src \in 0 .. n /\ src \notin DOMAIN inplace
      /\ Bytes(graph, src) = Bytes(graph, in)
      /\ ShouldAllocate(graph, in) => ShouldAllocate(graph, src)
  BY <1>1, <1>3, RootsAndOwners
<1>5. ConcatOK'
  BY <1>1, ConcatFrame
<1>6. DOMAIN inplace' \subseteq 1 .. visited' => StageOK'
  <2>1. P!Init' /\ visited' \in 0 .. n
    BY <1>1, <1>2 DEF StageOK, NotPacked, NotPlanned, P!Init, packVars, P!NoRequest
  <2>2. QED
    BY <2>1, <1>1 DEF StageOK, Phases, NotPacked, NotPlanned, packVars
<1>7. CASE ~CanRunInPlace(graph, inplace, visited)
  <2>1. UNCHANGED <<inplace, lives>>
    BY <1>7 DEF VisitInplace
  <2>2. InplaceOK' /\ LivesOK'
    BY <2>1, <1>1, InplaceFrame, LivesFrame
  <2>3. DOMAIN inplace' \subseteq 1 .. visited'
    BY <2>1, <1>1, <1>2
  <2>4. QED
    BY <2>2, <2>3, <1>5, <1>6 DEF AliasInv
<1>8. CASE CanRunInPlace(graph, inplace, visited)
  <2>1. /\ inplace' = [t \in DOMAIN inplace \cup {out} |-> IF t = out THEN src ELSE inplace[t]]
        /\ lives' = InplaceLifetimes(lives, src, out)
    BY <1>2, <1>8 DEF VisitInplace
  <2>2. /\ NodeAt(graph, i).op \in INPLACE_SHAPE_ONLY_OPS \cup INPLACE_ELEMENTWISE_OPS
        /\ ShouldAllocate(graph, out) /\ ShouldAllocate(graph, in)
    BY <1>2, <1>8 DEF CanRunInPlace
  <2>3. out \notin DOMAIN inplace /\ out \notin 0 .. i
    BY <1>1, <1>2
  <2> HIDE DEF src
  <2>4. /\ DOMAIN inplace' = DOMAIN inplace \cup {out}
        /\ inplace'[out] = src
        /\ \A t \in DOMAIN inplace : inplace'[t] = inplace[t]
    BY <2>1, <2>3
  <2>5. DOMAIN inplace' \subseteq 1 .. visited'
    BY <2>4, <1>1, <1>2
  <2>6. \A t : t # out => Root(inplace', t) = Root(inplace, t)
    BY <2>4 DEF Root
  <2>7. \A t \in 0 .. i : t # out
    BY <2>3
  <2>8. InplaceOK'
    <3> SUFFICES ASSUME NEW t \in DOMAIN inplace'
                 PROVE  LET node == NodeAt(graph, t - 1)
                        IN  /\ t \in 1 .. n
                            /\ node.op \in INPLACE_SHAPE_ONLY_OPS \cup INPLACE_ELEMENTWISE_OPS
                            /\ ShouldAllocate(graph, t)
                            /\ inplace'[t] \in 0 .. t - 1
                            /\ inplace'[t] \notin DOMAIN inplace'
                            /\ ShouldAllocate(graph, inplace'[t])
                            /\ Bytes(graph, inplace'[t]) = Bytes(graph, t)
                            /\ inplace'[t] = Root(inplace', node.ins[1])
      BY <1>1 DEF InplaceOK
    <3>1. CASE t = out
      <4>1. t - 1 = i /\ t \in 1 .. n
        BY <3>1, <1>2
      <4>2. inplace'[t] = src /\ src \in 0 .. t - 1 /\ src \notin DOMAIN inplace'
        BY <3>1, <1>2, <1>3, <1>4, <2>3, <2>4
      <4>3. Root(inplace', in) = src
        BY <1>3, <2>6, <2>7 DEF src
      <4>4. ShouldAllocate(graph, src) /\ Bytes(graph, src) = Bytes(graph, t)
        BY <1>3, <1>4, <2>2, <3>1
      <4>5. QED
        BY <4>1, <4>2, <4>3, <4>4, <2>2, <3>1
    <3>2. CASE t # out
      <4>1. t \in DOMAIN inplace /\ inplace'[t] = inplace[t]
        BY <3>2, <2>4
      <4>2. /\ t \in 1 .. n
            /\ NodeAt(graph, t - 1).op \in INPLACE_SHAPE_ONLY_OPS \cup INPLACE_ELEMENTWISE_OPS
            /\ ShouldAllocate(graph, t)
            /\ inplace[t] \in 0 .. t - 1
            /\ inplace[t] \notin DOMAIN inplace
            /\ ShouldAllocate(graph, inplace[t])
            /\ Bytes(graph, inplace[t]) = Bytes(graph, t)
            /\ inplace[t] = Root(inplace, NodeAt(graph, t - 1).ins[1])
        BY <4>1, <1>1 DEF InplaceOK
      <4>3. t - 1 \in Steps(graph) /\ t <= i /\ t - 1 \in 0 .. i
        BY <4>1, <4>2, <1>1, <1>2 DEF Steps
      <4>4. NodeAt(graph, t - 1).ins[1] \in 0 .. t - 1
        BY <4>3, NodeFacts
      <4>5. NodeAt(graph, t - 1).ins[1] \in 0 .. i /\ inplace[t] \in 0 .. i
        BY <4>2, <4>3, <4>4, <1>2
      <4>6. Root(inplace', NodeAt(graph, t - 1).ins[1]) = Root(inplace, NodeAt(graph, t - 1).ins[1])
        BY <4>5, <2>6, <2>7
      <4>7. inplace[t] \notin DOMAIN inplace'
        BY <4>2, <4>5, <2>4, <2>7
      <4>8. QED
        BY <4>1, <4>2, <4>6, <4>7
    <3>3. QED
      BY <3>1, <3>2
  <2>9. LivesOK'
    <3>1. /\ lives \in [TensorIds(graph) -> Lives]
          /\ \A t \in TensorIds(graph) : lives[t].first <= lives[t].last
          /\ \A t \in TensorIds(graph) : Covers(lives[Owner(t)], AnalyzeLifetimes(graph)[t])
      BY DEF LivesOK
    <3>2. src \in TensorIds(graph) /\ out \in TensorIds(graph)
      BY <1>2, <1>4
    <3> DEFINE new == Widen(lives[src], lives[out])
    <3>3. /\ new \in Lives /\ new.first <= new.last
          /\ Covers(new, lives[src]) /\ Covers(new, lives[out])
      BY <3>1, <3>2, WidenCovers
    <3>4. lives' = [lives EXCEPT ![src] = new]
      BY <2>1 DEF InplaceLifetimes
    <3> HIDE DEF new
    <3>5. /\ lives' \in [TensorIds(graph) -> Lives]
          /\ \A t \in TensorIds(graph) : lives'[t].first <= lives'[t].last
          /\ \A t \in TensorIds(graph) : Covers(lives'[t], lives[t])
          /\ lives'[src] = new
      BY <3>1, <3>2, <3>3, <3>4, WidenedLives
    <3>6. \A t : Owner(t) = Root(inplace, t) /\ Owner(t)' = Root(inplace', t)
      BY <1>1 DEF Owner
    <3>7. ASSUME NEW t \in TensorIds(graph)
          PROVE  Covers(lives'[Owner(t)'], AnalyzeLifetimes(graph)[t])
      <4>1. Owner(t) \in TensorIds(graph)
        BY <1>1, <1>2, RootsAndOwners
      <4>2. AnalyzeLifetimes(graph)[t] \in Lives
        BY <1>2, AnalyzeFacts
      <4>3. Covers(lives[Owner(t)], AnalyzeLifetimes(graph)[t])
        BY <3>1
      <4>4. CASE t = out
        <5>1. Owner(t) = out /\ Owner(t)' = src
          BY <4>4, <3>6, <2>3, <2>4 DEF Root
        <5>2. QED
          BY <5>1, <4>2, <4>3, <3>1, <3>2, <3>3, <3>5, CoversTransitive
      <4>5. CASE t # out
        <5>1. Owner(t)' = Owner(t)
          BY <4>5, <3>6, <2>6
        <5>2. QED
          BY <5>1, <4>1, <4>2, <4>3, <3>1, <3>5, CoversTransitive
      <4>6. QED
        BY <4>4, <4>5
    <3>8. QED
      BY <3>5, <3>7, <1>1 DEF LivesOK
  <2>10. QED
    BY <2>5, <2>8, <2>9, <1>5, <1>6 DEF AliasInv
<1>9. QED
  BY <1>7, <1>8

\* One visit of the Concat loop.
LEMMA VisitConcatInv ==
  ASSUME GraphOK, AliasInv, LivesOK, VisitConcat
  PROVE  AliasInv' /\ LivesOK'
<1> DEFINE n == NodeCount(graph)
           i == visited
           out == i + 1
           ins == NodeAt(graph, i).ins
           x == ins[1]
           y == ins[2]
<1>1. /\ StageOK /\ InplaceOK /\ ConcatOK
      /\ phase = "concat" /\ \A t \in DOMAIN concat : concat[t].parent <= visited
      /\ phase' = phase /\ inplace' = inplace /\ graph' = graph /\ offsets' = offsets
      /\ UNCHANGED packVars /\ visited' = visited + 1
  BY DEF AliasInv, StageOK, VisitConcat, NotPlanned
<1>2. /\ n \in Nat /\ i \in Nat /\ i \in Steps(graph) /\ out \in 0 .. n /\ TensorIds(graph) = 0 .. n
      /\ OutOf(graph, i) = out
  <2>1. n \in Nat /\ visited \in 0 .. n /\ visited < n /\ TensorIds(graph) = 0 .. n
    BY <1>1, GraphFacts DEF StageOK, VisitConcat
  <2>2. OutOf(graph, i) = 1 + i
    BY GraphFacts
  <2>3. QED
    BY <2>1, <2>2 DEF Steps
<1>3. InplaceOK'
  BY <1>1, InplaceFrame
<1>4. (\A t \in DOMAIN concat' : concat'[t].parent <= visited') => StageOK'
  <2>1. P!Init' /\ visited' \in 0 .. n
    BY <1>1, <1>2 DEF StageOK, NotPacked, NotPlanned, P!Init, packVars, P!NoRequest
  <2>2. QED
    BY <2>1, <1>1 DEF StageOK, Phases, NotPacked, NotPlanned, packVars
<1>5. CASE ~CanAliasConcat(graph, concat, visited)
  <2>1. UNCHANGED <<concat, lives>>
    BY <1>5 DEF VisitConcat
  <2>2. ConcatOK' /\ LivesOK'
    BY <2>1, <1>1, ConcatFrame, LivesFrame
  <2>3. \A t \in DOMAIN concat' : concat'[t].parent <= visited'
    <3>1. \A t \in DOMAIN concat : concat[t].parent \in 1 .. n
      BY <1>1 DEF ConcatOK
    <3>2. QED
      BY <2>1, <3>1, <1>1, <1>2
  <2>4. QED
    BY <2>2, <2>3, <1>3, <1>4 DEF AliasInv
<1>6. CASE CanAliasConcat(graph, concat, visited)
  <2>1. /\ NodeAt(graph, i).op = "Concat"
        /\ ShouldAllocate(graph, out)
        /\ x \notin DOMAIN concat /\ y \notin DOMAIN concat
        /\ Bytes(graph, x) % 16 = 0
    BY <1>2, <1>6, PackBridge DEF CanAliasConcat
  <2>2. ToSet(ins) = {x, y} /\ x \in 0 .. i /\ y \in 0 .. i
    BY <1>2, <2>1, NodeFacts
  <2>3. /\ concat' = [t \in DOMAIN concat \cup {x, y} |->
                        IF t \in {x, y} THEN PlaceInConcat(graph, i, t) ELSE concat[t]]
        /\ lives' = ConcatLifetimes(lives, ins, out)
    BY <1>2, <1>6, <2>2 DEF VisitConcat
  <2>4. /\ DOMAIN concat' = DOMAIN concat \cup {x, y}
        /\ \A t \in {x, y} : concat'[t] = PlaceInConcat(graph, i, t)
        /\ \A t \in DOMAIN concat : concat'[t] = concat[t]
    BY <2>1, <2>3
  <2>5. ASSUME NEW t \in {x, y}
        PROVE  /\ concat'[t].parent = out
               /\ concat'[t].shift % 16 = 0
    <3>1. /\ PlaceInConcat(graph, i, t).parent = out
          /\ PlaceInConcat(graph, i, t).shift \in {0, Bytes(graph, x)}
      BY <1>2 DEF PlaceInConcat
    <3>2. QED
      BY <3>1, <2>1, <2>4
  <2>6. ASSUME NEW t \in DOMAIN concat
        PROVE  LET p == concat[t].parent - 1
               IN  /\ concat[t].parent \in 1 .. n
                   /\ concat[t].parent <= i
                   /\ NodeAt(graph, p).op = "Concat"
                   /\ t \in {NodeAt(graph, p).ins[1], NodeAt(graph, p).ins[2]}
                   /\ concat[t] = PlaceInConcat(graph, p, t)
                   /\ concat[t].shift % P!ALIGNMENT = 0
                   /\ ShouldAllocate(graph, concat[t].parent)
    BY <1>1 DEF ConcatOK
  <2>7. \A t \in DOMAIN concat' : concat'[t].parent <= visited'
    BY <1>1, <1>2, <2>4, <2>5, <2>6
  <2>8. ConcatOK'
    <3> SUFFICES ASSUME NEW t \in DOMAIN concat'
                 PROVE  LET p == concat'[t].parent - 1
                        IN  /\ concat'[t].parent \in 1 .. n
                            /\ NodeAt(graph, p).op = "Concat"
                            /\ t \in {NodeAt(graph, p).ins[1], NodeAt(graph, p).ins[2]}
                            /\ concat'[t] = PlaceInConcat(graph, p, t)
                            /\ concat'[t].shift % P!ALIGNMENT = 0
                            /\ ShouldAllocate(graph, concat'[t].parent)
      BY <1>1, Zenon DEF ConcatOK, PlaceInConcat
    <3>1. CASE t \in {x, y}
      <4>1. concat'[t].parent = out /\ out - 1 = i /\ out \in 1 .. n
        BY <3>1, <2>5, <1>2
      <4>2. concat'[t] = PlaceInConcat(graph, i, t) /\ concat'[t].shift % P!ALIGNMENT = 0
        BY <3>1, <2>4, <2>5, PackBridge
      <4>3. QED
        BY <3>1, <4>1, <4>2, <2>1
    <3>2. CASE t \notin {x, y}
      <4>1. t \in DOMAIN concat /\ concat'[t] = concat[t]
        BY <3>2, <2>4
      <4>2. QED
        BY <4>1, <2>6
    <3>3. QED
      BY <3>1, <3>2
  <2>9. LivesOK'
    <3>1. /\ lives \in [TensorIds(graph) -> Lives]
          /\ \A t \in TensorIds(graph) : lives[t].first <= lives[t].last
          /\ \A t \in TensorIds(graph) : Covers(lives[Owner(t)], AnalyzeLifetimes(graph)[t])
      BY DEF LivesOK
    <3>2. x \in TensorIds(graph) /\ y \in TensorIds(graph) /\ out \in TensorIds(graph)
      BY <1>2, <2>2
    <3> DEFINE mid == Widen(lives[out], lives[x])
               new == Widen(mid, lives[y])
    <3>3. lives' = [lives EXCEPT ![out] = new]
      BY <2>3 DEF ConcatLifetimes
    <3>4. /\ mid \in Lives /\ mid.first <= mid.last
          /\ Covers(mid, lives[out]) /\ Covers(mid, lives[x])
      BY <3>1, <3>2, WidenCovers
    <3> HIDE DEF mid
    <3>5. /\ new \in Lives /\ new.first <= new.last
          /\ Covers(new, mid) /\ Covers(new, lives[y])
      BY <3>1, <3>2, <3>4, WidenCovers
    <3> HIDE DEF new
    <3>6. Covers(new, lives[out]) /\ Covers(new, lives[x])
      BY <3>1, <3>2, <3>4, <3>5, CoversTransitive
    <3>7. /\ lives' \in [TensorIds(graph) -> Lives]
          /\ \A t \in TensorIds(graph) : lives'[t].first <= lives'[t].last
          /\ \A t \in TensorIds(graph) : Covers(lives'[t], lives[t])
          /\ lives'[out] = new
      BY <3>1, <3>2, <3>3, <3>5, <3>6, WidenedLives
    <3>8. ASSUME NEW t \in TensorIds(graph)
          PROVE  Covers(lives'[Owner(t)'], AnalyzeLifetimes(graph)[t])
      <4> DEFINE r == Root(inplace, t)
      <4>1. Owner(t) \in TensorIds(graph) /\ r \in TensorIds(graph)
        BY <1>1, <1>2, RootsAndOwners
      <4>2. AnalyzeLifetimes(graph)[t] \in Lives
        BY <1>2, AnalyzeFacts
      <4>3. Covers(lives[Owner(t)], AnalyzeLifetimes(graph)[t])
        BY <3>1
      <4>4. /\ Owner(t) = IF r \in DOMAIN concat THEN concat[r].parent ELSE r
            /\ Owner(t)' = IF r \in DOMAIN concat' THEN concat'[r].parent ELSE r
        BY <1>1 DEF Owner, Root
      <4> HIDE DEF r
      <4>5. CASE r \in {x, y}
        <5>1. Owner(t) = r /\ Owner(t)' = out
          BY <4>4, <4>5, <2>1, <2>4, <2>5
        <5>2. Covers(new, lives[r])
          BY <4>5, <3>5, <3>6
        <5>3. QED
          BY <5>1, <5>2, <4>1, <4>2, <4>3, <3>1, <3>5, <3>7, CoversTransitive
      <4>6. CASE r \notin {x, y}
        <5>1. Owner(t)' = Owner(t)
          BY <4>4, <4>6, <2>4
        <5>2. QED
          BY <5>1, <4>1, <4>2, <4>3, <3>1, <3>7, CoversTransitive
      <4>7. QED
        BY <4>5, <4>6
    <3>9. QED
      BY <3>7, <3>8, <1>1 DEF LivesOK
  <2>10. QED
    BY <2>7, <2>8, <2>9, <1>3, <1>4 DEF AliasInv
<1>7. QED
  BY <1>5, <1>6

\* The two loops have not started: there are no aliases.
LEMMA NoAliases ==
  ASSUME inplace' = << >>, concat' = << >>
  PROVE  InplaceOK' /\ ConcatOK' /\ \A t : Owner(t)' = t
<1>1. DOMAIN inplace' = {} /\ DOMAIN concat' = {}
  OBVIOUS
<1>2. QED
  BY <1>1 DEF InplaceOK, ConcatOK, Owner, Root

LEMMA BuildAliasInv ==
  ASSUME AliasInv, AddNode \/ Seal, NodeCount(graph') \in Nat
  PROVE  AliasInv'
<1>1. /\ phase = "build" /\ phase' \in NotPlanned
      /\ UNCHANGED <<aliasVars, offsets, packVars>>
  BY DEF AddNode, Seal, NotPlanned
<1>2. /\ inplace = << >> /\ concat = << >> /\ visited = 0
      /\ offsets = << >> /\ status = "planning" /\ P!Init
  BY <1>1 DEF AliasInv, StageOK, NotPlanned, NotPacked
<1>3. inplace' = << >> /\ concat' = << >> /\ visited' = 0
  BY <1>1, <1>2 DEF aliasVars
<1>4. P!Init' /\ offsets' = << >> /\ status' = "planning"
  BY <1>1, <1>2 DEF P!Init, packVars, P!NoRequest
<1>5. visited' \in 0 .. NodeCount(graph')
  BY <1>3
<1>6. StageOK'
  BY <1>1, <1>3, <1>4, <1>5 DEF StageOK, Phases, NotPacked, NotPlanned
<1>7. QED
  BY <1>3, <1>6, NoAliases DEF AliasInv

LEMMA AnalyzeInv ==
  ASSUME GraphOK, AliasInv, AnalyzeGraph
  PROVE  AliasInv' /\ LivesOK'
<1>1. /\ phase = "analyze" /\ phase' = "inplace" /\ visited' = 0 /\ graph' = graph
      /\ UNCHANGED <<inplace, concat, offsets, packVars>>
      /\ lives' = AnalyzeLifetimes(graph)
  BY DEF AnalyzeGraph
<1>2. /\ inplace' = << >> /\ concat' = << >>
      /\ offsets' = << >> /\ status' = "planning" /\ P!Init
  BY <1>1 DEF AliasInv, StageOK, NotPlanned, NotPacked, packVars
<1>3. P!Init'
  BY <1>1, <1>2 DEF P!Init, packVars, P!NoRequest
<1>4. /\ NodeCount(graph) \in Nat /\ TensorIds(graph) = 0 .. NodeCount(graph)
  BY GraphFacts
<1>5. StageOK'
  <2>1. DOMAIN inplace' = {} /\ visited' \in 0 .. NodeCount(graph')
    BY <1>1, <1>2, <1>4
  <2>2. QED
    BY <2>1, <1>1, <1>2, <1>3 DEF StageOK, Phases, NotPacked, NotPlanned
<1>6. InplaceOK' /\ ConcatOK' /\ \A t : Owner(t)' = t
  BY <1>2, NoAliases
<1>7. \A t \in TensorIds(graph) :
        /\ lives'[t] \in Lives /\ lives'[t].first <= lives'[t].last
        /\ Covers(lives'[t], AnalyzeLifetimes(graph)[t])
  BY <1>1, <1>4, AnalyzeFacts, CoversItself
<1>8. lives' \in [TensorIds(graph) -> Lives]
  <2>1. lives' = [t \in TensorIds(graph) |-> lives'[t]]
    BY <1>1 DEF AnalyzeLifetimes
  <2>2. QED
    BY <2>1, <1>7, Zenon
<1>9. LivesOK'
  BY <1>1, <1>6, <1>7, <1>8, Zenon DEF LivesOK
<1>10. QED
  BY <1>5, <1>6, <1>9 DEF AliasInv

LEMMA LoopDoneInv ==
  ASSUME GraphOK, AliasInv, LivesOK, InplaceDone \/ ConcatDone
  PROVE  AliasInv' /\ LivesOK'
<1>1. /\ UNCHANGED <<graph, inplace, concat, lives, offsets, packVars>>
      /\ \/ phase = "inplace" /\ phase' = "concat" /\ visited' = 0
         \/ phase = "concat" /\ phase' = "plan" /\ visited' = visited
  BY DEF InplaceDone, ConcatDone, aliasVars
<1>2. StageOK /\ InplaceOK /\ ConcatOK /\ NodeCount(graph) \in Nat
  BY GraphFacts DEF AliasInv
<1>3. InplaceOK' /\ ConcatOK' /\ LivesOK'
  BY <1>1, <1>2, InplaceFrame, ConcatFrame, LivesFrame
<1>4. /\ phase \in NotPacked /\ phase' \in {"concat", "plan"}
      /\ P!Init /\ offsets = << >> /\ status = "planning"
      /\ phase' = "concat" => concat = << >>
      /\ visited' \in 0 .. NodeCount(graph')
  BY <1>1, <1>2 DEF StageOK, NotPacked, NotPlanned
<1>5. P!Init' /\ offsets' = << >> /\ status' = "planning"
  BY <1>1, <1>4 DEF P!Init, packVars, P!NoRequest
<1>6. phase' = "concat" => \A t \in DOMAIN concat' : concat'[t].parent <= visited'
  BY <1>1, <1>4
<1>7. StageOK'
  BY <1>4, <1>5, <1>6 DEF StageOK, Phases, NotPacked, NotPlanned
<1>8. QED
  BY <1>3, <1>7 DEF AliasInv

-----------------------------------------------------------------------------
(* Packing.                                                                *)

\* Before the loop starts there is nothing to get wrong.
LEMMA NothingPacked ==
  ASSUME P!Init, UNCHANGED packVars
  PROVE  PackOK'
<1>0. P!IInv
  BY BestFitHolds, P!InitIInv
<1>1. P!Aligned
  BY PackBridge DEF P!Init, P!Aligned
<1>2. UNCHANGED P!vars
  BY DEF packVars, P!vars
<1>3. P!IInv' /\ P!Aligned'
  BY <1>0, <1>1, <1>2, BestFitHolds, P!NextIInv, P!NextAligned
<1>4. DOMAIN entries' = {} /\ request' = P!NoRequest'
  BY DEF P!Init, packVars, P!NoRequest
<1>5. QED
  BY <1>3, <1>4 DEF PackOK, P!NoRequest

\* A step of the loop of the code is a step of the loop proved right.
LEMMA ConsiderIsPacking ==
  ASSUME NEW t \in Nat, NEW first \in Nat, NEW last \in Nat, NEW bytes \in Nat \ {0},
         Pack!Consider(t, first, last, bytes)
  PROVE  P!Next
<1>1. P!Consider(t, first, last, bytes)
  BY Zenon DEF Pack!Consider, P!Consider, Pack!NoRequest, P!NoRequest
<1>2. QED
  BY <1>1, Zenon DEF P!Next

LEMMA ConsiderPackOK ==
  ASSUME GraphOK, LivesOK, PackOK, ConsiderNext
  PROVE  PackOK'
<1>1. PICK t \in PlannedTensors \ DOMAIN entries :
        Pack!Consider(t, lives[t].first, lives[t].last, Bytes(graph, t))
  BY Zenon DEF ConsiderNext
<1>2. UNCHANGED <<graph, inplace, concat, lives>>
  BY DEF ConsiderNext, aliasVars
<1>3. /\ t \in Nat /\ lives[t].first \in Nat /\ lives[t].last \in Nat
      /\ Bytes(graph, t) \in Nat \ {0} /\ t \in PlannedTensors
  <2>1. t \in TensorIds(graph) /\ TensorIds(graph) = 0 .. NodeCount(graph)
        /\ NodeCount(graph) \in Nat
    BY GraphFacts DEF PlannedTensors
  <2>2. lives[t] \in Lives
    BY <2>1 DEF LivesOK
  <2>3. QED
    BY <2>1, <2>2, GraphFacts DEF Lives
<1>4. P!IInv' /\ P!Aligned'
  <2>1. P!Next
    BY <1>1, <1>3, ConsiderIsPacking
  <2>2. QED
    BY <2>1, BestFitHolds, P!NextIInv, P!NextAligned DEF PackOK
<1>5. /\ entries' = entries
      /\ request' = [tensor_id |-> t, first |-> lives[t].first, last |-> lives[t].last,
                     bytes |-> Bytes(graph, t)]
  BY <1>1 DEF Pack!Consider
<1>6. PlannedTensors' = PlannedTensors
  BY <1>2, Zenon DEF PlannedTensors
<1>7. /\ request'.tensor_id = t /\ request'.first = lives[t].first
      /\ request'.last = lives[t].last /\ request'.bytes = Bytes(graph, t)
  BY <1>5
<1>8. /\ DOMAIN entries \subseteq PlannedTensors
      /\ \A u \in DOMAIN entries :
           /\ entries[u].first = lives[u].first /\ entries[u].last = lives[u].last
           /\ entries[u].size = P!Align(Bytes(graph, u))
  BY DEF PackOK
<1>9. P!NoRequest' = P!NoRequest /\ \A z : P!Align(z)' = P!Align(z)
  BY DEF P!NoRequest, P!Align, P!ALIGNMENT
<1>10. QED
  BY <1>2, <1>3, <1>4, <1>5, <1>6, <1>7, <1>8, Zenon DEF PackOK, P!NoRequest, P!Align, P!ALIGNMENT

LEMMA StepPackOK ==
  ASSUME PackOK, PackStep
  PROVE  PackOK'
<1>1. P!Step /\ UNCHANGED <<graph, inplace, concat, lives>>
  BY PackBridge DEF PackStep, aliasVars
<1>2. P!IInv' /\ P!Aligned'
  <2>1. P!Next
    BY <1>1 DEF P!Next
  <2>2. QED
    BY <2>1, BestFitHolds, P!NextIInv, P!NextAligned DEF PackOK
<1>3. PlannedTensors' = PlannedTensors
  BY <1>1, Zenon DEF PlannedTensors
<1> DEFINE Fits(es, u) == /\ es[u].first = lives[u].first /\ es[u].last = lives[u].last
                          /\ es[u].size = P!Align(Bytes(graph, u))
<1>4. /\ DOMAIN entries \subseteq PlannedTensors
      /\ \A u \in DOMAIN entries : Fits(entries, u)
  BY DEF PackOK
<1>5. CASE \E t \in Nat : P!Expire(t)
  <2>1. entries' = entries /\ request' = request
    BY <1>5 DEF P!Expire
  <2>2. QED
    BY <2>1, <1>1, <1>2, <1>3, Zenon DEF PackOK, P!NoRequest, P!Align, P!ALIGNMENT
<1>6. ASSUME NEW off, P!AddEntry(off, P!Align(request.bytes)), request # P!NoRequest
      PROVE  PackOK'
  <2> DEFINE t == request.tensor_id
             entry == [off |-> off, size |-> P!Align(request.bytes),
                       first |-> request.first, last |-> request.last]
  <2>1. /\ t \in PlannedTensors
        /\ request.first = lives[t].first /\ request.last = lives[t].last
        /\ request.bytes = Bytes(graph, t)
    BY <1>6 DEF PackOK
  <2>2. /\ entries' = [x \in DOMAIN entries \cup {t} |-> IF x = t THEN entry ELSE entries[x]]
        /\ request' = P!NoRequest
    BY <1>6 DEF P!AddEntry
  <2>3. /\ entry.first = lives[t].first /\ entry.last = lives[t].last
        /\ entry.size = P!Align(Bytes(graph, t))
    BY <2>1
  <2> HIDE DEF t, entry
  <2>4. /\ DOMAIN entries' = DOMAIN entries \cup {t}
        /\ entries'[t] = entry
        /\ \A x \in DOMAIN entries : x # t => entries'[x] = entries[x]
    BY <2>2
  <2>5. ASSUME NEW u \in DOMAIN entries' PROVE Fits(entries', u)
    BY <2>3, <2>4, <1>4
  <2>6. DOMAIN entries' \subseteq PlannedTensors
    BY <2>1, <2>4, <1>4 DEF t
  <2>7. \A u \in DOMAIN entries' :
          /\ entries'[u].first = lives'[u].first /\ entries'[u].last = lives'[u].last
          /\ entries'[u].size = P!Align(Bytes(graph', u))
    BY <2>5, <1>1
  <2>8. request' = P!NoRequest'
    BY <2>2 DEF P!NoRequest
  <2>9. QED
    BY <2>6, <2>7, <2>8, <1>2, <1>3, Zenon DEF PackOK, P!Align, P!ALIGNMENT
<1>7. CASE P!PlaceInFree
  <2>1. request # P!NoRequest
        /\ P!AddEntry(P!BestFit(free_blocks, P!Align(request.bytes)).off, P!Align(request.bytes))
    BY <1>7 DEF P!PlaceInFree, P!ExpiryDone
  <2>2. QED
    BY <2>1, <1>6
<1>8. CASE P!PlaceAtPeak
  <2>1. request # P!NoRequest /\ P!AddEntry(peak, P!Align(request.bytes))
    BY <1>8 DEF P!PlaceAtPeak, P!ExpiryDone
  <2>2. QED
    BY <2>1, <1>6
<1>9. QED
  BY <1>1, <1>5, <1>7, <1>8 DEF P!Step

-----------------------------------------------------------------------------
(* Offsets.                                                                *)

\* An input of a Concat lies inside the Concat's output: the first input at its
\* start and the second one right after it.
LEMMA ConcatFacts ==
  ASSUME GraphOK, ConcatOK, NEW t \in DOMAIN concat
  PROVE  LET p == concat[t].parent
             x == NodeAt(graph, p - 1).ins[1]
             y == NodeAt(graph, p - 1).ins[2]
         IN  /\ p \in 0 .. NodeCount(graph) /\ p - 1 \in Steps(graph)
             /\ NodeAt(graph, p - 1).op = "Concat"
             /\ x \in 0 .. p - 1 /\ y \in 0 .. p - 1
             /\ t \in {x, y} /\ t \in Nat /\ t < p /\ t \in 0 .. NodeCount(graph)
             /\ concat[t].shift = IF t = y THEN Bytes(graph, x) ELSE 0
             /\ concat[t].shift \in Nat /\ concat[t].shift % 16 = 0
             /\ Bytes(graph, p) = Bytes(graph, x) + Bytes(graph, y)
             /\ concat[t].shift + Bytes(graph, t) <= Bytes(graph, p)
<1> DEFINE p == concat[t].parent
           x == NodeAt(graph, p - 1).ins[1]
           y == NodeAt(graph, p - 1).ins[2]
<1>1. /\ p \in 1 .. NodeCount(graph) /\ NodeCount(graph) \in Nat
      /\ NodeAt(graph, p - 1).op = "Concat"
      /\ t \in {x, y}
      /\ concat[t] = PlaceInConcat(graph, p - 1, t)
      /\ concat[t].shift % 16 = 0
  BY GraphFacts, PackBridge DEF ConcatOK
<1>2. p - 1 \in Steps(graph) /\ (p - 1) + 1 = p /\ p \in 0 .. NodeCount(graph)
  BY <1>1 DEF Steps
<1>3. /\ x \in 0 .. p - 1 /\ y \in 0 .. p - 1
      /\ Bytes(graph, p) = Bytes(graph, x) + Bytes(graph, y)
  BY <1>1, <1>2, NodeFacts
<1>4. concat[t].shift = IF t = y THEN Bytes(graph, x) ELSE 0
  BY <1>1 DEF PlaceInConcat
<1> HIDE DEF p, x, y
<1>5. t \in Nat /\ t < p /\ t \in 0 .. NodeCount(graph)
      /\ x \in 0 .. NodeCount(graph) /\ y \in 0 .. NodeCount(graph)
  BY <1>1, <1>2, <1>3
<1>6. Bytes(graph, x) \in Nat /\ Bytes(graph, y) \in Nat
  BY <1>5, GraphFacts
<1>7. concat[t].shift \in Nat /\ concat[t].shift + Bytes(graph, t) <= Bytes(graph, p)
  BY <1>1, <1>3, <1>4, <1>6
<1>8. QED
  BY <1>1, <1>2, <1>3, <1>4, <1>5, <1>7 DEF p, x, y

\* The numbers in an entry.
LEMMA EntryNumbers ==
  ASSUME PackOK, NEW t \in DOMAIN entries
  PROVE  /\ entries[t].off \in Nat /\ entries[t].size \in Nat
         /\ entries[t].first \in Nat /\ entries[t].last \in Nat
<1>1. entries[t] \in P!EntryRecords
  BY DEF PackOK, P!IInv, P!TypeOK
<1>2. QED
  BY <1>1 DEF P!EntryRecords

\* When no alias lacks its storage, every tensor of the arena gets a place in the
\* block of its owner.
LEMMA OffsetsResolved ==
  ASSUME GraphOK, InplaceOK, ConcatOK, PackOK,
         PlannedTensors \subseteq DOMAIN entries, ~RaisesKeyError
  PROVE  /\ ResolveOffsets \in [TensorIds(graph) -> Nat]
         /\ \A t \in TensorIds(graph) : ShouldAllocate(graph, t) =>
              /\ Owner(t) \in DOMAIN entries
              /\ ResolveOffsets[t] = entries[Owner(t)].off + Shift(t)
<1>1. /\ TensorIds(graph) = 0 .. NodeCount(graph)
      /\ DOMAIN entries \subseteq PlannedTensors
  BY GraphFacts DEF PackOK
<1>2. ASSUME NEW t \in TensorIds(graph)
      PROVE  /\ OwnOffset(Root(inplace, t)) \in Nat
             /\ ShouldAllocate(graph, t) =>
                  /\ Owner(t) \in DOMAIN entries
                  /\ OwnOffset(Root(inplace, t)) = entries[Owner(t)].off + Shift(t)
  <2> DEFINE r == Root(inplace, t)
  <2>1. /\ r \in TensorIds(graph) /\ r \notin DOMAIN inplace
        /\ ShouldAllocate(graph, t) => ShouldAllocate(graph, r)
    BY <1>1, RootsAndOwners
  <2>2. /\ Owner(t) = IF r \in DOMAIN concat THEN concat[r].parent ELSE r
        /\ Shift(t) = IF r \in DOMAIN concat THEN concat[r].shift ELSE 0
    BY DEF Owner, Shift
  <2> HIDE DEF r
  <2>3. CASE r \in DOMAIN entries
    <3>1. r \notin DOMAIN concat
      BY <2>3, <1>1 DEF PlannedTensors
    <3>2. OwnOffset(r) = entries[r].off /\ entries[r].off \in Nat
      BY <2>3, EntryNumbers DEF OwnOffset
    <3>3. QED
      BY <3>1, <3>2, <2>2, <2>3 DEF r
  <2>4. CASE r \notin DOMAIN entries /\ r \in DOMAIN concat
    <3>1. concat[r].parent \in DOMAIN entries
      <4>1. Storage(r) = concat[r].parent
        BY <2>1 DEF Storage
      <4>2. r < concat[r].parent /\ r \in Nat /\ concat[r].parent \in Nat
        BY <2>4, ConcatFacts
      <4>3. ~StorageMissing(r)
        BY <2>4 DEF RaisesKeyError
      <4>4. QED
        BY <4>1, <4>2, <4>3 DEF StorageMissing
    <3>2. concat[r].shift \in Nat /\ entries[concat[r].parent].off \in Nat
      BY <2>4, <3>1, ConcatFacts, EntryNumbers
    <3>3. OwnOffset(r) = entries[concat[r].parent].off + concat[r].shift
      BY <2>4 DEF OwnOffset
    <3>4. QED
      BY <3>1, <3>2, <3>3, <2>2, <2>4 DEF r
  <2>5. CASE r \notin DOMAIN entries /\ r \notin DOMAIN concat
    <3>1. OwnOffset(r) = 0
      BY <2>5 DEF OwnOffset
    <3>2. ~ShouldAllocate(graph, r)
      BY <2>1, <2>5 DEF PlannedTensors
    <3>3. QED
      BY <3>1, <3>2, <2>1 DEF r
  <2>6. QED
    BY <2>3, <2>4, <2>5
<1>3. QED
  BY <1>2, Zenon DEF ResolveOffsets

LEMMA FinishPlanInv ==
  ASSUME GraphOK, AliasInv, LivesOK, PackOK, FinishPlan
  PROVE  /\ AliasInv' /\ LivesOK' /\ UNCHANGED graph
         /\ phase' # "failed" => PackOK'
         /\ phase' = "run" => OffsetsOK'
<1>1. /\ phase = "plan" /\ PlannedTensors \subseteq DOMAIN entries
      /\ UNCHANGED <<graph, visited, inplace, concat, lives>>
  BY DEF FinishPlan, aliasVars
<1>2. StageOK /\ InplaceOK /\ ConcatOK /\ NodeCount(graph) \in Nat
  BY GraphFacts DEF AliasInv
<1>3. InplaceOK' /\ ConcatOK' /\ LivesOK'
  BY <1>1, <1>2, InplaceFrame, ConcatFrame, LivesFrame
<1>4. visited' \in 0 .. NodeCount(graph') /\ offsets = << >>
  BY <1>1, <1>2 DEF StageOK, NotPacked, NotPlanned
<1>5. CASE RaisesKeyError
  <2>1. phase' = "failed" /\ status' = "KeyError" /\ offsets' = offsets
    BY <1>5 DEF FinishPlan
  <2>2. StageOK'
    BY <2>1, <1>4 DEF StageOK, Phases, NotPacked, NotPlanned
  <2>3. QED
    BY <2>1, <2>2, <1>1, <1>3 DEF AliasInv
<1>6. CASE ~RaisesKeyError
  <2>1. /\ P!Finish
        /\ phase' = IF status' = "planned" THEN "run" ELSE "failed"
        /\ offsets' = ResolveOffsets
    BY <1>6, PackBridge DEF FinishPlan
  <2>2. /\ request = P!NoRequest /\ entries' = entries /\ request' = request
        /\ status' \in {"planned", "MemoryError"}
    BY <2>1 DEF P!Finish
  <2>3. P!IInv' /\ P!Aligned'
    <3>1. P!Next
      BY <2>1 DEF P!Next
    <3>2. QED
      BY <3>1, BestFitHolds, P!NextIInv, P!NextAligned DEF PackOK
  <2>4. PlannedTensors' = PlannedTensors
    BY <1>1, Zenon DEF PlannedTensors
  <2>5. PackOK'
    <3>1. request' = P!NoRequest'
      BY <2>2 DEF P!NoRequest
    <3>2. /\ DOMAIN entries' \subseteq PlannedTensors'
          /\ \A u \in DOMAIN entries' :
               /\ entries'[u].first = lives'[u].first /\ entries'[u].last = lives'[u].last
               /\ entries'[u].size = P!Align(Bytes(graph', u))
      BY <1>1, <2>2, <2>4 DEF PackOK
    <3>3. QED
      BY <2>3, <3>1, <3>2, Zenon DEF PackOK, P!Align, P!ALIGNMENT
  <2>6. /\ ResolveOffsets \in [TensorIds(graph) -> Nat]
        /\ \A t \in TensorIds(graph) : ShouldAllocate(graph, t) =>
             /\ Owner(t) \in DOMAIN entries
             /\ ResolveOffsets[t] = entries[Owner(t)].off + Shift(t)
    BY <1>1, <1>2, <1>6, OffsetsResolved
  <2>7. \A t : Owner(t)' = Owner(t) /\ Shift(t)' = Shift(t)
    BY <1>1 DEF Owner, Shift, Root
  <2>8. OffsetsOK'
    BY <1>1, <2>1, <2>2, <2>6, <2>7, Zenon DEF OffsetsOK
  <2>9. StageOK'
    <3>1. offsets' \in [TensorIds(graph') -> Nat]
      BY <2>1, <2>6, <1>1
    <3>2. phase' = "run" => status' = "planned" /\ request' = P!NoRequest'
      BY <2>1, <2>2 DEF P!NoRequest
    <3>3. phase' = "run" \/ (phase' = "failed" /\ status' = "MemoryError")
      BY <2>1, <2>2
    <3>4. QED
      BY <3>1, <3>2, <3>3, <1>4 DEF StageOK, Phases, NotPacked, NotPlanned
  <2>10. QED
    BY <2>5, <2>8, <2>9, <1>1, <1>3 DEF AliasInv
<1>7. QED
  BY <1>5, <1>6

\* A step of the packing loop leaves the rest of the plan alone.
LEMMA PackingInv ==
  ASSUME GraphOK, AliasInv, PlanOK, ConsiderNext \/ PackStep
  PROVE  AliasInv' /\ PlanOK' /\ UNCHANGED graph
<1>1. /\ phase = "plan"
      /\ UNCHANGED <<graph, phase, visited, inplace, concat, lives, offsets>>
  BY DEF ConsiderNext, PackStep, aliasVars
<1>2. LivesOK /\ PackOK /\ StageOK /\ InplaceOK /\ ConcatOK
  BY <1>1 DEF AliasInv, PlanOK, NotPlanned
<1>3. PackOK' /\ InplaceOK' /\ ConcatOK' /\ LivesOK'
  BY <1>1, <1>2, ConsiderPackOK, StepPackOK, InplaceFrame, ConcatFrame, LivesFrame
<1>4. status' = "planning"
  <2>1. CASE ConsiderNext
    BY <2>1, <1>1, <1>2 DEF ConsiderNext, Pack!Consider, StageOK
  <2>2. CASE PackStep
    <3>1. P!Step
      BY <2>2, PackBridge DEF PackStep
    <3>2. status' = status
      BY <3>1 DEF P!Step, P!Expire, P!PlaceInFree, P!PlaceAtPeak, P!AddEntry
    <3>3. QED
      BY <3>2, <1>1, <1>2 DEF StageOK
  <2>3. QED
    BY <2>1, <2>2
<1>5. visited' \in 0 .. NodeCount(graph') /\ offsets' = << >> /\ phase' = "plan"
  BY <1>1, <1>2 DEF StageOK
<1>6. StageOK'
  BY <1>4, <1>5 DEF StageOK, Phases, NotPacked, NotPlanned
<1>7. QED
  BY <1>1, <1>3, <1>5, <1>6 DEF AliasInv, PlanOK

\* Every step of the planner keeps the invariant.
LEMMA PlanNextInv ==
  ASSUME PlannedInv, PlanNext, UNCHANGED execVars
  PROVE  PlannedInv'
<1>1. /\ GraphOK /\ GraphInv /\ AliasInv /\ PlanOK /\ ContextOK
      /\ UNCHANGED <<family, meaning, memory, run, ip, misread>>
  BY DEF PlannedInv, GraphInv, execVars
<1>2. /\ graph' = graph /\ phase # "run"
  BY Zenon DEF PlanNext, AnalyzeGraph, VisitInplace, InplaceDone, VisitConcat, ConcatDone,
     ConsiderNext, PackStep, FinishPlan
<1>3. GraphInv' /\ ContextOK'
  BY <1>1, <1>2, GraphFrame, ContextFrame, GraphFacts
<1>4. phase \in NotPacked => P!Init
  BY <1>1 DEF AliasInv, StageOK
<1>5. AliasInv' /\ PlanOK'
  <2>1. CASE AnalyzeGraph
    <3>1. phase' = "inplace" /\ PackOK'
      BY <2>1, <1>4, NothingPacked DEF AnalyzeGraph, NotPacked, NotPlanned
    <3>2. QED
      BY <2>1, <3>1, <1>1, AnalyzeInv DEF PlanOK
  <2>2. CASE VisitInplace \/ VisitConcat
    <3>1. LivesOK /\ phase' \in {"inplace", "concat"} /\ UNCHANGED packVars /\ P!Init
      BY <2>2, <1>1, <1>4 DEF VisitInplace, VisitConcat, PlanOK, NotPacked, NotPlanned
    <3>2. PackOK'
      BY <3>1, NothingPacked
    <3>3. QED
      BY <2>2, <3>1, <3>2, <1>1, VisitInplaceInv, VisitConcatInv DEF PlanOK
  <2>3. CASE InplaceDone \/ ConcatDone
    <3>1. LivesOK /\ phase' \in {"concat", "plan"} /\ UNCHANGED packVars /\ P!Init
      BY <2>3, <1>1, <1>4 DEF InplaceDone, ConcatDone, PlanOK, NotPacked, NotPlanned
    <3>2. PackOK'
      BY <3>1, NothingPacked
    <3>3. QED
      BY <2>3, <3>1, <3>2, <1>1, LoopDoneInv DEF PlanOK
  <2>4. CASE ConsiderNext \/ PackStep
    BY <2>4, <1>1, PackingInv
  <2>5. CASE FinishPlan
    <3>1. LivesOK /\ PackOK
      BY <2>5, <1>1 DEF FinishPlan, PlanOK, NotPlanned
    <3>2. QED
      BY <2>5, <3>1, <1>1, FinishPlanInv DEF PlanOK
  <2>6. QED
    BY <2>1, <2>2, <2>3, <2>4, <2>5 DEF PlanNext
<1>6. QED
  BY <1>3, <1>5 DEF PlannedInv

\* So do the steps that build the graph.
LEMMA BuildInv ==
  ASSUME PlannedInv, AddNode \/ Seal
  PROVE  PlannedInv'
<1>1. /\ GraphInv /\ AliasInv /\ PlanOK /\ ContextOK
      /\ phase = "build" /\ phase' \in NotPlanned
      /\ UNCHANGED packVars /\ UNCHANGED <<memory, run, ip, misread>>
  BY DEF PlannedInv, AddNode, Seal, NotPlanned, execVars
<1>2. GraphInv'
  BY <1>1, AddNodeGraphInv, SealGraphInv
<1>3. NodeCount(graph') \in Nat
  <2>1. \E N : graph'.nodes \in Seq(N)
    BY <1>2 DEF GraphInv, GraphOK, Graphs
  <2>2. QED
    BY <2>1 DEF NodeCount
<1>4. AliasInv' /\ ContextOK'
  BY <1>1, <1>3, BuildAliasInv, ContextFrame
<1>5. PackOK'
  <2>1. P!Init
    BY <1>1 DEF AliasInv, StageOK, NotPacked, NotPlanned
  <2>2. QED
    BY <2>1, <1>1, NothingPacked
<1>6. QED
  BY <1>1, <1>2, <1>4, <1>5 DEF PlannedInv, PlanOK, NotPlanned

LEMMA InitPlanned == Init => PlannedInv
<1> SUFFICES ASSUME Init PROVE PlannedInv
  OBVIOUS
<1>1. /\ phase = "build" /\ offsets = << >> /\ visited = 0 /\ inplace = << >> /\ concat = << >>
      /\ memory = << >> /\ run = 0 /\ ip = -1 /\ misread = FALSE /\ P!Init
  BY PackBridge DEF Init
<1>2. GraphInv /\ NodeCount(graph) \in Nat
  BY InitGraphInv, GraphFacts DEF GraphInv
<1>3. status = "planning"
  BY <1>1 DEF P!Init
<1>4. StageOK
  BY <1>1, <1>2, <1>3 DEF StageOK, Phases, NotPacked, NotPlanned
<1>5. DOMAIN inplace = {} /\ DOMAIN concat = {}
  BY <1>1
<1>6. InplaceOK /\ ConcatOK
  BY <1>5 DEF InplaceOK, ConcatOK
<1>7. PackOK
  <2>1. P!IInv /\ P!Aligned
    BY <1>1, PackBridge, BestFitHolds, P!InitIInv DEF P!Init, P!Aligned
  <2>2. DOMAIN entries = {} /\ request = P!NoRequest
    BY <1>1 DEF P!Init
  <2>3. QED
    BY <2>1, <2>2 DEF PackOK
<1>8. PlanOK
  BY <1>1, <1>7 DEF PlanOK, NotPlanned
<1>9. ContextOK
  <2>1. run \in 0 .. MaxRuns /\ ip \in -1 .. NodeCount(graph) /\ ~(ip >= 0)
    BY <1>1, <1>2, ExecutionAssumption
  <2>2. QED
    BY <2>1, <1>1 DEF ContextOK
<1>10. QED
  BY <1>2, <1>4, <1>6, <1>8, <1>9 DEF PlannedInv, AliasInv

-----------------------------------------------------------------------------
(* The layout of an accepted plan.                                         *)

Ready ==
  /\ GraphInv /\ InplaceOK /\ ConcatOK
  /\ LivesOK /\ PackOK /\ OffsetsOK

\* A size rounded up to the alignment.
LEMMA AlignCovers == \A n \in Nat : n <= P!Align(n)
BY DEF P!Align, P!ALIGNMENT

\* A tensor lies inside the entry of its owner, and the entry in the arena.
LEMMA PlaceFacts ==
  ASSUME Ready, NEW t \in 0 .. NodeCount(graph), ShouldAllocate(graph, t)
  PROVE  LET e == entries[Owner(t)]
         IN  /\ Owner(t) \in DOMAIN entries
             /\ e.off \in Nat /\ e.size \in Nat /\ e.off % 16 = 0
             /\ e.off + e.size <= peak /\ peak \in Nat /\ peak % 16 = 0
             /\ Shift(t) \in Nat /\ Shift(t) % 16 = 0
             /\ offsets[t] = e.off + Shift(t)
             /\ offsets[t] \in Nat /\ offsets[t] % 16 = 0
             /\ offsets[t] + Bytes(graph, t) <= e.off + e.size
<1> DEFINE o == Owner(t)
           e == entries[o]
           r == Root(inplace, t)
<1>1. /\ GraphOK /\ InplaceOK /\ ConcatOK /\ PackOK
      /\ NodeCount(graph) \in Nat /\ TensorIds(graph) = 0 .. NodeCount(graph)
  BY GraphFacts DEF Ready, GraphInv
<1>2. o \in DOMAIN entries /\ offsets[t] = e.off + Shift(t)
  BY <1>1 DEF Ready, OffsetsOK
<1>3. /\ e.off \in Nat /\ e.size \in Nat /\ e.size = P!Align(Bytes(graph, o))
  BY <1>1, <1>2, EntryNumbers DEF PackOK
<1>4. /\ e.off % 16 = 0 /\ peak % 16 = 0
      /\ e.off + e.size <= peak /\ peak \in Nat
  BY <1>1, <1>2 DEF PackOK, P!Aligned, P!IInv, P!TypeOK, P!EntriesInsideArena, P!End, P!ALIGNMENT
<1>5. /\ r \in 0 .. NodeCount(graph) /\ Bytes(graph, r) = Bytes(graph, t)
      /\ o \in 0 .. NodeCount(graph)
      /\ o = IF r \in DOMAIN concat THEN concat[r].parent ELSE r
      /\ Shift(t) = IF r \in DOMAIN concat THEN concat[r].shift ELSE 0
  BY <1>1, RootsAndOwners DEF Owner, Shift
<1> HIDE DEF r, o
<1>6. /\ Bytes(graph, r) \in Nat /\ Bytes(graph, o) \in Nat
  BY <1>1, <1>5, GraphFacts
<1>7. /\ Shift(t) \in Nat /\ Shift(t) % 16 = 0
      /\ Shift(t) + Bytes(graph, r) <= Bytes(graph, o)
  <2>1. CASE r \in DOMAIN concat
    BY <2>1, <1>1, <1>5, ConcatFacts
  <2>2. CASE r \notin DOMAIN concat
    BY <2>2, <1>5, <1>6
  <2>3. QED
    BY <2>1, <2>2
<1>8. Bytes(graph, o) <= e.size
  BY <1>3, <1>6, AlignCovers
<1> HIDE DEF e
<1> DEFINE bt == Bytes(graph, t)
           bo == Bytes(graph, o)
           s  == Shift(t)
<1>9. bt \in Nat /\ bo \in Nat /\ s \in Nat /\ s % 16 = 0 /\ s + bt <= bo /\ bo <= e.size
  BY <1>5, <1>6, <1>7, <1>8
<1>10. offsets[t] = e.off + s
  BY <1>2 DEF e
<1> HIDE DEF bt, bo, s
<1>11. /\ offsets[t] \in Nat /\ offsets[t] % 16 = 0
       /\ offsets[t] + bt <= e.off + e.size
  BY <1>3, <1>4, <1>9, <1>10
<1>12. QED
  BY <1>2, <1>3, <1>4, <1>7, <1>11 DEF e, o, bt

\* Where the cells of a tensor are: in whole numbers of cells.
First(t) == offsets[t] \div CELL
Size(t) == Bytes(graph, t) \div CELL

LEMMA CellPlaces ==
  ASSUME Ready, NEW t \in 0 .. NodeCount(graph)
  PROVE  /\ Size(t) \in Nat /\ Size(t) >= 1 /\ Cells(graph, t) = 0 .. Size(t) - 1
         /\ External(graph, t) => \A k : Addr(t, k) = <<t, k>>
         /\ ~External(graph, t) =>
              /\ First(t) \in Nat
              /\ \A k : Addr(t, k) = <<-1, First(t) + k>>
              /\ First(t) + Size(t) = (offsets[t] + Bytes(graph, t)) \div CELL
              /\ First(t) + Size(t) <= peak \div CELL
<1>1. /\ GraphOK /\ NodeCount(graph) \in Nat
      /\ Bytes(graph, t) \in Nat \ {0} /\ Bytes(graph, t) % CELL = 0
  BY GraphFacts DEF Ready, GraphInv
<1>2. Size(t) \in Nat /\ Size(t) >= 1 /\ Cells(graph, t) = 0 .. Size(t) - 1
  <2>1. Size(t) \in Nat /\ Size(t) >= 1
    BY <1>1, CellArithmetic DEF Size
  <2>2. QED
    BY <2>1 DEF Cells, Size
<1>3. External(graph, t) => \A k : Addr(t, k) = <<t, k>>
  BY DEF Addr
<1>4. ASSUME ~External(graph, t)
      PROVE  /\ First(t) \in Nat
             /\ \A k : Addr(t, k) = <<-1, First(t) + k>>
             /\ First(t) + Size(t) = (offsets[t] + Bytes(graph, t)) \div CELL
             /\ First(t) + Size(t) <= peak \div CELL
  <2>1. /\ offsets[t] \in Nat /\ offsets[t] % 16 = 0
        /\ offsets[t] + Bytes(graph, t) <= entries[Owner(t)].off + entries[Owner(t)].size
        /\ entries[Owner(t)].off \in Nat /\ entries[Owner(t)].size \in Nat
        /\ entries[Owner(t)].off + entries[Owner(t)].size <= peak /\ peak \in Nat /\ peak % 16 = 0
    BY <1>4, PlaceFacts DEF External
  <2> DEFINE off == offsets[t]
             b == Bytes(graph, t)
  <2>2. off \in Nat /\ b \in Nat /\ off % CELL = 0 /\ b % CELL = 0 /\ peak % CELL = 0
    BY <2>1, <1>1, CellArithmetic
  <2>3. off + b <= peak
    BY <2>1, <1>1
  <2> HIDE DEF off, b
  <2>4. /\ off \div CELL \in Nat
        /\ (off \div CELL) + (b \div CELL) = (off + b) \div CELL
        /\ (off + b) \div CELL <= peak \div CELL
    <3> DEFINE total == off + b
    <3>1. /\ off \div CELL \in Nat
          /\ (off \div CELL) + (b \div CELL) = total \div CELL
          /\ total \in Nat /\ total % CELL = 0
      BY <2>2, CellArithmetic
    <3>2. total <= peak
      BY <2>3
    <3> HIDE DEF total
    <3>3. total \div CELL <= peak \div CELL
      BY <2>1, <2>2, <3>1, <3>2, CellArithmetic
    <3>4. QED
      BY <3>1, <3>3 DEF total
  <2>5. \A k : Addr(t, k) = <<-1, First(t) + k>>
    BY <1>4 DEF Addr, First
  <2>6. QED
    BY <2>4, <2>5 DEF First, Size, off, b
<1>5. QED
  BY <1>2, <1>3, <1>4

\* The cells of a tensor are cells of memory, each at an address of its own.
LEMMA AddrFacts ==
  ASSUME Ready, NEW t \in 0 .. NodeCount(graph)
  PROVE  /\ \A k \in Cells(graph, t) : k \in Nat /\ Addr(t, k) \in Addresses
         /\ \A k, j \in Nat : Addr(t, k) = Addr(t, j) => k = j
<1>1. /\ TensorIds(graph) = 0 .. NodeCount(graph)
  BY GraphFacts DEF Ready, GraphInv
<1>2. CASE External(graph, t)
  <2>1. \A k : Addr(t, k) = <<t, k>>
    BY <1>2, CellPlaces
  <2>2. \A k \in Cells(graph, t) : k \in Nat /\ <<t, k>> \in Addresses
    <3>1. \A k \in Cells(graph, t) : k \in Nat
      BY CellPlaces
    <3> DEFINE own == {<<t, k>> : k \in Cells(graph, t)}
    <3>2. own \in {{<<u, k>> : k \in Cells(graph, u)} :
                     u \in {v \in TensorIds(graph) : External(graph, v)}}
      BY <1>1, <1>2, Zenon
    <3>3. own \subseteq Addresses
      BY <3>2, Zenon DEF Addresses
    <3>4. QED
      BY <3>1, <3>3
  <2>3. \A k \in Cells(graph, t) : k \in Nat /\ Addr(t, k) \in Addresses
    BY <2>1, <2>2, Zenon
  <2>4. \A k, j \in Nat : Addr(t, k) = Addr(t, j) => k = j
    BY <2>1
  <2>5. QED
    BY <2>3, <2>4, Zenon
<1>3. CASE ~External(graph, t)
  <2>1. /\ First(t) \in Nat /\ Size(t) \in Nat /\ Cells(graph, t) = 0 .. Size(t) - 1
        /\ \A k : Addr(t, k) = <<-1, First(t) + k>>
        /\ First(t) + Size(t) <= peak \div CELL
    BY <1>3, CellPlaces
  <2>2. peak \in Nat /\ peak \div CELL \in Nat
    BY <1>3, PlaceFacts, CellArithmetic DEF External
  <2> DEFINE cells == peak \div CELL
             f == First(t)
  <2>3. \A k \in 0 .. cells - 1 : <<-1, k>> \in Addresses
    BY Zenon DEF Addresses
  <2>4. ASSUME NEW k \in Cells(graph, t)
        PROVE  k \in Nat /\ Addr(t, k) \in Addresses
    <3> DEFINE j == f + k
    <3>1. k \in Nat /\ j \in 0 .. cells - 1
      BY <2>1, <2>2, <2>4
    <3>2. Addr(t, k) = <<-1, j>>
      BY <2>1
    <3> HIDE DEF cells, j
    <3>3. QED
      BY <2>3, <3>1, <3>2
  <2>5. \A k, j \in Nat : Addr(t, k) = Addr(t, j) => k = j
    <3> SUFFICES ASSUME NEW k \in Nat, NEW j \in Nat, Addr(t, k) = Addr(t, j) PROVE k = j
      OBVIOUS
    <3>1. <<-1, f + k>> = <<-1, f + j>>
      BY <2>1
    <3>2. f + k = f + j /\ f \in Nat
      BY <3>1, <2>1
    <3> HIDE DEF f
    <3>3. QED
      BY <3>2
  <2>6. QED
    BY <2>4, <2>5
<1>4. QED
  BY <1>2, <1>3

Apart(t, u) == \A k \in Cells(graph, t), j \in Cells(graph, u) : Addr(t, k) # Addr(u, j)

\* Tensors of the arena with no byte in common have no cell in common.
LEMMA BytesApart ==
  ASSUME Ready, NEW t \in 0 .. NodeCount(graph), NEW u \in 0 .. NodeCount(graph),
         ShouldAllocate(graph, t), ShouldAllocate(graph, u),
         offsets[t] + Bytes(graph, t) <= offsets[u]
  PROVE  Apart(t, u) /\ Apart(u, t)
<1>1. /\ First(t) \in Nat /\ Size(t) \in Nat /\ Cells(graph, t) = 0 .. Size(t) - 1
      /\ First(u) \in Nat /\ Size(u) \in Nat /\ Cells(graph, u) = 0 .. Size(u) - 1
      /\ \A k : Addr(t, k) = <<-1, First(t) + k>>
      /\ \A k : Addr(u, k) = <<-1, First(u) + k>>
      /\ First(t) + Size(t) = (offsets[t] + Bytes(graph, t)) \div CELL
  BY CellPlaces DEF External
<1>2. First(t) + Size(t) <= First(u)
  <2> DEFINE total == offsets[t] + Bytes(graph, t)
             off == offsets[u]
  <2>1. /\ offsets[t] \in Nat /\ offsets[t] % 16 = 0
        /\ Bytes(graph, t) \in Nat /\ Bytes(graph, t) % CELL = 0
        /\ off \in Nat /\ off % 16 = 0
    <3>1. Bytes(graph, t) \in Nat /\ Bytes(graph, t) % CELL = 0
      BY GraphFacts DEF Ready, GraphInv
    <3>2. /\ offsets[t] \in Nat /\ offsets[t] % 16 = 0
          /\ offsets[u] \in Nat /\ offsets[u] % 16 = 0
      BY PlaceFacts
    <3>3. QED
      BY <3>1, <3>2
  <2>2. offsets[t] % CELL = 0 /\ off % CELL = 0 /\ total \in Nat
    <3>1. \A a \in Nat : a % 16 = 0 => a % CELL = 0
      BY CellArithmetic, Zenon
    <3>2. total \in Nat
      BY <2>1
    <3>3. QED
      BY <2>1, <3>1, <3>2, Zenon
  <2>3. total <= off /\ total % CELL = 0
    BY <2>1, <2>2, CellArithmetic
  <2> HIDE DEF total, off
  <2>4. total \div CELL <= off \div CELL
    BY <2>1, <2>2, <2>3, CellArithmetic
  <2>5. QED
    BY <2>4, <1>1 DEF First, total, off
<1>3. \A k \in Cells(graph, t), j \in Cells(graph, u) : First(t) + k # First(u) + j
  <2> DEFINE ft == First(t)  fu == First(u)  st == Size(t)  su == Size(u)
  <2>1. ft \in Nat /\ fu \in Nat /\ st \in Nat /\ su \in Nat /\ ft + st <= fu
    BY <1>1, <1>2
  <2> HIDE DEF ft, fu, st, su
  <2>2. \A k \in 0 .. st - 1, j \in 0 .. su - 1 : ft + k # fu + j
    BY <2>1
  <2>3. QED
    BY <2>2, <1>1 DEF ft, fu, st, su
<1>4. \A a, b : a # b => <<-1, a>> # <<-1, b>>
  OBVIOUS
<1>5. /\ \A k : Addr(t, k) = <<-1, First(t) + k>>
      /\ \A k : Addr(u, k) = <<-1, First(u) + k>>
  BY <1>1
<1>6. Apart(t, u)
  BY <1>3, <1>4, <1>5, Zenon DEF Apart
<1>7. QED
  BY <1>6, Zenon DEF Apart

\* A buffer of the host meets nothing else.
LEMMA ExternalApart ==
  ASSUME Ready, NEW t \in 0 .. NodeCount(graph), NEW u \in 0 .. NodeCount(graph), t # u,
         External(graph, t) \/ External(graph, u)
  PROVE  Apart(t, u)
<1>1. t \in Nat /\ u \in Nat /\ t # -1 /\ u # -1
  BY GraphFacts DEF Ready, GraphInv
<1>2. /\ External(graph, t) => \A k : Addr(t, k) = <<t, k>>
      /\ External(graph, u) => \A k : Addr(u, k) = <<u, k>>
      /\ ~External(graph, t) => \A k : Addr(t, k) = <<-1, First(t) + k>>
      /\ ~External(graph, u) => \A k : Addr(u, k) = <<-1, First(u) + k>>
  BY CellPlaces
<1>3. QED
  BY <1>1, <1>2 DEF Apart

\* Two tensors that are both needed at one node share no cell, unless they have
\* the same owner.
LEMMA OwnersApart ==
  ASSUME Ready, NEW i \in Nat,
         NEW t \in 0 .. NodeCount(graph), NEW u \in 0 .. NodeCount(graph),
         ShouldAllocate(graph, t), ShouldAllocate(graph, u), Owner(t) # Owner(u),
         AnalyzeLifetimes(graph)[t].first <= i, i <= AnalyzeLifetimes(graph)[t].last,
         AnalyzeLifetimes(graph)[u].first <= i, i <= AnalyzeLifetimes(graph)[u].last
  PROVE  Apart(t, u)
<1> DEFINE e == entries[Owner(t)]
           d == entries[Owner(u)]
<1>1. /\ GraphOK /\ InplaceOK /\ ConcatOK /\ LivesOK /\ PackOK
      /\ TensorIds(graph) = 0 .. NodeCount(graph)
  BY GraphFacts DEF Ready, GraphInv
<1>2. ASSUME NEW v \in {t, u}
      PROVE  entries[Owner(v)].first <= i /\ i <= entries[Owner(v)].last
  <2> DEFINE a == AnalyzeLifetimes(graph)[v]
             o == Owner(v)
  <2>1. /\ v \in 0 .. NodeCount(graph) /\ ShouldAllocate(graph, v)
        /\ a \in Lives /\ a.first <= i /\ i <= a.last
    BY AnalyzeFacts, <1>1
  <2>2. o \in DOMAIN entries /\ o \in 0 .. NodeCount(graph)
    BY <2>1, <1>1, PlaceFacts, RootsAndOwners
  <2>3. /\ entries[o].first = lives[o].first /\ entries[o].last = lives[o].last
        /\ Covers(lives[o], a) /\ lives[o] \in Lives
    BY <2>1, <2>2, <1>1 DEF LivesOK, PackOK
  <2>4. QED
    BY <2>1, <2>3 DEF Covers, Lives
<1>3. /\ Owner(t) \in DOMAIN entries /\ Owner(u) \in DOMAIN entries
      /\ P!LivesMeet(e, d)
  <2>1. Owner(t) \in DOMAIN entries /\ Owner(u) \in DOMAIN entries
    BY PlaceFacts
  <2>2. /\ e.first \in Nat /\ e.last \in Nat /\ d.first \in Nat /\ d.last \in Nat
    BY <2>1, <1>1, EntryNumbers
  <2>3. e.first <= i /\ i <= e.last /\ d.first <= i /\ i <= d.last
    BY <1>2
  <2> HIDE DEF e, d
  <2>4. P!LivesMeet(e, d)
    BY <2>2, <2>3 DEF P!LivesMeet
  <2>5. QED
    BY <2>1, <2>4
<1>4. e.off + e.size <= d.off \/ d.off + d.size <= e.off
  BY <1>1, <1>3 DEF PackOK, P!IInv, P!NoLiveOverlap, P!Disjoint, P!End
<1>5. /\ e.off \in Nat /\ e.size \in Nat /\ d.off \in Nat /\ d.size \in Nat
      /\ e.off <= offsets[t] /\ offsets[t] + Bytes(graph, t) <= e.off + e.size
      /\ d.off <= offsets[u] /\ offsets[u] + Bytes(graph, u) <= d.off + d.size
      /\ offsets[t] \in Nat /\ offsets[u] \in Nat
      /\ Bytes(graph, t) \in Nat /\ Bytes(graph, u) \in Nat
  <2>1. ASSUME NEW v \in {t, u}
        PROVE  LET b == entries[Owner(v)]
               IN  /\ b.off \in Nat /\ b.size \in Nat
                   /\ b.off <= offsets[v] /\ offsets[v] + Bytes(graph, v) <= b.off + b.size
                   /\ offsets[v] \in Nat /\ Bytes(graph, v) \in Nat
    <3> DEFINE b == entries[Owner(v)]
    <3>1. /\ b.off \in Nat /\ b.size \in Nat /\ Shift(v) \in Nat
          /\ offsets[v] = b.off + Shift(v) /\ offsets[v] \in Nat
          /\ offsets[v] + Bytes(graph, v) <= b.off + b.size
      BY PlaceFacts
    <3>2. Bytes(graph, v) \in Nat
      BY <1>1, GraphFacts
    <3> HIDE DEF b
    <3>3. b.off <= offsets[v]
      BY <3>1
    <3>4. QED
      BY <3>1, <3>2, <3>3 DEF b
  <2>2. QED
    BY <2>1
<1> HIDE DEF e, d
<1>6. \/ offsets[t] + Bytes(graph, t) <= offsets[u]
      \/ offsets[u] + Bytes(graph, u) <= offsets[t]
  BY <1>4, <1>5
<1>7. QED
  BY <1>6, BytesApart

\* Tensors with one root have one place.
LEMMA SameRoot ==
  ASSUME Ready, NEW t \in 0 .. NodeCount(graph), NEW u \in 0 .. NodeCount(graph),
         ShouldAllocate(graph, t), ShouldAllocate(graph, u),
         Root(inplace, t) = Root(inplace, u)
  PROVE  /\ \A k : Addr(t, k) = Addr(u, k)
         /\ Cells(graph, t) = Cells(graph, u)
<1>1. Owner(t) = Owner(u) /\ Shift(t) = Shift(u)
  BY DEF Owner, Shift
<1>2. offsets[t] = offsets[u]
  BY <1>1, PlaceFacts
<1>3. Bytes(graph, t) = Bytes(graph, u)
  BY RootsAndOwners DEF Ready, GraphInv
<1>4. QED
  BY <1>2, <1>3 DEF Addr, External, Cells

\* The places in one Concat's output: the second input's comes after the first's.
LEMMA SiblingsApart ==
  ASSUME Ready, NEW t \in 0 .. NodeCount(graph), NEW u \in 0 .. NodeCount(graph),
         ShouldAllocate(graph, t), ShouldAllocate(graph, u),
         Root(inplace, t) # Root(inplace, u),
         Root(inplace, t) \in DOMAIN concat, Root(inplace, u) \in DOMAIN concat,
         concat[Root(inplace, t)].parent = concat[Root(inplace, u)].parent
  PROVE  Apart(t, u)
<1> DEFINE r == Root(inplace, t)
           q == Root(inplace, u)
           p == concat[r].parent
           x == NodeAt(graph, p - 1).ins[1]
           y == NodeAt(graph, p - 1).ins[2]
<1>1. /\ GraphOK /\ InplaceOK /\ ConcatOK
  BY DEF Ready, GraphInv
<1>2. /\ r \in {x, y} /\ q \in {x, y} /\ r # q
      /\ concat[r].shift = IF r = y THEN Bytes(graph, x) ELSE 0
      /\ concat[q].shift = IF q = y THEN Bytes(graph, x) ELSE 0
  <2>1. ASSUME NEW z \in DOMAIN concat, concat[z].parent = p
        PROVE  z \in {x, y} /\ concat[z].shift = IF z = y THEN Bytes(graph, x) ELSE 0
    <3>1. LET w == concat[z].parent
          IN  /\ z \in {NodeAt(graph, w - 1).ins[1], NodeAt(graph, w - 1).ins[2]}
              /\ concat[z].shift = IF z = NodeAt(graph, w - 1).ins[2]
                                   THEN Bytes(graph, NodeAt(graph, w - 1).ins[1]) ELSE 0
      BY <1>1, ConcatFacts
    <3>2. QED
      BY <3>1, <2>1
  <2>2. r \in DOMAIN concat /\ q \in DOMAIN concat /\ concat[q].parent = p /\ r # q
    OBVIOUS
  <2> HIDE DEF r, q, p, x, y
  <2>3. concat[r].parent = p
    BY DEF p
  <2>4. QED
    BY <2>1, <2>2, <2>3
<1>3. /\ Bytes(graph, t) = Bytes(graph, r) /\ Bytes(graph, u) = Bytes(graph, q)
      /\ Bytes(graph, t) \in Nat /\ Bytes(graph, u) \in Nat
  BY <1>1, RootsAndOwners, GraphFacts
<1>4. /\ Owner(t) = p /\ Owner(u) = p
      /\ Shift(t) = concat[r].shift /\ Shift(u) = concat[q].shift
  BY DEF Owner, Shift
<1>5. /\ entries[p].off \in Nat
      /\ offsets[t] = entries[p].off + concat[r].shift
      /\ offsets[u] = entries[p].off + concat[q].shift
  BY <1>4, PlaceFacts
<1> HIDE DEF r, q, p, x, y
<1>6. CASE r = x /\ q = y
  <2>1. offsets[t] + Bytes(graph, t) <= offsets[u]
    BY <1>2, <1>3, <1>5, <1>6
  <2>2. QED
    BY <2>1, BytesApart
<1>7. CASE r = y /\ q = x
  <2>1. offsets[u] + Bytes(graph, u) <= offsets[t]
    BY <1>2, <1>3, <1>5, <1>7
  <2>2. QED
    BY <2>1, BytesApart
<1>8. QED
  BY <1>2, <1>6, <1>7

-----------------------------------------------------------------------------
(* What the output of a node overwrites.                                   *)

\* The storage of a node's output meets that of a tensor still needed only if the
\* two have the same owner.
LEMMA OutputApart ==
  ASSUME Ready, NEW i \in Steps(graph), NEW t, NeededAt(t, i),
         \/ External(graph, t) \/ External(graph, i + 1)
         \/ Owner(t) # Owner(i + 1)
  PROVE  Apart(i + 1, t)
<1>1. /\ GraphOK /\ i \in Nat /\ i + 1 \in 0 .. NodeCount(graph)
  BY NodeFacts DEF Ready, GraphInv
<1>2. /\ t \in 0 .. NodeCount(graph) /\ t \in 0 .. i
      /\ AnalyzeLifetimes(graph)[t].first <= i
      /\ i <= AnalyzeLifetimes(graph)[t].last
  BY <1>1, NeededAlive
<1>3. /\ AnalyzeLifetimes(graph)[i + 1].first <= i
      /\ i <= AnalyzeLifetimes(graph)[i + 1].last
  BY <1>1, OutputAlive
<1> DEFINE out == i + 1
<1>4. out # t
  BY <1>1, <1>2
<1> HIDE DEF out
<1>5. CASE External(graph, t) \/ External(graph, out)
  BY <1>1, <1>2, <1>4, <1>5, ExternalApart DEF out
<1>6. CASE /\ ~External(graph, t) /\ ~External(graph, out) /\ Owner(t) # Owner(out)
  BY <1>1, <1>2, <1>3, <1>6, OwnersApart DEF External, out
<1>7. QED
  BY <1>5, <1>6 DEF out

\* An older tensor that has the same owner as an output that is no in-place alias
\* is an input that the output, a Concat's, joins, or a sibling of the output.
LEMMA SameOwner ==
  ASSUME Ready, NEW i \in Steps(graph), NEW t \in 0 .. i,
         i + 1 \notin DOMAIN inplace,
         Owner(t) = Owner(i + 1),
         ShouldAllocate(graph, t), ShouldAllocate(graph, i + 1)
  PROVE  \/ Apart(i + 1, t)
         \/ LET x == NodeAt(graph, i).ins[1]
                y == NodeAt(graph, i).ins[2]
                r == Root(inplace, t)
            IN  /\ NodeAt(graph, i).op = "Concat"
                /\ r \in {x, y}
                /\ offsets[t] = offsets[i + 1] + IF r = y THEN Bytes(graph, x) ELSE 0
<1> DEFINE out == i + 1
           r == Root(inplace, t)
<1>1. /\ GraphOK /\ InplaceOK /\ ConcatOK
      /\ i \in Nat /\ out \in 0 .. NodeCount(graph) /\ NodeCount(graph) \in Nat
  BY NodeFacts, GraphFacts DEF Ready, GraphInv
<1>2. t \in 0 .. NodeCount(graph) /\ t < out /\ (out - 1) = i
  BY <1>1
<1>3. /\ r \in 0 .. t /\ r \in 0 .. NodeCount(graph)
  BY <1>1, <1>2, RootsAndOwners
<1>4. Root(inplace, out) = out
  BY DEF Root
<1> HIDE DEF out
<1>5. r # out /\ r < out /\ r \in Nat /\ out \in Nat
  BY <1>1, <1>2, <1>3
<1>6. /\ Owner(out) = IF out \in DOMAIN concat THEN concat[out].parent ELSE out
      /\ Owner(t) = IF r \in DOMAIN concat THEN concat[r].parent ELSE r
      /\ Owner(t) = Owner(out)
      /\ Shift(t) = IF r \in DOMAIN concat THEN concat[r].shift ELSE 0
      /\ Shift(out) = IF out \in DOMAIN concat THEN concat[out].shift ELSE 0
  BY <1>4 DEF Owner, Shift, out
<1> HIDE DEF r
<1>7. r \in DOMAIN concat
  <2>1. out \in DOMAIN concat => out < concat[out].parent /\ concat[out].parent \in Nat
    BY <1>1, ConcatFacts
  <2>2. QED
    BY <2>1, <1>5, <1>6
<1>8. CASE out \in DOMAIN concat
  <2>1. concat[out].parent = concat[r].parent
    BY <1>6, <1>7, <1>8
  <2>2. Apart(out, t)
    BY <2>1, <1>1, <1>2, <1>4, <1>5, <1>7, <1>8, SiblingsApart DEF r, out
  <2>3. QED
    BY <2>2 DEF out
<1>9. CASE out \notin DOMAIN concat
  <2>1. concat[r].parent = out
    BY <1>6, <1>7, <1>9
  <2>2. /\ NodeAt(graph, out - 1).op = "Concat"
        /\ r \in {NodeAt(graph, out - 1).ins[1], NodeAt(graph, out - 1).ins[2]}
        /\ concat[r].shift = IF r = NodeAt(graph, out - 1).ins[2]
                             THEN Bytes(graph, NodeAt(graph, out - 1).ins[1]) ELSE 0
        /\ concat[r].shift \in Nat
    BY <2>1, <1>1, <1>7, ConcatFacts
  <2>3. offsets[t] = offsets[out] + concat[r].shift
    <3>1. /\ offsets[t] = entries[Owner(t)].off + Shift(t)
          /\ offsets[out] = entries[Owner(out)].off + Shift(out)
          /\ entries[Owner(out)].off \in Nat
      BY <1>1, <1>2, PlaceFacts DEF out
    <3>2. /\ Shift(out) = 0 /\ Shift(t) = concat[r].shift
      BY <1>6, <1>7, <1>9
    <3> DEFINE base == entries[Owner(out)].off
    <3>3. entries[Owner(t)].off = base
      BY <1>6
    <3> HIDE DEF base
    <3>4. offsets[t] = base + concat[r].shift /\ offsets[out] = base /\ base \in Nat
      BY <3>1, <3>2, <3>3 DEF base
    <3>5. QED
      BY <3>4
  <2>4. QED
    BY <2>2, <2>3, <1>2 DEF r, out
<1>10. QED
  BY <1>8, <1>9

\* No node but a Concat, and no node in place, overwrites a tensor still needed.
LEMMA Undisturbed ==
  ASSUME Ready, NEW i \in Steps(graph), NEW t, NeededAt(t, i),
         i + 1 \notin DOMAIN inplace, NodeAt(graph, i).op # "Concat"
  PROVE  Apart(i + 1, t)
<1>1. t \in 0 .. i
  BY DEF NeededAt
<1>2. QED
  BY <1>1, OutputApart, SameOwner DEF External

\* A Concat's output meets a tensor still needed only where the tensor is one of
\* its inputs, already in place.
LEMMA ConcatPlaces ==
  ASSUME Ready, NEW i \in Steps(graph), NodeAt(graph, i).op = "Concat",
         NEW t, NeededAt(t, i)
  PROVE  LET x == NodeAt(graph, i).ins[1]
             y == NodeAt(graph, i).ins[2]
         IN  \/ Apart(i + 1, t)
             \/ /\ \A k \in Nat : Addr(t, k) = Addr(x, k) /\ Addr(t, k) = Addr(i + 1, k)
                /\ Cells(graph, t) = Cells(graph, x)
             \/ /\ \A k \in Nat : Addr(t, k) = Addr(y, k) /\ Addr(t, k) = Addr(i + 1, k + Size(x))
                /\ Cells(graph, t) = Cells(graph, y)
<1> DEFINE out == i + 1
           x == NodeAt(graph, i).ins[1]
           y == NodeAt(graph, i).ins[2]
           r == Root(inplace, t)
<1>1. /\ GraphOK /\ InplaceOK /\ ConcatOK
      /\ i \in Nat /\ out \in 0 .. NodeCount(graph) /\ NodeCount(graph) \in Nat
      /\ x \in 0 .. i /\ y \in 0 .. i
  BY NodeFacts, GraphFacts DEF Ready, GraphInv
<1>2. t \in 0 .. i /\ t \in 0 .. NodeCount(graph) /\ x \in 0 .. NodeCount(graph) /\ y \in 0 .. NodeCount(graph)
  BY <1>1 DEF NeededAt
<1>3. out \notin DOMAIN inplace
  <2>1. (out - 1) = i
    BY <1>1
  <2>2. "Concat" \notin INPLACE_SHAPE_ONLY_OPS \cup INPLACE_ELEMENTWISE_OPS
    BY DEF INPLACE_SHAPE_ONLY_OPS, INPLACE_ELEMENTWISE_OPS
  <2> HIDE DEF out
  <2>3. QED
    BY <1>1, <2>1, <2>2 DEF InplaceOK
<1>4. CASE External(graph, t) \/ External(graph, out) \/ Owner(t) # Owner(out)
  BY <1>4, OutputApart
<1>5. CASE ~External(graph, t) /\ ~External(graph, out) /\ Owner(t) = Owner(out) /\ ~Apart(out, t)
  <2>1. /\ ShouldAllocate(graph, t) /\ ShouldAllocate(graph, out)
    BY <1>5 DEF External
  <2>2. /\ r \in {x, y}
        /\ offsets[t] = offsets[out] + IF r = y THEN Bytes(graph, x) ELSE 0
    BY <1>2, <1>3, <1>5, <2>1, SameOwner
  <2>3. /\ r \notin DOMAIN inplace /\ ShouldAllocate(graph, r) /\ r \in 0 .. NodeCount(graph)
    BY <1>1, <1>2, <2>1, RootsAndOwners
  <2>4. Root(inplace, r) = r
    BY <2>3 DEF Root
  <2> HIDE DEF x, y
  <2>5. /\ \A k : Addr(t, k) = Addr(r, k)
        /\ Cells(graph, t) = Cells(graph, r)
    <3>1. r = Root(inplace, t)
      OBVIOUS
    <3> HIDE DEF r
    <3>2. QED
      BY <1>2, <2>1, <2>3, <2>4, <3>1, SameRoot
  <2> HIDE DEF r
  <2>6. /\ \A k : Addr(t, k) = <<-1, First(t) + k>>
        /\ \A k : Addr(out, k) = <<-1, First(out) + k>>
        /\ First(out) \in Nat
    BY <1>1, <1>2, <1>5, CellPlaces
  <2>7. offsets[out] \in Nat /\ offsets[out] % CELL = 0
        /\ Bytes(graph, x) \in Nat /\ Bytes(graph, x) % CELL = 0
    <3>1. offsets[out] \in Nat /\ offsets[out] % 16 = 0
      BY <1>1, <2>1, PlaceFacts
    <3>2. Bytes(graph, x) \in Nat /\ Bytes(graph, x) % CELL = 0
      BY <1>1, <1>2, GraphFacts
    <3>3. \A a \in Nat : a % 16 = 0 => a % CELL = 0
      BY CellArithmetic, Zenon
    <3>4. QED
      BY <3>1, <3>2, <3>3, Zenon
  <2>8. CASE r = y
    <3> DEFINE b == Bytes(graph, x)
               o == offsets[out]
    <3>1. offsets[t] = o + b /\ b \in Nat /\ o \in Nat /\ b % CELL = 0 /\ o % CELL = 0
      BY <2>2, <2>7, <2>8
    <3> HIDE DEF b, o
    <3>2. (o + b) \div CELL = (o \div CELL) + (b \div CELL) /\ b \div CELL \in Nat
      BY <3>1, CellArithmetic
    <3>3. First(t) = First(out) + Size(x) /\ Size(x) \in Nat
      BY <3>1, <3>2 DEF First, Size, b, o
    <3>4. \A k \in Nat : First(t) + k = First(out) + (k + Size(x))
      BY <3>3, <2>6
    <3>5. \A k \in Nat : Addr(t, k) = Addr(out, k + Size(x))
      BY <3>4, <2>6
    <3>6. QED
      BY <3>5, <2>5, <2>8 DEF x, y, out
  <2>9. CASE r # y
    <3>1. offsets[t] = offsets[out] /\ r = x
      BY <2>2, <2>7, <2>9
    <3>2. First(t) = First(out)
      BY <3>1 DEF First
    <3>3. QED
      BY <3>1, <3>2, <2>5, <2>6 DEF x, y, out
  <2>10. QED
    BY <2>8, <2>9
<1>6. QED
  BY <1>4, <1>5

-----------------------------------------------------------------------------
(* Kernels.                                                                *)

Held(mem, t) == \A k \in Cells(graph, t) : Holds(mem, t, k)

\* What node i finds in memory when in-place rewriting is safe.
Loaded(i) ==
  /\ Ready
  /\ i \in Steps(graph)
  /\ InPlaceIsSafe
  /\ DOMAIN memory = Addresses
  /\ \A t : NeededAt(t, i) => Held(memory, t)

\* What it leaves there.
Stored(m, i) ==
  /\ DOMAIN m = Addresses
  /\ Held(m, i + 1)
  /\ \A t \in 0 .. i : NeededAt(t, i + 1) => Held(m, t)

\* What a copy leaves in memory.
Copied(m, mem, from, to, shift) ==
  /\ DOMAIN m = Addresses
  /\ \A k \in Cells(graph, from) : m[Addr(to, k + shift)] = mem[Addr(from, k)]
  /\ \A a \in Addresses :
       (\A k \in Cells(graph, from) : a # Addr(to, k + shift)) => m[a] = mem[a]

\* A copy puts each cell where it belongs and touches no other.
LEMMA CopyInto ==
  ASSUME Ready, NEW mem, DOMAIN mem = Addresses, NEW shift \in Nat,
         NEW from \in 0 .. NodeCount(graph), NEW to \in 0 .. NodeCount(graph),
         \A k \in Cells(graph, from) : k + shift \in Cells(graph, to)
  PROVE  Copied(CopyCells(mem, from, to, shift), mem, from, to, shift)
<1> DEFINE m == CopyCells(mem, from, to, shift)
           cells == Cells(graph, from)
           At(a) == CHOOSE k \in cells : a = Addr(to, k + shift)
<1>1. /\ DOMAIN m = Addresses
      /\ \A a \in Addresses :
           m[a] = IF \E k \in cells : a = Addr(to, k + shift)
                  THEN mem[Addr(from, At(a))] ELSE mem[a]
  BY Zenon DEF CopyCells
<1> HIDE DEF m
<1>2. ASSUME NEW k \in cells PROVE m[Addr(to, k + shift)] = mem[Addr(from, k)]
  <2> DEFINE a == Addr(to, k + shift)
  <2>1. a \in Addresses
    BY AddrFacts
  <2>2. At(a) \in cells /\ a = Addr(to, At(a) + shift)
    BY Zenon
  <2>3. k \in Nat /\ At(a) \in Nat
    BY <2>2, AddrFacts
  <2> DEFINE j == At(a)
  <2>4. j \in Nat /\ Addr(to, k + shift) = Addr(to, j + shift)
    BY <2>2, <2>3
  <2> HIDE DEF j
  <2>5. k + shift = j + shift
    <3>1. k + shift \in Nat /\ j + shift \in Nat
      BY <2>3, <2>4
    <3>2. QED
      BY <3>1, <2>4, AddrFacts
  <2>6. j = k
    BY <2>3, <2>4, <2>5
  <2>7. m[a] = mem[Addr(from, j)]
    BY <1>1, <2>1, Zenon DEF j
  <2>8. QED
    BY <2>6, <2>7
<1>3. QED
  BY <1>1, <1>2, Zenon DEF m, Copied

\* The tensors a node reads are needed at it.
LEMMA InputsNeeded ==
  ASSUME GraphOK, NEW i \in Steps(graph), NEW t \in ToSet(NodeAt(graph, i).ins)
  PROVE  NeededAt(t, i) /\ t \in 0 .. i /\ t \in 0 .. NodeCount(graph)
<1>1. i \in Consumers(graph, t)
  BY DEF Consumers, Steps
<1>2. t \in 0 .. i /\ i \in Nat /\ i + 1 \in 0 .. NodeCount(graph)
  BY <1>1, ReadersAreLater, NodeFacts
<1>3. i >= i /\ t \in 0 .. NodeCount(graph)
  BY <1>2, GraphFacts
<1>4. QED
  BY <1>1, <1>2, <1>3 DEF NeededAt

\* What is needed at the next node is needed at this one, if it exists already.
LEMMA NeededBefore ==
  ASSUME GraphOK, NEW i \in Steps(graph), NEW t \in 0 .. i, NeededAt(t, i + 1)
  PROVE  NeededAt(t, i) /\ (t \in graph.outputs \/ \E c \in Consumers(graph, t) : c > i)
<1>1. i \in Nat
  BY NodeFacts
<1>2. \A c \in Consumers(graph, t) : c \in Nat
  BY ReadersAreLater
<1>3. \A c \in Consumers(graph, t) : c >= i + 1 => c >= i /\ c > i
  BY <1>1, <1>2
<1>4. QED
  BY <1>3 DEF NeededAt

\* An in-place output lies exactly where its input does.
LEMMA InPlaceFacts ==
  ASSUME Ready, NEW i \in Steps(graph), i + 1 \in DOMAIN inplace
  PROVE  LET in == NodeAt(graph, i).ins[1]
         IN  /\ \A k : Addr(in, k) = Addr(i + 1, k)
             /\ Cells(graph, in) = Cells(graph, i + 1)
             /\ Owner(in) = Owner(i + 1)
             /\ ShouldAllocate(graph, i + 1)
<1> DEFINE in == NodeAt(graph, i).ins[1]
           out == i + 1
<1>1. /\ InplaceOK /\ i \in Nat /\ out \in 0 .. NodeCount(graph)
      /\ NodeCount(graph) \in Nat
      /\ in \in 0 .. i /\ out - 1 = i
  BY NodeFacts, GraphFacts DEF Ready, GraphInv
<1>2. in \in 0 .. NodeCount(graph)
  BY <1>1
<1> HIDE DEF out
<1>3. /\ ShouldAllocate(graph, out) /\ ShouldAllocate(graph, inplace[out])
      /\ inplace[out] = Root(inplace, in)
  BY <1>1 DEF InplaceOK, out
<1> HIDE DEF in
<1>4. Root(inplace, in) = Root(inplace, out)
  BY <1>3 DEF Root, out
<1>5. ShouldAllocate(graph, in)
  <2>1. CASE in \in DOMAIN inplace
    BY <2>1, <1>1 DEF InplaceOK
  <2>2. CASE in \notin DOMAIN inplace
    BY <2>2, <1>3 DEF Root
  <2>3. QED
    BY <2>1, <2>2
<1>6. Owner(in) = Owner(out)
  BY <1>4 DEF Owner
<1>7. (\A k : Addr(in, k) = Addr(out, k)) /\ Cells(graph, in) = Cells(graph, out)
  BY <1>1, <1>2, <1>3, <1>4, <1>5, SameRoot
<1>8. QED
  BY <1>3, <1>6, <1>7 DEF in, out

\* A tensor apart from what is written keeps its value.
LEMMA ApartHeld ==
  ASSUME Ready, NEW t \in 0 .. NodeCount(graph), NEW u, Apart(u, t),
         NEW mem, NEW m, Held(mem, t),
         \A a \in Addresses : (\A k \in Cells(graph, u) : a # Addr(u, k)) => m[a] = mem[a]
  PROVE  Held(m, t)
<1> SUFFICES ASSUME NEW j \in Cells(graph, t) PROVE Holds(m, t, j)
  BY DEF Held
<1>1. Addr(t, j) \in Addresses /\ \A k \in Cells(graph, u) : Addr(t, j) # Addr(u, k)
  BY AddrFacts, Zenon DEF Apart
<1>2. m[Addr(t, j)] = mem[Addr(t, j)]
  BY <1>1
<1>3. QED
  BY <1>2 DEF Held, Holds

\* A copying op moves the cells of its input.
LEMMA ShapeKernelRight ==
  ASSUME NEW i \in Nat, Loaded(i), NodeAt(graph, i).op \in INPLACE_SHAPE_ONLY_OPS
  PROVE  Stored(CopyCells(memory, NodeAt(graph, i).ins[1], OutOf(graph, i), 0), i)
<1> DEFINE in == NodeAt(graph, i).ins[1]
           out == i + 1
           m == CopyCells(memory, in, out, 0)
<1>1. /\ Ready /\ GraphOK /\ MeaningOK /\ i \in Steps(graph) /\ DOMAIN memory = Addresses
      /\ \A t : NeededAt(t, i) => Held(memory, t)
  BY DEF Loaded, Ready, GraphInv
<1>2. /\ out \in 0 .. NodeCount(graph) /\ OutOf(graph, i) = out
      /\ in \in 0 .. i /\ in \in ToSet(NodeAt(graph, i).ins)
      /\ Bytes(graph, out) = Bytes(graph, in)
  <2>1. NodeAt(graph, i).op \in INPLACE_SHAPE_ONLY_OPS \cup INPLACE_ELEMENTWISE_OPS
    OBVIOUS
  <2>2. OutOf(graph, i) = 1 + i /\ 1 + i = out
    BY <1>1, GraphFacts
  <2>3. QED
    BY <1>1, <2>1, <2>2, NodeFacts
<1>3. NeededAt(in, i) /\ in \in 0 .. NodeCount(graph)
  BY <1>1, <1>2, InputsNeeded
<1>4. Cells(graph, in) = Cells(graph, out)
  BY <1>2 DEF Cells
<1>5. \A k : Correct(in, k) = Correct(out, k)
  <2>1. meaning[i + 2] = meaning[in + 1]
    BY <1>1, Zenon DEF MeaningOK
  <2>2. i + 2 = out + 1
    OBVIOUS
  <2>3. QED
    BY <2>1, <2>2 DEF Correct
<1> HIDE DEF out, in
<1>6. \A k \in Cells(graph, in) : k \in Nat /\ k + 0 = k
  BY <1>3, <1>1, AddrFacts
<1>7. /\ DOMAIN m = Addresses
      /\ \A k \in Cells(graph, in) : m[Addr(out, k)] = memory[Addr(in, k)]
      /\ \A a \in Addresses : (\A k \in Cells(graph, in) : a # Addr(out, k)) => m[a] = memory[a]
  <2>1. \A k \in Cells(graph, in) : k + 0 \in Cells(graph, out)
    BY <1>4, <1>6
  <2>2. /\ DOMAIN m = Addresses
        /\ \A k \in Cells(graph, in) : m[Addr(out, k + 0)] = memory[Addr(in, k)]
        /\ \A a \in Addresses : (\A k \in Cells(graph, in) : a # Addr(out, k + 0)) => m[a] = memory[a]
    <3>1. 0 \in Nat
      OBVIOUS
    <3>2. Copied(m, memory, in, out, 0)
      BY <1>1, <1>2, <1>3, <2>1, <3>1, CopyInto
    <3>3. QED
      BY <3>2, Zenon DEF Copied
  <2> HIDE DEF m
  <2>3. QED
    BY <2>2, <1>6
<1> HIDE DEF m
<1>8. Held(m, out)
  BY <1>1, <1>3, <1>4, <1>5, <1>7 DEF Held, Holds
<1>9. ASSUME NEW t \in 0 .. i, NeededAt(t, i + 1)
      PROVE  Held(m, t)
  <2>1. NeededAt(t, i) /\ Held(memory, t) /\ t \in 0 .. NodeCount(graph)
    BY <1>1, <1>2, <1>9, NeededBefore, NeededAlive
  <2>2. CASE out \in DOMAIN inplace
    <3>1. \A k : Addr(in, k) = Addr(out, k)
      BY <1>1, <2>2, InPlaceFacts DEF in, out
    <3>2. \A a \in Addresses : m[a] = memory[a]
      BY <3>1, <1>7
    <3>3. QED
      BY <3>2, <2>1, <1>1, AddrFacts DEF Held, Holds
  <2>3. CASE out \notin DOMAIN inplace
    <3>1. NodeAt(graph, i).op # "Concat"
      BY DEF INPLACE_SHAPE_ONLY_OPS
    <3>2. Apart(out, t)
      BY <1>1, <2>1, <2>3, <3>1, Undisturbed DEF out
    <3>3. QED
      BY <3>2, <1>1, <1>4, <1>7, <2>1, ApartHeld
  <2>4. QED
    BY <2>2, <2>3
<1>10. QED
  BY <1>2, <1>7, <1>8, <1>9 DEF Stored, m, in, out

\* A kernel that writes the right values in its output and nothing else, when its
\* output is apart from what is still needed.
LEMMA WritesRight ==
  ASSUME NEW i \in Nat, Loaded(i), NEW m, DOMAIN m = Addresses,
         \A k \in Cells(graph, i + 1) : m[Addr(i + 1, k)] = Correct(i + 1, k),
         \A a \in Addresses : a \notin Footprint(i + 1) => m[a] = memory[a],
         \A t \in 0 .. i : NeededAt(t, i + 1) => Apart(i + 1, t)
  PROVE  Stored(m, i)
<1>1. /\ Ready /\ GraphOK /\ i \in Steps(graph)
      /\ \A t : NeededAt(t, i) => Held(memory, t)
  BY DEF Loaded, Ready, GraphInv
<1>2. \A a \in Addresses : (\A k \in Cells(graph, i + 1) : a # Addr(i + 1, k)) => m[a] = memory[a]
  BY Zenon DEF Footprint
<1>3. ASSUME NEW t \in 0 .. i, NeededAt(t, i + 1)
      PROVE  Held(m, t)
  <2>1. NeededAt(t, i) /\ Held(memory, t) /\ t \in 0 .. NodeCount(graph)
    BY <1>1, <1>3, NeededBefore, NeededAlive
  <2>2. QED
    BY <1>1, <1>2, <1>3, <2>1, ApartHeld
<1>4. QED
  BY <1>3 DEF Stored, Held, Holds

\* Tensors apart have disjoint footprints.
LEMMA ApartFootprints ==
  ASSUME NEW t, NEW u, Apart(u, t)
  PROVE  Footprint(t) \cap Footprint(u) = {}
BY Zenon DEF Footprint, Apart

\* The cell of a tensor at an address.
LEMMA CellAt ==
  ASSUME Ready, NEW t \in 0 .. NodeCount(graph), NEW k \in Cells(graph, t)
  PROVE  /\ Addr(t, k) \in Addresses /\ Addr(t, k) \in Footprint(t)
         /\ (CHOOSE j \in Cells(graph, t) : Addr(t, k) = Addr(t, j)) = k
<1> DEFINE c == CHOOSE j \in Cells(graph, t) : Addr(t, k) = Addr(t, j)
<1>1. c \in Cells(graph, t) /\ Addr(t, k) = Addr(t, c)
  BY Zenon
<1> HIDE DEF c
<1>2. c = k
  BY <1>1, AddrFacts
<1>3. Addr(t, k) \in Footprint(t)
  BY Zenon DEF Footprint
<1>4. QED
  BY <1>2, <1>3, AddrFacts DEF c

\* A node that computes reads its inputs apart from its output.
LEMMA ComputeKernelRight ==
  ASSUME NEW i \in Nat, Loaded(i),
         NodeAt(graph, i).op \notin INPLACE_SHAPE_ONLY_OPS \cup INPLACE_ELEMENTWISE_OPS,
         NodeAt(graph, i).op # "Concat"
  PROVE  Stored(ComputeKernel(i), i)
<1> DEFINE out == OutOf(graph, i)
           ins == ToSet(NodeAt(graph, i).ins)
           m == ComputeKernel(i)
           clean == \A t \in ins : Intact(t) /\ Footprint(t) \cap Footprint(out) = {}
<1>1. /\ Ready /\ GraphOK /\ InplaceOK /\ i \in Steps(graph)
      /\ \A t : NeededAt(t, i) => Held(memory, t)
      /\ out \in 0 .. NodeCount(graph) /\ out = i + 1 /\ out - 1 = i
  BY NodeFacts, GraphFacts DEF Loaded, Ready, GraphInv
<1>2. out \notin DOMAIN inplace
  <2> HIDE DEF out
  <2>1. QED
    BY <1>1 DEF InplaceOK
<1>3. \A t : NeededAt(t, i) => Apart(out, t)
  BY <1>1, <1>2, Undisturbed
<1>4. clean
  <2> SUFFICES ASSUME NEW t \in ins
               PROVE  Intact(t) /\ Footprint(t) \cap Footprint(out) = {}
    OBVIOUS
  <2>1. NeededAt(t, i)
    BY <1>1, InputsNeeded
  <2>2. Intact(t)
    BY <2>1, <1>1, Zenon DEF Held, Intact
  <2>3. QED
    BY <2>1, <2>2, <1>3, ApartFootprints
<1>5. m = [a \in Addresses |->
             IF a \in Footprint(out)
             THEN IF clean
                  THEN Correct(out, CHOOSE k \in Cells(graph, out) : a = Addr(out, k))
                  ELSE Garbage
             ELSE memory[a]]
  BY Zenon DEF ComputeKernel
<1> HIDE DEF m, clean, ins, out
<1>6. DOMAIN m = Addresses /\ \A a \in Addresses : a \notin Footprint(out) => m[a] = memory[a]
  BY <1>5
<1>7. \A k \in Cells(graph, out) : m[Addr(out, k)] = Correct(out, k)
  <2> SUFFICES ASSUME NEW k \in Cells(graph, out) PROVE m[Addr(out, k)] = Correct(out, k)
    OBVIOUS
  <2>1. /\ Addr(out, k) \in Addresses /\ Addr(out, k) \in Footprint(out)
        /\ (CHOOSE j \in Cells(graph, out) : Addr(out, k) = Addr(out, j)) = k
    BY <1>1, CellAt
  <2>2. QED
    BY <2>1, <1>4, <1>5
<1>8. \A t \in 0 .. i : NeededAt(t, i + 1) => Apart(i + 1, t)
  BY <1>1, <1>3, NeededBefore
<1>9. QED
  BY <1>1, <1>6, <1>7, <1>8, WritesRight DEF m

\* Relu in place reads each cell before it writes it, and what it overwrites is
\* not needed again.
LEMMA ReluKernelRight ==
  ASSUME NEW i \in Nat, Loaded(i), NodeAt(graph, i).op = "Relu"
  PROVE  Stored(ReluKernel(i), i)
<1> DEFINE out == OutOf(graph, i)
           in == NodeAt(graph, i).ins[1]
           m == ReluKernel(i)
           clean == \/ \A k \in Cells(graph, in) : Addr(in, k) = Addr(out, k)
                    \/ Footprint(in) \cap Footprint(out) = {}
<1>1. /\ Ready /\ GraphOK /\ InplaceOK /\ i \in Steps(graph) /\ InPlaceIsSafe
      /\ \A t : NeededAt(t, i) => Held(memory, t)
      /\ out \in 0 .. NodeCount(graph) /\ out = i + 1 /\ out - 1 = i
  BY NodeFacts, GraphFacts DEF Loaded, Ready, GraphInv
<1>2. /\ in \in ToSet(NodeAt(graph, i).ins) /\ NeededAt(in, i)
      /\ Cells(graph, in) = Cells(graph, out)
  <2>1. NodeAt(graph, i).op \in INPLACE_SHAPE_ONLY_OPS \cup INPLACE_ELEMENTWISE_OPS
    BY DEF INPLACE_ELEMENTWISE_OPS
  <2>2. in \in ToSet(NodeAt(graph, i).ins) /\ Bytes(graph, out) = Bytes(graph, in)
    BY <1>1, <2>1, NodeFacts
  <2>3. Cells(graph, in) = Cells(graph, out)
    BY <2>2 DEF Cells
  <2>4. QED
    BY <1>1, <2>2, <2>3, InputsNeeded
<1>3. NodeAt(graph, i).op # "Concat"
  OBVIOUS
<1>4. \A t : NeededAt(t, i) /\ out \notin DOMAIN inplace => Apart(out, t)
  BY <1>1, <1>3, Undisturbed
<1>5. clean
  <2>1. CASE out \in DOMAIN inplace
    BY <2>1, <1>1, InPlaceFacts
  <2>2. CASE out \notin DOMAIN inplace
    BY <2>2, <1>2, <1>4, ApartFootprints
  <2>3. QED
    BY <2>1, <2>2
<1>6. m = [a \in Addresses |->
             IF a \in Footprint(out)
             THEN LET k == CHOOSE j \in Cells(graph, out) : a = Addr(out, j)
                  IN  IF clean /\ Holds(memory, in, k) THEN Correct(out, k) ELSE Garbage
             ELSE memory[a]]
  BY Zenon DEF ReluKernel
<1> HIDE DEF m, clean, out
<1>7. DOMAIN m = Addresses /\ \A a \in Addresses : a \notin Footprint(out) => m[a] = memory[a]
  BY <1>6
<1>8. \A k \in Cells(graph, out) : m[Addr(out, k)] = Correct(out, k)
  <2> SUFFICES ASSUME NEW k \in Cells(graph, out) PROVE m[Addr(out, k)] = Correct(out, k)
    OBVIOUS
  <2>1. /\ Addr(out, k) \in Addresses /\ Addr(out, k) \in Footprint(out)
        /\ (CHOOSE j \in Cells(graph, out) : Addr(out, k) = Addr(out, j)) = k
    BY <1>1, CellAt
  <2>2. Holds(memory, in, k)
    BY <1>1, <1>2 DEF Held
  <2>3. QED
    BY <2>1, <2>2, <1>5, <1>6
<1>9. ASSUME NEW t \in 0 .. i, NeededAt(t, i + 1)
      PROVE  Apart(i + 1, t)
  <2>1. NeededAt(t, i) /\ (t \in graph.outputs \/ \E c \in Consumers(graph, t) : c > i)
    BY <1>1, <1>9, NeededBefore
  <2>2. CASE out \in DOMAIN inplace
    <3>1. i \in 0 .. NodeCount(graph) - 1 /\ t \in 0 .. out - 1
      BY <1>1 DEF Steps
    <3>2. Owner(t) = Owner(out) =>
            /\ t \notin graph.outputs /\ \A c \in Consumers(graph, t) : c <= i
      BY <3>1, <2>2, <1>1, Zenon DEF InPlaceIsSafe, out
    <3>3. \A c \in Consumers(graph, t) : c \in Nat
      BY <1>1, ReadersAreLater
    <3>4. Owner(t) # Owner(out)
      BY <2>1, <3>2, <3>3
    <3>5. QED
      BY <1>1, <2>1, <3>4, OutputApart
  <2>3. CASE out \notin DOMAIN inplace
    BY <2>1, <2>3, <1>1, <1>4
  <2>4. QED
    BY <2>2, <2>3
<1>10. QED
  BY <1>1, <1>7, <1>8, <1>9, WritesRight DEF m

\* The cells of a Concat's output are those of its inputs, one after the other.
LEMMA ConcatCells ==
  ASSUME GraphOK, MeaningOK, Ready, NEW i \in Steps(graph), NodeAt(graph, i).op = "Concat"
  PROVE  LET x == NodeAt(graph, i).ins[1]
             y == NodeAt(graph, i).ins[2]
             out == i + 1
         IN  /\ x \in 0 .. NodeCount(graph) /\ y \in 0 .. NodeCount(graph)
             /\ x \in ToSet(NodeAt(graph, i).ins) /\ y \in ToSet(NodeAt(graph, i).ins)
             /\ Size(x) \in Nat /\ Size(y) \in Nat
             /\ Cells(graph, x) = 0 .. Size(x) - 1 /\ Cells(graph, y) = 0 .. Size(y) - 1
             /\ Cells(graph, out) = 0 .. Size(x) + Size(y) - 1
             /\ \A k \in Cells(graph, x) : Correct(out, k) = Correct(x, k)
             /\ \A k \in Cells(graph, y) : Correct(out, k + Size(x)) = Correct(y, k)
<1> DEFINE x == NodeAt(graph, i).ins[1]
           y == NodeAt(graph, i).ins[2]
           out == i + 1
<1>1. /\ i \in Nat /\ out \in 0 .. NodeCount(graph) /\ NodeCount(graph) \in Nat
      /\ x \in 0 .. i /\ y \in 0 .. i
      /\ x \in ToSet(NodeAt(graph, i).ins) /\ y \in ToSet(NodeAt(graph, i).ins)
      /\ Bytes(graph, out) = Bytes(graph, x) + Bytes(graph, y)
  BY NodeFacts, GraphFacts
<1>2. x \in 0 .. NodeCount(graph) /\ y \in 0 .. NodeCount(graph)
  BY <1>1
<1>3. meaning[i + 2] = meaning[x + 1] \o meaning[y + 1]
  BY Zenon DEF MeaningOK
<1>4. out + 1 = i + 2
  BY <1>1
<1> HIDE DEF x, y, out
<1>5. /\ Size(x) \in Nat /\ Size(y) \in Nat
      /\ Cells(graph, x) = 0 .. Size(x) - 1 /\ Cells(graph, y) = 0 .. Size(y) - 1
      /\ Cells(graph, out) = 0 .. Size(out) - 1
  BY <1>1, <1>2, CellPlaces
<1>6. Size(out) = Size(x) + Size(y)
  <2> DEFINE a == Bytes(graph, x)
             b == Bytes(graph, y)
  <2>1. a \in Nat /\ a % CELL = 0 /\ b \in Nat /\ b % CELL = 0
    BY <1>2, GraphFacts
  <2> HIDE DEF a, b
  <2>2. (a + b) \div CELL = (a \div CELL) + (b \div CELL)
    BY <2>1, CellArithmetic
  <2>3. QED
    BY <2>2, <1>1 DEF Size, a, b
<1> DEFINE mx == meaning[x + 1]
           my == meaning[y + 1]
           sx == Size(x)
           sy == Size(y)
           Rows == Seq(Nat \X Nat)
<1>7. mx \in Rows /\ my \in Rows /\ Len(mx) = sx /\ Len(my) = sy
  <2>1. x \in TensorIds(graph) /\ y \in TensorIds(graph)
    BY <1>2, GraphFacts
  <2>2. Len(mx) = sx /\ Len(my) = sy
    BY <2>1, Zenon DEF MeaningOK, Size
  <2>3. meaning \in Seq(Rows) /\ Len(meaning) = NodeCount(graph) + 1
    BY DEF MeaningOK
  <2> HIDE DEF Rows
  <2>4. x + 1 \in 1 .. Len(meaning) /\ y + 1 \in 1 .. Len(meaning)
    BY <1>1, <1>2, <2>3
  <2>5. mx \in Rows /\ my \in Rows
    BY <2>3, <2>4
  <2>6. QED
    BY <2>2, <2>5
<1>8. /\ \A k \in 0 .. sx - 1 : (mx \o my)[k + 1] = mx[k + 1]
      /\ \A k \in 0 .. sy - 1 : (mx \o my)[k + sx + 1] = my[k + 1]
  <2> HIDE DEF mx, my
  <2>1. sx \in Nat /\ sy \in Nat
    BY <1>5
  <2> HIDE DEF sx, sy
  <2>2. \A k \in 0 .. sx - 1 : (mx \o my)[k + 1] = mx[k + 1]
    BY <1>7, <2>1
  <2>3. ASSUME NEW k \in 0 .. sy - 1
        PROVE  (mx \o my)[k + sx + 1] = my[k + 1]
    <3> DEFINE n == k + sx + 1
    <3>1. n \in 1 .. Len(mx) + Len(my) /\ ~(n <= Len(mx)) /\ n - Len(mx) = k + 1
      BY <1>7, <2>1
    <3> HIDE DEF n
    <3>2. (mx \o my)[n] = my[n - Len(mx)]
      <4> DEFINE Cell == Nat \X Nat
      <4>1. mx \in Seq(Cell) /\ my \in Seq(Cell)
        BY <1>7
      <4> HIDE DEF Cell
      <4>2. (mx \o my)[n] = IF n <= Len(mx) THEN mx[n] ELSE my[n - Len(mx)]
        BY <3>1, <4>1, ConcatProperties
      <4>3. QED
        BY <3>1, <4>2
    <3>3. QED
      BY <3>1, <3>2 DEF n
  <2>4. QED
    BY <2>2, <2>3
<1>9. \A k \in Cells(graph, x) : Correct(out, k) = Correct(x, k)
  BY <1>3, <1>4, <1>5, <1>8 DEF Correct
<1>10. \A k \in Cells(graph, y) : Correct(out, k + Size(x)) = Correct(y, k)
  <2>1. \A k : Correct(out, k + Size(x)) = <<run, (mx \o my)[k + Size(x) + 1]>>
    BY <1>3, <1>4, Zenon DEF Correct
  <2>2. QED
    BY <2>1, <1>5, <1>8 DEF Correct
<1>11. Cells(graph, out) = 0 .. Size(x) + Size(y) - 1
  BY <1>5, <1>6
<1>12. QED
  BY <1>1, <1>2, <1>5, <1>9, <1>10, <1>11, Zenon DEF x, y, out

\* A Concat copies its inputs to their places, also those that are there already.
LEMMA ConcatKernelRight ==
  ASSUME NEW i \in Nat, Loaded(i), NodeAt(graph, i).op = "Concat"
  PROVE  Stored(ConcatKernel(i), i)
<1> DEFINE out == OutOf(graph, i)
           x == NodeAt(graph, i).ins[1]
           y == NodeAt(graph, i).ins[2]
           sx == Size(x)
           m1 == CopyCells(memory, x, out, 0)
           m == CopyCells(m1, y, out, sx)
<1>1. /\ Ready /\ GraphOK /\ MeaningOK /\ i \in Steps(graph) /\ DOMAIN memory = Addresses
      /\ \A t : NeededAt(t, i) => Held(memory, t)
      /\ out = i + 1 /\ out \in 0 .. NodeCount(graph)
  BY NodeFacts, GraphFacts DEF Loaded, Ready, GraphInv
<1>2. ConcatKernel(i) = m
  BY Zenon DEF ConcatKernel, Size
<1>3. /\ x \in 0 .. NodeCount(graph) /\ y \in 0 .. NodeCount(graph)
      /\ x \in ToSet(NodeAt(graph, i).ins) /\ y \in ToSet(NodeAt(graph, i).ins)
      /\ Size(x) \in Nat /\ Size(y) \in Nat
      /\ Cells(graph, x) = 0 .. Size(x) - 1 /\ Cells(graph, y) = 0 .. Size(y) - 1
      /\ Cells(graph, i + 1) = 0 .. Size(x) + Size(y) - 1
      /\ \A k \in Cells(graph, x) : Correct(i + 1, k) = Correct(x, k)
      /\ \A k \in Cells(graph, y) : Correct(i + 1, k + Size(x)) = Correct(y, k)
  BY <1>1, ConcatCells
<1>4. NeededAt(x, i) /\ NeededAt(y, i)
  BY <1>1, <1>3, InputsNeeded
<1>5. ASSUME NEW t, NeededAt(t, i)
      PROVE  /\ t \in 0 .. NodeCount(graph)
             /\ \/ Apart(out, t)
                \/ /\ \A k \in Nat : Addr(t, k) = Addr(x, k) /\ Addr(t, k) = Addr(out, k)
                   /\ Cells(graph, t) = Cells(graph, x)
                \/ /\ \A k \in Nat : Addr(t, k) = Addr(y, k) /\ Addr(t, k) = Addr(out, k + sx)
                   /\ Cells(graph, t) = Cells(graph, y)
  BY <1>1, <1>5, NeededAlive, ConcatPlaces
<1> HIDE DEF out, x, y, sx
<1>6. /\ \A k \in Cells(graph, x) : k \in Nat /\ k + 0 = k /\ k \in Cells(graph, out) /\ k < sx
      /\ \A k \in Cells(graph, y) : k \in Nat /\ k + sx \in Cells(graph, out) /\ k + sx \in Nat
      /\ \A k \in Cells(graph, out) :
           k \in Cells(graph, x) \/ \E j \in Cells(graph, y) : k = j + sx
      /\ \A k \in Cells(graph, x), j \in Cells(graph, y) : k # j + sx
      /\ sx \in Nat
  <2> DEFINE sy == Size(y)
  <2>1. /\ sx \in Nat /\ sy \in Nat /\ Cells(graph, x) = 0 .. sx - 1 /\ Cells(graph, y) = 0 .. sy - 1
        /\ Cells(graph, out) = 0 .. sx + sy - 1
    BY <1>1, <1>3 DEF sx
  <2> HIDE DEF sy
  <2>2. ASSUME NEW k \in 0 .. sx + sy - 1, ~(k \in 0 .. sx - 1)
        PROVE  k - sx \in 0 .. sy - 1 /\ k = (k - sx) + sx
    BY <2>1, <2>2
  <2>3. \A k \in 0 .. sx + sy - 1 :
          k \in 0 .. sx - 1 \/ \E j \in 0 .. sy - 1 : k = j + sx
    BY <2>2
  <2>4. /\ \A k \in 0 .. sx - 1 : k \in Nat /\ k + 0 = k /\ k \in 0 .. sx + sy - 1 /\ k < sx
        /\ \A k \in 0 .. sy - 1 : k \in Nat /\ k + sx \in 0 .. sx + sy - 1 /\ k + sx \in Nat
        /\ \A k \in 0 .. sx - 1, j \in 0 .. sy - 1 : k # j + sx
    BY <2>1
  <2>5. QED
    BY <2>1, <2>3, <2>4
<1>7. \A k, j \in Nat : Addr(out, k) = Addr(out, j) => k = j
  BY <1>1, AddrFacts
<1>8. /\ DOMAIN m1 = Addresses
      /\ \A k \in Cells(graph, x) : m1[Addr(out, k)] = memory[Addr(x, k)]
      /\ \A a \in Addresses : (\A k \in Cells(graph, x) : a # Addr(out, k)) => m1[a] = memory[a]
  <2>1. /\ DOMAIN m1 = Addresses
        /\ \A k \in Cells(graph, x) : m1[Addr(out, k + 0)] = memory[Addr(x, k)]
        /\ \A a \in Addresses :
             (\A k \in Cells(graph, x) : a # Addr(out, k + 0)) => m1[a] = memory[a]
    <3>1. \A k \in Cells(graph, x) : k + 0 \in Cells(graph, out)
      BY <1>6
    <3>2. /\ Ready /\ DOMAIN memory = Addresses /\ 0 \in Nat
          /\ x \in 0 .. NodeCount(graph) /\ out \in 0 .. NodeCount(graph)
      BY <1>1, <1>3
    <3>3. Copied(m1, memory, x, out, 0)
      BY <3>1, <3>2, CopyInto
    <3>4. QED
      BY <3>3, Zenon DEF Copied
  <2> HIDE DEF m1
  <2>2. QED
    BY <2>1, <1>6
<1> HIDE DEF m1
<1>9. /\ DOMAIN m = Addresses
      /\ \A k \in Cells(graph, y) : m[Addr(out, k + sx)] = m1[Addr(y, k)]
      /\ \A a \in Addresses : (\A k \in Cells(graph, y) : a # Addr(out, k + sx)) => m[a] = m1[a]
  <2>1. \A k \in Cells(graph, y) : k + sx \in Cells(graph, out)
    BY <1>6
  <2>2. /\ Ready /\ DOMAIN m1 = Addresses /\ sx \in Nat
        /\ y \in 0 .. NodeCount(graph) /\ out \in 0 .. NodeCount(graph)
    BY <1>1, <1>3, <1>6, <1>8
  <2>3. Copied(m, m1, y, out, sx)
    BY <2>1, <2>2, CopyInto
  <2>4. QED
    BY <2>3, Zenon DEF Copied
<1> HIDE DEF m
\* Neither copy changes a cell of a tensor that is still needed.
<1>10. ASSUME NEW t, NeededAt(t, i), NEW k \in Cells(graph, t)
       PROVE  m1[Addr(t, k)] = memory[Addr(t, k)] /\ m[Addr(t, k)] = memory[Addr(t, k)]
  <2>1. Addr(t, k) \in Addresses
    BY <1>1, <1>5, <1>10, AddrFacts
  <2>2. CASE Apart(out, t)
    <3>1. \A j \in Cells(graph, out) : Addr(t, k) # Addr(out, j)
      BY <2>2, Zenon DEF Apart
    <3>2. QED
      BY <3>1, <2>1, <1>6, <1>8, <1>9
  <2>3. CASE /\ \A j \in Nat : Addr(t, j) = Addr(x, j) /\ Addr(t, j) = Addr(out, j)
             /\ Cells(graph, t) = Cells(graph, x)
    <3>1. k \in Cells(graph, x) /\ k \in Nat /\ Addr(t, k) = Addr(x, k) /\ Addr(t, k) = Addr(out, k)
      BY <2>3, <1>6
    <3>2. m1[Addr(t, k)] = memory[Addr(t, k)]
      BY <3>1, <1>8
    <3>3. \A j \in Cells(graph, y) : Addr(t, k) # Addr(out, j + sx)
      BY <3>1, <1>6, <1>7
    <3>4. QED
      BY <3>2, <3>3, <2>1, <1>9
  <2>4. CASE /\ \A j \in Nat : Addr(t, j) = Addr(y, j) /\ Addr(t, j) = Addr(out, j + sx)
             /\ Cells(graph, t) = Cells(graph, y)
    <3>1. k \in Cells(graph, y) /\ k \in Nat /\ Addr(t, k) = Addr(y, k) /\ Addr(t, k) = Addr(out, k + sx)
      BY <2>4, <1>6
    <3>2. \A j \in Cells(graph, x) : Addr(t, k) # Addr(out, j)
      BY <3>1, <1>6, <1>7
    <3>3. m1[Addr(t, k)] = memory[Addr(t, k)]
      BY <3>2, <2>1, <1>8
    <3>4. QED
      BY <3>1, <3>3, <1>9
  <2>5. QED
    BY <1>5, <1>10, <2>2, <2>3, <2>4
<1>11. \A t : NeededAt(t, i) => Held(m, t)
  BY <1>1, <1>10 DEF Held, Holds
<1>12. Held(m, i + 1)
  <2> SUFFICES ASSUME NEW k \in Cells(graph, out) PROVE m[Addr(out, k)] = Correct(out, k)
    BY <1>1 DEF Held, Holds
  <2>0. /\ \A j \in Cells(graph, x) : memory[Addr(x, j)] = Correct(x, j)
        /\ \A j \in Cells(graph, y) : memory[Addr(y, j)] = Correct(y, j)
    BY <1>1, <1>4 DEF Held, Holds
  <2>1. CASE k \in Cells(graph, x)
    <3>1. Addr(out, k) \in Addresses /\ k \in Nat
      BY <1>1, AddrFacts
    <3>2. \A j \in Cells(graph, y) : Addr(out, k) # Addr(out, j + sx)
      BY <3>1, <2>1, <1>6, <1>7
    <3>3. m[Addr(out, k)] = m1[Addr(out, k)]
      BY <3>1, <3>2, <1>9
    <3>4. QED
      BY <3>3, <2>0, <2>1, <1>1, <1>3, <1>8
  <2>2. CASE \E j \in Cells(graph, y) : k = j + sx
    <3>1. PICK j \in Cells(graph, y) : k = j + sx
      BY <2>2
    <3>2. m[Addr(out, k)] = m1[Addr(y, j)] /\ m1[Addr(y, j)] = memory[Addr(y, j)]
      BY <3>1, <1>4, <1>9, <1>10
    <3>3. Correct(out, k) = Correct(y, j)
      BY <3>1, <1>1, <1>3 DEF sx
    <3>4. QED
      BY <3>2, <3>3, <2>0
  <2>3. QED
    BY <2>1, <2>2, <1>6
<1>13. \A t \in 0 .. i : NeededAt(t, i + 1) => Held(m, t)
  BY <1>1, <1>11, NeededBefore
<1>14. QED
  BY <1>2, <1>9, <1>12, <1>13 DEF Stored

\* Whatever a node does, it does it right.
LEMMA KernelRight ==
  ASSUME NEW i \in Nat, Loaded(i)
  PROVE  Stored(Kernel(i), i)
<1> DEFINE op == NodeAt(graph, i).op
           copy == CopyCells(memory, NodeAt(graph, i).ins[1], OutOf(graph, i), 0)
<1>1. Kernel(i) = CASE op \in INPLACE_SHAPE_ONLY_OPS -> copy
                    [] op = "Relu" -> ReluKernel(i)
                    [] op = "Concat" -> ConcatKernel(i)
                    [] OTHER -> ComputeKernel(i)
  BY Zenon DEF Kernel
<1>2. "Relu" \notin INPLACE_SHAPE_ONLY_OPS /\ "Concat" \notin INPLACE_SHAPE_ONLY_OPS
  BY DEF INPLACE_SHAPE_ONLY_OPS
<1>3. CASE op \in INPLACE_SHAPE_ONLY_OPS
  <2>1. Stored(copy, i)
    BY <1>3, ShapeKernelRight
  <2> HIDE DEF op, copy
  <2>2. op # "Relu" /\ op # "Concat"
    BY <1>2, <1>3
  <2>3. Kernel(i) = copy
    BY <1>1, <1>3, <2>2
  <2>4. QED
    BY <2>1, <2>3
<1>4. CASE op = "Relu"
  <2>1. Stored(ReluKernel(i), i)
    BY <1>4, ReluKernelRight
  <2> HIDE DEF op, copy
  <2>2. op \notin INPLACE_SHAPE_ONLY_OPS /\ op # "Concat"
    BY <1>2, <1>4
  <2>3. Kernel(i) = ReluKernel(i)
    BY <1>1, <1>4, <2>2
  <2>4. QED
    BY <2>1, <2>3
<1>5. CASE op = "Concat"
  <2>1. Stored(ConcatKernel(i), i)
    BY <1>5, ConcatKernelRight
  <2> HIDE DEF op, copy
  <2>2. op \notin INPLACE_SHAPE_ONLY_OPS /\ op # "Relu"
    BY <1>2, <1>5
  <2>3. Kernel(i) = ConcatKernel(i)
    BY <1>1, <1>5, <2>2
  <2>4. QED
    BY <2>1, <2>3
<1>6. CASE op \notin INPLACE_SHAPE_ONLY_OPS /\ op # "Relu" /\ op # "Concat"
  <2>1. Stored(ComputeKernel(i), i)
    BY <1>6, ComputeKernelRight DEF INPLACE_ELEMENTWISE_OPS
  <2> HIDE DEF op, copy
  <2>2. Kernel(i) = ComputeKernel(i)
    BY <1>1, <1>6
  <2>3. QED
    BY <2>1, <2>2
<1>7. QED
  BY <1>3, <1>4, <1>5, <1>6

\* Right or not, it writes memory and not past it.
LEMMA KernelDomain ==
  ASSUME NEW i, DOMAIN memory = Addresses
  PROVE  DOMAIN Kernel(i) = Addresses
<1> DEFINE op == NodeAt(graph, i).op
           copy == CopyCells(memory, NodeAt(graph, i).ins[1], OutOf(graph, i), 0)
<1>1. Kernel(i) = CASE op \in INPLACE_SHAPE_ONLY_OPS -> copy
                    [] op = "Relu" -> ReluKernel(i)
                    [] op = "Concat" -> ConcatKernel(i)
                    [] OTHER -> ComputeKernel(i)
  BY Zenon DEF Kernel
<1>2. \A mem, from, to, shift : DOMAIN CopyCells(mem, from, to, shift) = DOMAIN mem
  BY DEF CopyCells
<1>3. DOMAIN copy = Addresses
  BY <1>2
<1>4. DOMAIN ConcatKernel(i) = Addresses
  BY <1>2 DEF ConcatKernel
<1>5. DOMAIN ReluKernel(i) = Addresses /\ DOMAIN ComputeKernel(i) = Addresses
  BY Zenon DEF ReluKernel, ComputeKernel
<1> HIDE DEF copy, op
<1>6. Kernel(i) \in {copy, ReluKernel(i), ConcatKernel(i), ComputeKernel(i)}
  BY <1>1
<1>7. QED
  BY <1>3, <1>4, <1>5, <1>6

-----------------------------------------------------------------------------
(* Steps of the host and of the runtime.                                   *)

\* Once the plan is accepted it stays.
LEMMA PlanFrame ==
  ASSUME GraphInv, AliasInv, PlanOK, UNCHANGED <<planVars, family, meaning>>
  PROVE  GraphInv' /\ AliasInv' /\ PlanOK'
<1>1. /\ UNCHANGED <<graph, phase, visited, inplace, concat, lives, offsets>>
      /\ UNCHANGED packVars /\ UNCHANGED <<family, meaning>>
  BY Zenon DEF planVars, aliasVars
<1>2. GraphInv'
  BY <1>1, GraphFrame
<1>3. InplaceOK' /\ ConcatOK'
  BY <1>1, InplaceFrame, ConcatFrame DEF AliasInv
<1>4. StageOK'
  <2>1. UNCHANGED <<entries, active, free_blocks, peak, request, cursor, status>>
    BY <1>1, Zenon DEF packVars
  <2>2. P!Init => P!Init'
    BY <2>1, Zenon DEF P!Init, P!NoRequest
  <2>3. StageOK
    BY DEF AliasInv
  <2>4. QED
    BY <1>1, <2>1, <2>2, <2>3, Zenon DEF StageOK, P!NoRequest, NotPlanned, NotPacked, Phases
<1>5. PlanOK'
  <2>1. UNCHANGED <<entries, active, free_blocks, peak, request, cursor, status>>
    BY <1>1, Zenon DEF packVars
  <2>2. LivesOK => LivesOK'
    BY <1>1, LivesFrame
  <2>3. PackOK => PackOK'
    <3> SUFFICES ASSUME PackOK PROVE PackOK'
      OBVIOUS
    <3>1. UNCHANGED P!vars
      BY <2>1, Zenon DEF P!vars
    <3>2. P!IInv' /\ P!Aligned'
      BY <3>1, BestFitHolds, P!NextIInv, P!NextAligned DEF PackOK
    <3>3. PlannedTensors' = PlannedTensors
      BY <1>1, Zenon DEF PlannedTensors
    <3>4. QED
      BY <3>2, <3>3, <2>1, <1>1, Zenon DEF PackOK, P!NoRequest, P!Align, P!ALIGNMENT
  <2>4. OffsetsOK => OffsetsOK'
    BY <1>1, <2>1, Zenon DEF OffsetsOK, Owner, Shift, Root
  <2>5. QED
    BY <1>1, <2>2, <2>3, <2>4 DEF PlanOK
<1>6. QED
  BY <1>2, <1>3, <1>4, <1>5 DEF AliasInv

\* What the plan says of memory does not change either.
LEMMA LayoutFrame ==
  ASSUME UNCHANGED <<planVars, family, meaning>>
  PROVE  /\ Addresses' = Addresses
         /\ InPlaceIsSafe' <=> InPlaceIsSafe
         /\ \A t, i : NeededAt(t, i)' <=> NeededAt(t, i)
         /\ \A t : Cells(graph, t)' = Cells(graph, t)
         /\ \A t, k : Addr(t, k)' = Addr(t, k)
<1>1. UNCHANGED <<graph, inplace, concat, offsets, peak>>
  BY Zenon DEF planVars, aliasVars, packVars
<1>2. QED
  <2>1. /\ \A t : Cells(graph, t)' = Cells(graph, t)
        /\ \A t, k : Addr(t, k)' = Addr(t, k)
    BY <1>1, Zenon DEF Cells, Addr, External
  <2>2. Addresses' = Addresses
    BY <1>1 DEF Addresses, External, Cells
  <2>3. \A t, i : NeededAt(t, i)' <=> NeededAt(t, i)
    BY <1>1, Zenon DEF NeededAt
  <2>4. \A t : Owner(t)' = Owner(t)
    BY <1>1, Zenon DEF Owner, Root
  <2>5. InPlaceIsSafe' <=> InPlaceIsSafe
    BY <1>1, <2>4, Zenon DEF InPlaceIsSafe
  <2>6. QED
    BY <2>1, <2>2, <2>3, <2>5, Zenon

\* A tensor is intact afterwards if its cells are right in the new memory.
LEMMA IntactFrame ==
  ASSUME UNCHANGED <<planVars, family, meaning, run>>
  PROVE  \A t : Intact(t)' <=> Held(memory', t)
<1>1. /\ \A t : Cells(graph, t)' = Cells(graph, t)
      /\ \A t, k : Addr(t, k)' = Addr(t, k)
      /\ \A t, k : Correct(t, k)' = Correct(t, k)
  BY LayoutFrame, Zenon DEF Correct
<1>2. QED
  BY <1>1, Zenon DEF Intact, Held, Holds

LEMMA RunIsReady ==
  ASSUME PlannedInv, phase = "run"
  PROVE  Ready /\ GraphOK /\ NodeCount(graph) \in Nat
BY GraphFacts DEF PlannedInv, Ready, GraphInv, AliasInv, PlanOK, NotPlanned

\* Memory has at least the cells of the input.
LEMMA AddressesExist ==
  ASSUME Ready
  PROVE  Addresses # {}
<1>1. 0 \in 0 .. NodeCount(graph)
  BY GraphFacts DEF Ready, GraphInv
<1>2. 0 \in Cells(graph, 0)
  BY <1>1, CellPlaces
<1>3. QED
  BY <1>1, <1>2, AddrFacts

LEMMA PrepareInv ==
  ASSUME PlannedInv, Prepare
  PROVE  ContextOK'
<1>1. /\ phase = "run" /\ run = 0 /\ memory = << >>
      /\ memory' = [a \in Addresses |-> Garbage]
      /\ UNCHANGED <<planVars, family, meaning>> /\ UNCHANGED <<run, ip, misread>>
      /\ phase' = phase /\ graph' = graph
  BY Zenon DEF Prepare, planVars
<1>2. /\ run \in 0 .. MaxRuns /\ ip = -1 /\ misread = FALSE /\ NodeCount(graph) \in Nat
  BY <1>1, RunIsReady DEF PlannedInv, ContextOK
<1>3. DOMAIN memory' = Addresses'
  BY <1>1, LayoutFrame
<1>4. /\ ~(ip' >= 0) /\ run' = 0 /\ misread' = FALSE /\ ip' = -1 /\ phase' = "run"
      /\ ip' \in -1 .. NodeCount(graph') /\ run' \in 0 .. MaxRuns
  BY <1>1, <1>2
<1>5. ~Returned'
  BY <1>4 DEF Returned
<1>6. NeededIntact'
  BY <1>4, <1>5 DEF NeededIntact
<1>7. QED
  BY <1>3, <1>4, <1>6 DEF ContextOK

LEMMA SetInputsInv ==
  ASSUME PlannedInv, SetInputs
  PROVE  ContextOK'
<1>1. /\ phase = "run" /\ memory # << >> /\ ip = -1 /\ run < MaxRuns
      /\ run' = run + 1 /\ ip' = 0
      /\ UNCHANGED <<planVars, family, meaning>> /\ misread' = misread
      /\ phase' = phase /\ graph' = graph
  BY Zenon DEF SetInputs, planVars
<1>2. /\ run \in 0 .. MaxRuns /\ misread \in BOOLEAN
      /\ DOMAIN memory = Addresses /\ (InPlaceIsSafe => ~misread)
  BY <1>1 DEF PlannedInv, ContextOK, NeededIntact
<1>3. /\ Ready /\ NodeCount(graph) \in Nat /\ InputIds(graph) = {0} /\ 0 \in 0 .. NodeCount(graph)
  BY <1>1, RunIsReady, GraphFacts
<1>4. memory' = [a \in Addresses |->
                   IF \E t \in InputIds(graph) : a \in Footprint(t)
                   THEN LET t == CHOOSE u \in InputIds(graph) : a \in Footprint(u)
                            k == CHOOSE j \in Cells(graph, t) : a = Addr(t, j)
                        IN  <<run', meaning[t + 1][k + 1]>>
                   ELSE memory[a]]
  BY Zenon DEF SetInputs
<1>5. /\ Addresses' = Addresses
      /\ InPlaceIsSafe' <=> InPlaceIsSafe
      /\ \A t : Cells(graph, t)' = Cells(graph, t)
      /\ \A t, k : Addr(t, k)' = Addr(t, k)
  BY <1>1, LayoutFrame
<1>6. DOMAIN memory' = Addresses' /\ memory' # << >>
  <2>1. DOMAIN memory' = Addresses /\ Addresses # {}
    BY <1>3, <1>4, AddressesExist
  <2>2. QED
    BY <2>1, <1>5
<1>7. Intact(0)'
  <2>1. ASSUME NEW k \in Cells(graph, 0)
        PROVE  memory'[Addr(0, k)] = <<run', meaning[0 + 1][k + 1]>>
    <3>1. /\ Addr(0, k) \in Addresses /\ Addr(0, k) \in Footprint(0)
          /\ (CHOOSE j \in Cells(graph, 0) : Addr(0, k) = Addr(0, j)) = k
      BY <1>3, CellAt
    <3> DEFINE a == Addr(0, k)
               t == CHOOSE u \in InputIds(graph) : a \in Footprint(u)
    <3>2. t \in InputIds(graph)
      BY <3>1, <1>3, Zenon
    <3>3. t = 0
      BY <3>2, <1>3
    <3>4. \E u \in InputIds(graph) : a \in Footprint(u)
      BY <3>1, <1>3, Zenon
    <3>5. memory'[a] = LET j == CHOOSE j \in Cells(graph, t) : a = Addr(t, j)
                       IN  <<run', meaning[t + 1][j + 1]>>
      BY <3>1, <3>4, <1>4, Zenon
    <3> HIDE DEF t
    <3>6. memory'[a] = LET j == CHOOSE j \in Cells(graph, 0) : a = Addr(0, j)
                       IN  <<run', meaning[0 + 1][j + 1]>>
      BY <3>3, <3>5
    <3>7. QED
      BY <3>1, <3>6
  <2>2. meaning' = meaning
    BY <1>1
  <2>3. \A k \in Cells(graph, 0) : memory'[Addr(0, k)] = Correct(0, k)'
    BY <2>1, <2>2, Zenon DEF Correct
  <2>4. QED
    BY <2>3, <1>5, Zenon DEF Intact, Holds
<1>8. NeededIntact'
  <2>1. \A t \in 0 .. ip' : t = 0
    BY <1>1
  <2>2. ~Returned'
    BY <1>1 DEF Returned
  <2>3. \A t \in 0 .. ip' : NeededAt(t, ip)' => Intact(t)'
    BY <2>1, <1>7
  <2>4. InPlaceIsSafe' => ~misread'
    BY <1>1, <1>2, <1>5
  <2>5. QED
    BY <2>2, <2>3, <2>4, Zenon DEF NeededIntact
<1>9. /\ run' \in 0 .. MaxRuns /\ run' > 0 /\ ip' \in -1 .. NodeCount(graph') /\ misread' \in BOOLEAN
      /\ phase' = "run"
  BY <1>1, <1>2, <1>3, ExecutionAssumption
<1>10. QED
  BY <1>6, <1>8, <1>9, Zenon DEF ContextOK

LEMMA ExecuteNodeInv ==
  ASSUME PlannedInv, ExecuteNode
  PROVE  ContextOK'
<1>1. /\ ip \in 0 .. NodeCount(graph) - 1
      /\ memory' = Kernel(ip) /\ ip' = ip + 1 /\ run' = run
      /\ misread' = (misread \/ \E t \in ToSet(NodeAt(graph, ip).ins) : ~Intact(t))
      /\ UNCHANGED <<planVars, family, meaning>>
      /\ phase' = phase /\ graph' = graph
  BY Zenon DEF ExecuteNode, planVars
<1>2. ContextOK
  BY DEF PlannedInv
<1>3. memory # << >> /\ ip >= 0
  BY <1>1, <1>2 DEF ContextOK
<1>4. /\ phase = "run" /\ run \in 0 .. MaxRuns /\ run > 0 /\ misread \in BOOLEAN
      /\ DOMAIN memory = Addresses /\ NeededIntact
  BY <1>2, <1>3 DEF ContextOK
<1>5. Ready /\ GraphOK /\ NodeCount(graph) \in Nat /\ ip \in Steps(graph) /\ ip \in Nat
  BY <1>1, <1>4, RunIsReady DEF Steps
<1>6. /\ Addresses' = Addresses
      /\ InPlaceIsSafe' <=> InPlaceIsSafe
      /\ \A t, i : NeededAt(t, i)' <=> NeededAt(t, i)
  BY <1>1, LayoutFrame
<1>7. DOMAIN memory' = Addresses' /\ memory' # << >>
  <2>1. DOMAIN memory' = Addresses /\ Addresses # {}
    BY <1>1, <1>4, <1>5, KernelDomain, AddressesExist
  <2>2. QED
    BY <2>1, <1>6
<1>8. NeededIntact'
  <2> SUFFICES ASSUME InPlaceIsSafe'
               PROVE  /\ ~misread'
                      /\ \A t \in 0 .. ip' : NeededAt(t, ip)' => Intact(t)'
                      /\ ~Returned'
    BY Zenon DEF NeededIntact
  <2>1. InPlaceIsSafe /\ ~misread /\ \A t \in 0 .. ip : NeededAt(t, ip) => Intact(t)
    BY <1>3, <1>4, <1>6 DEF NeededIntact
  <2>2. \A t : NeededAt(t, ip) => Held(memory, t)
    BY <2>1, Zenon DEF NeededAt, Intact, Held
  <2>3. Stored(memory', ip)
    BY <1>1, <1>4, <1>5, <2>1, <2>2, KernelRight DEF Loaded
  <2>4. ~misread'
    <3>1. \A t \in ToSet(NodeAt(graph, ip).ins) : Intact(t)
      BY <1>5, <2>1, InputsNeeded
    <3>2. QED
      BY <3>1, <1>1, <2>1
  <2>5. ASSUME NEW t \in 0 .. ip', NeededAt(t, ip)'
        PROVE  Intact(t)'
    <3>1. NeededAt(t, ip + 1)
      BY <2>5, <1>1, Zenon DEF NeededAt, Consumers
    <3>2. t \in 0 .. ip \/ t = ip + 1
      BY <1>1, <1>5
    <3>3. Held(memory', t)
      BY <3>1, <3>2, <2>3 DEF Stored
    <3>4. QED
      BY <3>3, <1>1, IntactFrame
  <2>6. ~Returned'
    BY <1>1, <1>5 DEF Returned
  <2>7. QED
    BY <2>4, <2>5, <2>6
<1>9. /\ run' \in 0 .. MaxRuns /\ run' > 0 /\ ip' \in -1 .. NodeCount(graph') /\ misread' \in BOOLEAN
      /\ phase' = "run"
  BY <1>1, <1>4, <1>5
<1>10. QED
  BY <1>7, <1>8, <1>9, Zenon DEF ContextOK

LEMMA ReturnInv ==
  ASSUME PlannedInv, Return
  PROVE  ContextOK'
<1>1. /\ ip = NodeCount(graph) /\ ip' = -1
      /\ memory' = memory /\ run' = run /\ misread' = misread
      /\ UNCHANGED <<planVars, family, meaning>>
      /\ phase' = phase /\ graph' = graph
  BY Zenon DEF Return, planVars
<1>2. ContextOK /\ GraphOK /\ NodeCount(graph) \in Nat
  BY GraphFacts DEF PlannedInv, GraphInv
<1>3. memory # << >> /\ ip >= 0
  BY <1>1, <1>2 DEF ContextOK
<1>4. /\ phase = "run" /\ run \in 0 .. MaxRuns /\ run > 0 /\ misread \in BOOLEAN
      /\ DOMAIN memory = Addresses /\ NeededIntact
  BY <1>2, <1>3 DEF ContextOK
<1>5. /\ Addresses' = Addresses
      /\ InPlaceIsSafe' <=> InPlaceIsSafe
  BY <1>1, LayoutFrame
<1>6. NeededIntact'
  <2> SUFFICES ASSUME InPlaceIsSafe'
               PROVE  ~misread' /\ ~(ip' >= 0) /\ \A t \in graph'.outputs : Intact(t)'
    BY Zenon DEF NeededIntact
  <2>1. ~misread /\ \A t \in 0 .. ip : NeededAt(t, ip) => Intact(t)
    BY <1>3, <1>4, <1>5 DEF NeededIntact
  <2>2. \A t \in graph.outputs : t \in 0 .. ip
    BY <1>1, <1>2 DEF GraphOK
  <2>3. \A t \in graph.outputs : Intact(t)
    BY <2>1, <2>2 DEF NeededAt
  <2>4. ASSUME NEW t \in graph'.outputs PROVE Intact(t)'
    <3>1. Held(memory', t)
      BY <2>3, <2>4, <1>1, Zenon DEF Intact, Held
    <3>2. QED
      BY <3>1, <1>1, IntactFrame
  <2>5. QED
    BY <2>1, <2>4, <1>1
<1>7. /\ run' \in 0 .. MaxRuns /\ ip' \in -1 .. NodeCount(graph') /\ misread' \in BOOLEAN
      /\ phase' = "run" /\ ~(ip' >= 0) /\ memory' # << >> /\ DOMAIN memory' = Addresses'
  BY <1>1, <1>2, <1>3, <1>4, <1>5
<1>8. QED
  BY <1>6, <1>7, Zenon DEF ContextOK

\* A step that changes nothing.
LEMMA StutterInv ==
  ASSUME PlannedInv, UNCHANGED vars
  PROVE  PlannedInv'
<1>1. /\ UNCHANGED <<planVars, family, meaning>> /\ UNCHANGED <<memory, run, ip, misread>>
      /\ phase' = phase /\ graph' = graph
  BY Zenon DEF vars, execVars, planVars
<1>2. GraphInv' /\ AliasInv' /\ PlanOK'
  BY <1>1, PlanFrame DEF PlannedInv
<1>3. /\ Addresses' = Addresses
      /\ InPlaceIsSafe' <=> InPlaceIsSafe
      /\ \A t, i : NeededAt(t, i)' <=> NeededAt(t, i)
  BY <1>1, LayoutFrame
<1>4. \A t : Intact(t) => Intact(t)'
  <2>1. \A t : Intact(t) => Held(memory', t)
    BY <1>1, Zenon DEF Intact, Held
  <2>2. QED
    BY <2>1, <1>1, IntactFrame
<1>5. NeededIntact => NeededIntact'
  <2>1. \A t : NeededAt(t, ip)' <=> NeededAt(t, ip)
    BY <1>1, Zenon DEF NeededAt, Consumers
  <2>2. Returned' <=> Returned
    BY <1>1 DEF Returned
  <2>3. QED
    BY <1>1, <1>3, <1>4, <2>1, <2>2, Zenon DEF NeededIntact
<1>6. ContextOK'
  BY <1>1, <1>3, <1>5, Zenon DEF PlannedInv, ContextOK, NodeCount
<1>7. QED
  BY <1>2, <1>6 DEF PlannedInv

\* The inductive step.
LEMMA NextPlanned == PlannedInv /\ [Next]_vars => PlannedInv'
<1> SUFFICES ASSUME PlannedInv, [Next]_vars PROVE PlannedInv'
  OBVIOUS
<1>1. CASE UNCHANGED vars
  BY <1>1, StutterInv
<1>2. CASE AddNode \/ Seal
  BY <1>2, BuildInv
<1>3. CASE PlanNext /\ UNCHANGED execVars
  BY <1>3, PlanNextInv
<1>4. CASE Prepare \/ SetInputs \/ ExecuteNode \/ Return
  <2>1. ContextOK'
    BY <1>4, PrepareInv, SetInputsInv, ExecuteNodeInv, ReturnInv
  <2>2. UNCHANGED <<planVars, family, meaning>>
    BY <1>4, Zenon DEF Prepare, SetInputs, ExecuteNode, Return
  <2>3. GraphInv' /\ AliasInv' /\ PlanOK'
    BY <2>2, PlanFrame DEF PlannedInv
  <2>4. QED
    BY <2>1, <2>3 DEF PlannedInv
<1>5. QED
  BY <1>1, <1>2, <1>3, <1>4 DEF Next

-----------------------------------------------------------------------------
(* Theorems.                                                               *)

\* The graph, the aliases, the plan and memory hang together in every state.
THEOREM PlannedInvariant == Spec => []PlannedInv
BY InitPlanned, NextPlanned, PTL DEF Spec

LEMMA PlannedTyped == PlannedInv => TypeOK
<1> SUFFICES ASSUME PlannedInv PROVE TypeOK
  OBVIOUS
<1>1. /\ StageOK /\ ContextOK /\ family.maxNodes \in Nat
      /\ NodeCount(graph) \in Nat /\ NodeCount(graph) <= family.maxNodes
  BY GraphFacts, ExecutionAssumption DEF PlannedInv, GraphInv, AliasInv, GraphOK
<1>2. phase \in Phases /\ status \in {"planning", "planned", "MemoryError", "KeyError"}
  BY <1>1 DEF StageOK, Phases
<1>3. offsets = << >> \/ offsets \in [TensorIds(graph) -> Nat]
  <2>1. phase = "run" => OffsetsOK
    BY DEF PlannedInv, PlanOK
  <2>2. QED
    BY <2>1, <1>1, <1>2, Zenon DEF StageOK, Phases, OffsetsOK
<1>4. visited \in 0 .. family.maxNodes /\ ip \in -1 .. family.maxNodes
  <2>1. visited \in 0 .. NodeCount(graph) /\ ip \in -1 .. NodeCount(graph)
    BY <1>1 DEF StageOK, ContextOK
  <2>2. QED
    BY <2>1, <1>1
<1>5. /\ run \in 0 .. MaxRuns /\ misread \in BOOLEAN
      /\ memory = << >> \/ DOMAIN memory = Addresses
  BY <1>1 DEF ContextOK
<1>6. QED
  BY <1>2, <1>3, <1>4, <1>5 DEF TypeOK, Phases, NotPacked, NotPlanned

\* The state always has its type: no plan gives a tensor a negative offset or
\* leaves one without, and no kernel writes past the arena.
THEOREM PlannedTypeCorrect == Spec => []TypeOK
BY PlannedInvariant, PlannedTyped, PTL

LEMMA PlannedPlaces == PlannedInv => TensorsWellPlaced
<1> SUFFICES ASSUME PlannedInv, phase = "run",
                    NEW t \in TensorIds(graph), ShouldAllocate(graph, t)
             PROVE  /\ offsets[t] + Bytes(graph, t) <= peak
                    /\ offsets[t] % Pack!ALIGNMENT = 0
                    /\ Owner(t) \in DOMAIN entries =>
                         /\ entries[Owner(t)].off <= offsets[t]
                         /\ offsets[t] + Bytes(graph, t) <=
                              entries[Owner(t)].off + entries[Owner(t)].size
  BY DEF TensorsWellPlaced
<1> DEFINE e == entries[Owner(t)]
           b == Bytes(graph, t)
           s == Shift(t)
<1>1. Ready /\ t \in 0 .. NodeCount(graph) /\ Pack!ALIGNMENT = 16
  BY RunIsReady, GraphFacts, PackBridge
<1>2. /\ e.off \in Nat /\ e.size \in Nat /\ e.off + e.size <= peak /\ peak \in Nat
      /\ s \in Nat /\ offsets[t] = e.off + s
      /\ offsets[t] \in Nat /\ offsets[t] % 16 = 0
      /\ offsets[t] + b <= e.off + e.size
  BY <1>1, PlaceFacts
<1>3. b \in Nat
  BY <1>1, GraphFacts DEF Ready, GraphInv
<1> HIDE DEF e, b, s
<1>4. offsets[t] + b <= peak /\ e.off <= offsets[t]
  BY <1>2, <1>3
<1>5. QED
  BY <1>1, <1>2, <1>4 DEF e, b

\* Every tensor of an accepted plan lies in the arena, aligned, and inside the
\* block of the tensor whose storage it shares.
THEOREM TensorsAlwaysWellPlaced == Spec => []TensorsWellPlaced
BY PlannedInvariant, PlannedPlaces, PTL

LEMMA PlannedValues == PlannedInv => ReadsIntact /\ OutputsCorrect
<1> SUFFICES ASSUME PlannedInv, InPlaceIsSafe
             PROVE  ~misread /\ (Returned => \A t \in graph.outputs : Intact(t))
  BY DEF ReadsIntact, OutputsCorrect
<1>1. ContextOK
  BY DEF PlannedInv
<1>2. CASE memory = << >>
  <2>1. run = 0 /\ ~misread
    BY <1>1, <1>2 DEF ContextOK
  <2>2. QED
    BY <2>1 DEF Returned
<1>3. CASE memory # << >>
  BY <1>1, <1>3 DEF ContextOK, NeededIntact
<1>4. QED
  BY <1>2, <1>3

\* In every inference on a context each node reads what its producers computed in
\* that inference, whenever in-place rewriting is safe.
THEOREM PlannedReadsIntact == Spec => []ReadsIntact
BY PlannedInvariant, PlannedValues, PTL

\* And the host gets the value of every output.
THEOREM PlannedOutputsCorrect == Spec => []OutputsCorrect
BY PlannedInvariant, PlannedValues, PTL

\* An alias lacks its storage when that is a Concat placed in a later one, and only
\* then: the storage of an in-place alias is older, and has its entry by the time
\* the alias is visited; a Concat's output that is placed nowhere is packed.
LEMMA NestedConcatRaises ==
  ASSUME GraphOK, InplaceOK, ConcatOK, PackOK, PlannedTensors \subseteq DOMAIN entries
  PROVE  RaisesKeyError <=> ConcatInConcat
<1>1. DOMAIN entries \subseteq PlannedTensors
  BY DEF PackOK
<1>2. ASSUME NEW t \in DOMAIN concat
      PROVE  LET p == concat[t].parent
             IN  /\ t \in Nat /\ p \in Nat /\ t < p
                 /\ p \notin DOMAIN inplace
                 /\ p \in DOMAIN concat \/ p \in DOMAIN entries
  <2> DEFINE p == concat[t].parent
  <2>1. /\ t \in Nat /\ t < p /\ p \in 0 .. NodeCount(graph)
        /\ NodeCount(graph) \in Nat /\ TensorIds(graph) = 0 .. NodeCount(graph)
        /\ NodeAt(graph, p - 1).op = "Concat"
    BY ConcatFacts, GraphFacts
  <2>2. ShouldAllocate(graph, p)
    BY DEF ConcatOK
  <2> HIDE DEF p
  <2>3. p \notin DOMAIN inplace
    BY <2>1 DEF InplaceOK, INPLACE_SHAPE_ONLY_OPS, INPLACE_ELEMENTWISE_OPS
  <2>4. p \in DOMAIN concat \/ p \in DOMAIN entries
    BY <2>1, <2>2, <2>3 DEF PlannedTensors
  <2>5. QED
    BY <2>1, <2>3, <2>4 DEF p
<1>3. ASSUME RaisesKeyError PROVE ConcatInConcat
  <2>1. PICK t \in (DOMAIN inplace \cup DOMAIN concat) \ DOMAIN entries : StorageMissing(t)
    BY <1>3 DEF RaisesKeyError
  <2>2. Storage(t) \notin DOMAIN entries /\ Storage(t) >= t
    BY <2>1 DEF StorageMissing
  <2>3. t \notin DOMAIN inplace
    <3> SUFFICES ASSUME t \in DOMAIN inplace PROVE FALSE
      OBVIOUS
    <3>1. t \in 1 .. NodeCount(graph) /\ inplace[t] \in 0 .. t - 1 /\ NodeCount(graph) \in Nat
      BY GraphFacts DEF InplaceOK
    <3>2. Storage(t) = inplace[t]
      BY DEF Storage
    <3>3. QED
      BY <3>1, <3>2, <2>2
  <2>4. t \in DOMAIN concat /\ Storage(t) = concat[t].parent
    BY <2>1, <2>3 DEF Storage
  <2>5. concat[t].parent \in DOMAIN concat
    BY <1>2, <2>2, <2>4
  <2>6. QED
    BY <2>3, <2>4, <2>5 DEF ConcatInConcat
<1>4. ASSUME ConcatInConcat PROVE RaisesKeyError
  <2>1. PICK t \in DOMAIN concat \ DOMAIN inplace : concat[t].parent \in DOMAIN concat
    BY <1>4 DEF ConcatInConcat
  <2>2. t \notin DOMAIN entries /\ concat[t].parent \notin DOMAIN entries
    BY <1>1, <2>1 DEF PlannedTensors
  <2>3. Storage(t) = concat[t].parent /\ concat[t].parent >= t
    <3>1. Storage(t) = concat[t].parent
      BY <2>1 DEF Storage
    <3>2. QED
      BY <1>2, <2>1, <3>1
  <2>4. StorageMissing(t)
    BY <2>2, <2>3 DEF StorageMissing
  <2>5. QED
    BY <2>1, <2>2, <2>4 DEF RaisesKeyError
<1>5. QED
  BY <1>3, <1>4

\* The plan ends in one step, and nothing changes its verdict afterwards.
LEMMA VerdictStands ==
  ASSUME PlannedInv, KeyErrorOnlyForNested, [Next]_vars
  PROVE  KeyErrorOnlyForNested'
<1>1. /\ StageOK /\ GraphOK /\ InplaceOK /\ ConcatOK
  BY DEF PlannedInv, GraphInv, AliasInv
<1>2. CASE UNCHANGED <<phase, status, inplace, concat>>
  BY <1>2 DEF KeyErrorOnlyForNested, ConcatInConcat
<1>3. CASE phase' \notin {"run", "failed"}
  BY <1>3 DEF KeyErrorOnlyForNested
<1>4. CASE FinishPlan
  <2>1. /\ phase = "plan" /\ PlannedTensors \subseteq DOMAIN entries
        /\ UNCHANGED <<inplace, concat>>
    BY <1>4 DEF FinishPlan, aliasVars
  <2>2. PackOK
    BY <2>1 DEF PlannedInv, PlanOK
  <2>3. RaisesKeyError <=> ConcatInConcat
    BY <1>1, <2>1, <2>2, NestedConcatRaises
  <2>4. ConcatInConcat' <=> ConcatInConcat
    BY <2>1 DEF ConcatInConcat
  <2>5. status' = "KeyError" <=> RaisesKeyError
    <3>1. ~RaisesKeyError => P!Finish
      BY <1>4, PackBridge DEF FinishPlan
    <3>2. QED
      BY <1>4, <3>1 DEF FinishPlan, P!Finish
  <2>6. QED
    BY <2>3, <2>4, <2>5 DEF KeyErrorOnlyForNested
<1>5. CASE PlanNext /\ ~FinishPlan
  <2>1. phase' \notin {"run", "failed"}
    BY <1>5 DEF PlanNext, AnalyzeGraph, VisitInplace, InplaceDone, VisitConcat, ConcatDone,
                ConsiderNext, PackStep
  <2>2. QED
    BY <2>1, <1>3
<1>6. CASE AddNode \/ Seal
  <2>1. phase' \notin {"run", "failed"}
    BY <1>6 DEF AddNode, Seal
  <2>2. QED
    BY <2>1, <1>3
<1>7. CASE Prepare \/ SetInputs \/ ExecuteNode \/ Return \/ UNCHANGED vars
  <2>1. UNCHANGED <<phase, status, inplace, concat>>
    BY <1>7, Zenon DEF Prepare, SetInputs, ExecuteNode, Return, vars, planVars, aliasVars, packVars
  <2>2. QED
    BY <2>1, <1>2
<1>8. QED
  BY <1>4, <1>5, <1>6, <1>7 DEF Next

\* For every graph: planning ends in a KeyError exactly when a Concat was placed
\* inside another with an input of its own placed in it.
THEOREM KeyErrorsAreNested == Spec => []KeyErrorOnlyForNested
<1>1. Init => KeyErrorOnlyForNested
  BY DEF Init, KeyErrorOnlyForNested
<1>2. PlannedInv /\ KeyErrorOnlyForNested /\ [Next]_vars => KeyErrorOnlyForNested'
  BY VerdictStands
<1>3. QED
  BY <1>1, <1>2, PlannedInvariant, PTL DEF Spec
=============================================================================
