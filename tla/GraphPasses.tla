---------------------------- MODULE GraphPasses ----------------------------
(***************************************************************************)
(* The graph optimisation pipeline: the importer builds a graph node by    *)
(* node, run_pass_pipeline of compiler/passes/manager.py then applies the  *)
(* passes of compiler/passes/transforms.py in order.                       *)
(*                                                                         *)
(* A graph is a record                                                     *)
(*   nodes    sequence of [op, ins, out, act, perm], in execution order;   *)
(*            act is the fused_activation attribute, perm a Transpose's    *)
(*   tensors  id -> [shape, role, const, base, bn]; const says that it has *)
(*            data, base is that data, bn the BatchNorms folded into it    *)
(*   inputs   set of ids,  outputs   sequence of ids                       *)
(* Shapes are "map" (a feature map), "channel" ([1,C,1,1]) and "kernel".   *)
(* A BatchNormalization has one tensor that stands for its four parameters.*)
(* Ids are not renumbered by a compaction: nothing depends on their value. *)
(* What a graph computes is a term over its inputs and data (Meaning).     *)
(***************************************************************************)
EXTENDS Integers, Sequences, SequencesExt

CONSTANT Families   \* kinds of graphs and pipelines to look at, one of them per behaviour

ASSUME FamiliesAssumption ==
  \A f \in Families :
    /\ f.ops \subseteq {"Conv", "BatchNormalization", "Add", "Mul", "Relu", "Sigmoid",
                        "Identity", "Dropout", "Flatten", "Transpose"}
    /\ f.consts \subseteq 1 .. 6   \* which of the Initializers the graph has
    /\ f.maxNodes \in Nat          \* bound on its nodes
    /\ f.most \in Nat              \* bound on its nodes of one operator
    /\ f.inner \in BOOLEAN         \* may a tensor that a node reads be an output too?
    /\ f.levels \subseteq 0 .. 2   \* optimization levels (-O)
    /\ f.swap \in BOOLEAN          \* also --pass-pipeline with any two of Fusions

VARIABLES
  family,
  graph,
  pipeline,   \* the passes to run
  pass,       \* 0 while importing, then the next pass
  safe,       \* history: no pass so far met a graph outside SafeToRun
  original    \* history: what the imported graph computes

vars == <<family, graph, pipeline, pass, safe, original>>

\* Mutant: the activation is fused before the BatchNorm.
ReluFirst ==
  << "EliminateIdentityDropout", "ConstantFold", "FuseConvRelu",
     "FuseConvBatchNorm", "FuseConvSilu", "FuseAddRelu", "FuseConvAdd",
     "EliminateNoopTranspose", "ShareConstants", "EliminateDead" >>

DEFAULT_PIPELINE ==
  << "EliminateIdentityDropout", "ConstantFold", "FuseConvBatchNorm",
     "FuseConvRelu", "FuseConvSilu", "FuseAddRelu", "FuseConvAdd",
     "EliminateNoopTranspose", "ShareConstants", "EliminateDead" >>

Basic == << "EliminateIdentityDropout", "ConstantFold", "FuseConvBatchNorm",
            "EliminateDead" >>

\* A target without cpu and simd backends runs no FuseConvAdd.
PipelineForTarget(names, optimised) ==
  IF optimised THEN names ELSE SelectSeq(names, LAMBDA n : n # "FuseConvAdd")

PipelineForLevel(level) ==
  CASE level = 0 -> << >> [] level = 1 -> Basic [] level = 2 -> DEFAULT_PIPELINE

Fusions == {"FuseConvBatchNorm", "FuseConvRelu", "FuseConvSilu", "FuseConvAdd"}

Pipelines ==
  {PipelineForTarget(PipelineForLevel(l), o) : l \in family.levels, o \in BOOLEAN}
    \cup (IF family.swap THEN {<<a, b>> : a, b \in Fusions} ELSE {})

-----------------------------------------------------------------------------
(* The links of a graph (rebuild_graph_links) and its edits.               *)

NodeIds(g) == DOMAIN g.nodes
Consumers(g, t) == {u \in {<<i, k>> : i \in NodeIds(g), k \in 1 .. 5} :
                      u[2] \in DOMAIN g.nodes[u[1]].ins /\ g.nodes[u[1]].ins[u[2]] = t}
Producer(g, t) == LET P == {i \in NodeIds(g) : g.nodes[i].out = t}
                  IN  IF P = {} THEN 0 ELSE Max(P)
IsOutput(g, t) == t \in ToSet(g.outputs)
OnlyUsedBy(g, t, i) == \A u \in Consumers(g, t) : u[1] = i
AllConst(g, ins) == \A k \in DOMAIN ins : g.tensors[ins[k]].const
UsedTensors(g) == g.inputs \cup ToSet(g.outputs)
                    \cup UNION {ToSet(g.nodes[i].ins) \cup {g.nodes[i].out} : i \in NodeIds(g)}

CompactGraph(g) == [g EXCEPT !.tensors = Restrict(@, UsedTensors(g))]

Without(g, gone) ==
  LET kept == SetToSortSeq(NodeIds(g) \ gone, <)
  IN  [g EXCEPT !.nodes = [k \in DOMAIN kept |-> g.nodes[kept[k]]]]

RedirectTensor(g, old, new) ==
  [g EXCEPT !.nodes = [i \in DOMAIN @ |-> [@[i] EXCEPT !.ins = ReplaceAll(@, old, new)]],
            !.outputs = ReplaceAll(@, old, new)]

NewTensor(g) == Max(DOMAIN g.tensors) + 1
Weight(shape, base, bn) ==
  [shape |-> shape, role |-> "weight", const |-> TRUE, base |-> base, bn |-> bn]
Activation == [shape |-> "map", role |-> "activation", const |-> FALSE,
               base |-> <<"none">>, bn |-> << >>]
AddTensor(g, t, tensor) == [g EXCEPT !.tensors = [u \in DOMAIN @ \cup {t} |->
                                                    IF u = t THEN tensor ELSE @[u]]]

\* The loop of a pass over the nodes: the producers are those of the start
\* except where the pass updates them, consumers stay those of the start.
LoopStart(g) == [graph |-> g, gone |-> {},
                 producer |-> [t \in DOMAIN g.tensors |-> Producer(g, t)]]
NodeOrder(g) == [i \in NodeIds(g) |-> i]

-----------------------------------------------------------------------------
(* What a graph computes.                                                  *)

DataTerm(x) == IF x.bn = << >> THEN x.base ELSE <<"folded", x.base, x.bn>>
ReluTerm(v) == IF v[1] = "Relu" THEN v ELSE <<"Relu", v>>
ActTerm(act, v) ==
  CASE act = ""     -> v
    [] act = "Relu" -> ReluTerm(v)
    [] act = "Silu" -> <<"Mul", {v, <<"Sigmoid", v>>}>>

\* w and b are [base, bn]: a weight and a bias with the same BatchNorms
\* folded in stand for these BatchNorms after the convolution.
ConvTerm(x, w, b) ==
  IF w.bn = b.bn
  THEN FoldLeft(LAMBDA y, p : <<"BN", y, p>>, <<"Conv", x, w.base, b.base>>, w.bn)
  ELSE <<"MixedConv", x, w, b>>

TransposeTerm(v, perm) ==
  LET composed == IF v[1] = "Transpose" THEN [k \in DOMAIN perm |-> v[3][perm[k]]] ELSE perm
      inner == IF v[1] = "Transpose" THEN v[2] ELSE v
  IN  IF \A k \in DOMAIN composed : composed[k] = k THEN inner
      ELSE <<"Transpose", inner, composed>>

\* kernel_conv: inputs are x, w, an optional bias and an optional residual of
\* the size of the output, added before the activation; it reads no others.
ConvNodeTerm(g, node, env) ==
  LET Operand(t) == IF g.tensors[t].const THEN [base |-> g.tensors[t].base, bn |-> g.tensors[t].bn]
                    ELSE [base |-> env[t], bn |-> << >>]
      bias == IF Len(node.ins) >= 3 THEN Operand(node.ins[3])
              ELSE [base |-> <<"zero">>, bn |-> << >>]
      conv == ConvTerm(env[node.ins[1]], Operand(node.ins[2]), bias)
      sum == IF Len(node.ins) < 4 THEN conv
             ELSE IF g.tensors[node.ins[4]].shape # "map" THEN <<"out of bounds">>
             ELSE <<"Add", {conv, env[node.ins[4]]}>>
  IN  ActTerm(node.act, sum)

NodeTerm(g, node, env) ==
  LET x == env[node.ins[1]]
  IN  CASE node.op = "Conv" -> ConvNodeTerm(g, node, env)
        [] node.op = "BatchNormalization" -> <<"BN", x, env[node.ins[2]]>>
        [] node.op \in {"Add", "Mul"} ->
             ActTerm(node.act, <<node.op, {x, env[node.ins[2]]}>>)
        [] node.op = "Relu" -> ReluTerm(x)
        [] node.op \in {"Sigmoid", "Flatten"} -> <<node.op, x>>
        [] node.op \in {"Identity", "Dropout"} -> x
        [] node.op = "Transpose" -> TransposeTerm(x, node.perm)

\* The terms of all tensors after executing the nodes in their order.
Env(g) ==
  FoldLeft(LAMBDA env, node : [env EXCEPT ![node.out] = NodeTerm(g, node, env)],
           [t \in DOMAIN g.tensors |-> IF g.tensors[t].const THEN DataTerm(g.tensors[t])
                                       ELSE IF t \in g.inputs THEN <<"input", t>>
                                       ELSE <<"undefined">>],
           g.nodes)

Meaning(g) == LET env == Env(g) IN [k \in DOMAIN g.outputs |-> env[g.outputs[k]]]

-----------------------------------------------------------------------------
(* The passes.  A fusion's step is applied to every node i of the list as   *)
(* it was at the start; acc.graph is the graph as it is now.                *)

Finish(acc) == IF acc.gone = {} THEN acc.graph ELSE CompactGraph(Without(acc.graph, acc.gone))

EliminateIdentityDropout(g) ==
  LET Step(acc, i) ==
        LET node == acc.graph.nodes[i]
        IN  IF node.op \in {"Identity", "Dropout"} /\ ~IsOutput(acc.graph, node.out)
            THEN [acc EXCEPT !.graph = RedirectTensor(@, node.out, node.ins[1]),
                             !.gone = @ \cup {i}]
            ELSE acc
      end == FoldLeft(Step, LoopStart(g), NodeOrder(g))
  IN  CompactGraph(Without(end.graph, end.gone))

\* _eval_constant_node does not look at fused_activation.
ConstantFold(g) ==
  LET Step(acc, i) ==
        LET node == acc.graph.nodes[i]
            data == NodeTerm(acc.graph, [node EXCEPT !.act = ""], Env(acc.graph))
        IN  IF /\ ~IsOutput(acc.graph, node.out)
               /\ node.op \in {"Add", "Relu", "Flatten"}
               /\ AllConst(acc.graph, node.ins)
            THEN [acc EXCEPT !.graph = AddTensor(@, node.out, Weight("map", data, << >>)),
                             !.gone = @ \cup {i}]
            ELSE acc
      end == FoldLeft(Step, LoopStart(g), NodeOrder(g))
  IN  CompactGraph(Without(end.graph, end.gone))

\* Mutant: other readers of t are not looked for.
FusableAnyway(g, acc, i, t, op) ==
  acc.producer[t] # 0 /\ acc.graph.nodes[acc.producer[t]].op = op

\* Node i reads t alone, and a node of operator op produces it.
Fusable(g, acc, i, t, op) ==
  /\ acc.producer[t] # 0
  /\ acc.graph.nodes[acc.producer[t]].op = op
  /\ OnlyUsedBy(g, t, i)

\* Mutant: the fused node stays.
TakesOutput(acc, f, i) ==
  LET out == acc.graph.nodes[i].out
  IN  [acc EXCEPT !.graph.nodes[f].out = out, !.producer[out] = f]

\* Node f takes over the output of node i, which goes.
TakeOver(acc, f, i) ==
  LET out == acc.graph.nodes[i].out
  IN  [acc EXCEPT !.graph.nodes[f].out = out, !.producer[out] = f, !.gone = @ \cup {i}]

FuseConvBatchNormStep(g, acc, i) ==
  LET bn == acc.graph.nodes[i]
      c == acc.producer[bn.ins[1]]
      conv == acc.graph.nodes[c]
      params == DataTerm(acc.graph.tensors[bn.ins[2]])
      hasBias == Len(conv.ins) >= 3 /\ acc.graph.tensors[conv.ins[3]].const
      b == IF hasBias THEN conv.ins[3] ELSE NewTensor(acc.graph)
      withBias == IF hasBias THEN acc.graph
                  ELSE [AddTensor(acc.graph, b, Weight("channel", <<"zero">>, << >>))
                          EXCEPT !.nodes[c].ins = Append(@, b)]
      folded == [withBias EXCEPT !.tensors[conv.ins[2]].bn = Append(@, params),
                                 !.tensors[b].bn = Append(@, params)]
  IN  IF /\ bn.op = "BatchNormalization"
         /\ Fusable(g, acc, i, bn.ins[1], "Conv")
         /\ acc.graph.tensors[bn.ins[2]].const
      THEN TakeOver([acc EXCEPT !.graph = folded], c, i)
      ELSE acc

FuseConvBatchNorm(g) ==
  LET Step(acc, i) == FuseConvBatchNormStep(g, acc, i)
  IN  Finish(FoldLeft(Step, LoopStart(g), NodeOrder(g)))

\* fuse_conv_relu leaves the producer of the Relu's output as it was.
FuseConvReluStep(g, acc, i) ==
  LET relu == acc.graph.nodes[i]
      c == acc.producer[relu.ins[1]]
  IN  IF relu.op = "Relu" /\ Fusable(g, acc, i, relu.ins[1], "Conv")
      THEN [acc EXCEPT !.graph.nodes[c].act = "Relu", !.graph.nodes[c].out = relu.out,
                       !.gone = @ \cup {i}]
      ELSE acc

FuseConvRelu(g) ==
  LET Step(acc, i) == FuseConvReluStep(g, acc, i)
  IN  Finish(FoldLeft(Step, LoopStart(g), NodeOrder(g)))

\* The Sigmoid and the Mul that are the only two readers of t.
SiluPairs(g, acc, t) ==
  LET readers == {u[1] : u \in Consumers(g, t)}
  IN  {p \in readers \X readers :
         LET sigmoid == acc.graph.nodes[p[1]]
             mul == acc.graph.nodes[p[2]]
         IN  /\ Cardinality(Consumers(g, t)) = 2
             /\ sigmoid.op = "Sigmoid" /\ mul.op = "Mul"
             /\ OnlyUsedBy(g, sigmoid.out, p[2])
             /\ {t, sigmoid.out} \subseteq ToSet(mul.ins)}

FuseConvSiluStep(g, acc, c) ==
  LET pairs == SiluPairs(g, acc, acc.graph.nodes[c].out)
      pair == CHOOSE p \in pairs : TRUE
  IN  IF acc.graph.nodes[c].op = "Conv" /\ pairs # {}
      THEN TakeOver([acc EXCEPT !.graph.nodes[c].act = "Silu", !.gone = @ \cup {pair[1]}],
                    c, pair[2])
      ELSE acc

FuseConvSilu(g) ==
  LET Step(acc, i) == FuseConvSiluStep(g, acc, i)
  IN  Finish(FoldLeft(Step, LoopStart(g), NodeOrder(g)))

FuseAddReluStep(g, acc, i) ==
  LET relu == acc.graph.nodes[i]
      a == acc.producer[relu.ins[1]]
  IN  IF relu.op = "Relu" /\ Fusable(g, acc, i, relu.ins[1], "Add")
      THEN TakeOver([acc EXCEPT !.graph.nodes[a].act = "Relu"], a, i)
      ELSE acc

FuseAddRelu(g) ==
  LET Step(acc, i) == FuseAddReluStep(g, acc, i)
  IN  Finish(FoldLeft(Step, LoopStart(g), NodeOrder(g)))

\* The sides of an Add whose operand is a convolution to fuse it into.
ConvSides(g, acc, i) ==
  {s \in 1 .. 2 : /\ Fusable(g, acc, i, acc.graph.nodes[i].ins[s], "Conv")
                  /\ acc.graph.nodes[acc.producer[acc.graph.nodes[i].ins[s]]].act = ""}

FuseConvAddStep(g, acc, i) ==
  LET add == acc.graph.nodes[i]
      sides == ConvSides(g, acc, i)
      c == acc.producer[add.ins[Min(sides)]]
      conv == acc.graph.nodes[c]
      b == NewTensor(acc.graph)
      withBias == IF Len(conv.ins) >= 3 THEN acc.graph
                  ELSE [AddTensor(acc.graph, b, Weight("channel", <<"zero">>, << >>))
                          EXCEPT !.nodes[c].ins = Append(@, b)]
      fused == [withBias EXCEPT !.nodes[c].ins = Append(@, add.ins[3 - Min(sides)]),
                                !.nodes[c].act = add.act]
  IN  IF add.op = "Add" /\ sides # {}
      THEN TakeOver([acc EXCEPT !.graph = fused], c, i)
      ELSE acc

\* Mutant: the nodes stay where they are.
KeepsOrder(g) == g

\* _topological_sort: Kahn's algorithm with a queue, nodes in list order.
TopologicalSort(g) ==
  LET Edges(u, v) == IF u = v THEN {} ELSE {k \in DOMAIN g.nodes[v].ins :
                                              g.nodes[v].ins[k] = g.nodes[u].out}
      Ready(S) == SetToSortSeq(S, <)
      degree == [v \in NodeIds(g) |->
                   Cardinality(UNION {{u} \X Edges(u, v) : u \in NodeIds(g)})]
      Visit(acc, n) ==
        IF acc.queue = << >> THEN acc
        ELSE LET u == Head(acc.queue)
                 left == [v \in NodeIds(g) |-> acc.degree[v] - Cardinality(Edges(u, v))]
             IN  [order |-> Append(acc.order, u), degree |-> left,
                  queue |-> Tail(acc.queue)
                              \o Ready({v \in NodeIds(g) : Edges(u, v) # {} /\ left[v] = 0})]
      end == FoldLeft(Visit, [order |-> << >>, degree |-> degree,
                              queue |-> Ready({v \in NodeIds(g) : degree[v] = 0})],
                      NodeOrder(g))
  IN  [g EXCEPT !.nodes = [k \in DOMAIN end.order |-> g.nodes[end.order[k]]]]

FuseConvAdd(g) ==
  LET Step(acc, i) == FuseConvAddStep(g, acc, i)
      end == FoldLeft(Step, LoopStart(g), NodeOrder(g))
  IN  IF end.gone = {} THEN g
      ELSE CompactGraph(TopologicalSort(Without(end.graph, end.gone)))

EliminateNoopTransposeStep(g, acc, i) ==
  LET second == acc.graph.nodes[i]
      f == acc.producer[second.ins[1]]
      first == acc.graph.nodes[f]
  IN  IF /\ second.op = "Transpose" /\ i \notin acc.gone
         /\ Fusable(g, acc, i, second.ins[1], "Transpose") /\ f \notin acc.gone
         /\ \A k \in DOMAIN second.perm : first.perm[second.perm[k]] = k
      THEN [acc EXCEPT !.graph = RedirectTensor(@, second.out, first.ins[1]),
                       !.gone = @ \cup {f, i}]
      ELSE acc

EliminateNoopTranspose(g) ==
  LET Step(acc, i) == EliminateNoopTransposeStep(g, acc, i)
  IN  Finish(FoldLeft(Step, LoopStart(g), NodeOrder(g)))

\* The key is the shape and the bytes.
SameConstant(x, y) ==
  x.const /\ y.const /\ x.shape = y.shape /\ x.base = y.base /\ x.bn = y.bn

\* Tensors with the same key become the first of them.
ShareConstants(g) ==
  LET First(t) == Min({t} \cup {u \in DOMAIN g.tensors :
                                   SameConstant(g.tensors[t], g.tensors[u])})
      Redirected(s) == [k \in DOMAIN s |-> First(s[k])]
  IN  IF \A t \in DOMAIN g.tensors : First(t) = t THEN g
      ELSE CompactGraph([g EXCEPT !.nodes = [i \in DOMAIN @ |-> [@[i] EXCEPT !.ins = Redirected(@)]],
                                  !.outputs = Redirected(@)])

\* The nodes the outputs depend on, found backwards from them.
EliminateDead(g) ==
  LET Closure(live, n) == live \cup UNION {ToSet(g.nodes[i].ins) : i \in
                                             {j \in NodeIds(g) : g.nodes[j].out \in live}}
      live == FoldLeft(Closure, ToSet(g.outputs), NodeOrder(g))
  IN  CompactGraph(Without(g, {i \in NodeIds(g) : g.nodes[i].out \notin live}))

-----------------------------------------------------------------------------
(* The importer and the pass manager.                                      *)

\* Tensor 0 is the graph's input, tensor k the k-th initializer: two kernels
\* of the same bytes, a bias, BatchNorm parameters, a [1,C,1,1] offset, a map.
Initializers ==
  << Weight("kernel", <<"const", "w">>, << >>), Weight("kernel", <<"const", "w">>, << >>),
     Weight("channel", <<"const", "b">>, << >>), Weight("channel", <<"const", "p">>, << >>),
     Weight("channel", <<"const", "c">>, << >>), Weight("map", <<"const", "m">>, << >>) >>

EmptyGraph ==
  [nodes |-> << >>, inputs |-> {0}, outputs |-> << >>,
   tensors |-> [t \in {0} \cup family.consts |->
                  IF t = 0 THEN [Activation EXCEPT !.role = "input"] ELSE Initializers[t]]]

Perms == {<<2, 3, 1>>, <<3, 1, 2>>}

\* The operands that a node of the operator may have in graph g.
Operands(g, op) ==
  LET maps == {t \in DOMAIN g.tensors : g.tensors[t].shape = "map"}
      kernels == family.consts \cap {1, 2}
  IN  CASE op = "Conv" -> {<<x, w>> : x \in maps, w \in kernels}
                            \cup {<<x, w, 3>> : x \in maps, w \in IF 3 \in family.consts THEN kernels ELSE {}}
        [] op = "BatchNormalization" -> {<<x, 4>> : x \in maps}
        [] op = "Add" -> (maps \X (maps \cup (family.consts \cap {5}))) \cup ((family.consts \cap {5}) \X maps)
        [] op = "Mul" -> maps \X maps
        [] OTHER -> {<<x>> : x \in maps}

Init ==
  /\ family \in Families
  /\ graph = EmptyGraph
  /\ pipeline = << >>
  /\ pass = 0
  /\ safe = TRUE
  /\ original = << >>

ImportNode(op) ==
  /\ pass = 0 /\ Len(graph.nodes) < family.maxNodes
  /\ Cardinality({i \in NodeIds(graph) : graph.nodes[i].op = op}) < family.most
  /\ \E ins \in Operands(graph, op), perm \in IF op = "Transpose" THEN Perms ELSE {<< >>} :
       LET out == NewTensor(graph)
       IN  graph' = [AddTensor(graph, out, Activation) EXCEPT !.nodes =
                       Append(@, [op |-> op, ins |-> ins, out |-> out, act |-> "", perm |-> perm])]
  /\ UNCHANGED <<family, pipeline, pass, safe, original>>

FinishImport ==
  /\ pass = 0 /\ graph.nodes # << >>
  /\ LET outs == {graph.nodes[i].out : i \in NodeIds(graph)}
         sinks == {t \in outs : Consumers(graph, t) = {}}
     IN  \E chosen \in SUBSET (IF family.inner THEN outs ELSE sinks) \ {{}} :
           graph' = [graph EXCEPT !.outputs = SetToSortSeq(chosen, <),
                                  !.tensors = [t \in DOMAIN @ |-> IF t \in chosen
                                                 THEN [@[t] EXCEPT !.role = "output"] ELSE @[t]]]
  /\ pipeline' \in Pipelines
  /\ pass' = 1
  /\ original' = Meaning(graph')
  /\ UNCHANGED <<family, safe>>

Apply(name, g) ==
  CASE name = "EliminateIdentityDropout" -> EliminateIdentityDropout(g)
    [] name = "ConstantFold"             -> ConstantFold(g)
    [] name = "FuseConvBatchNorm"        -> FuseConvBatchNorm(g)
    [] name = "FuseConvRelu"             -> FuseConvRelu(g)
    [] name = "FuseConvSilu"             -> FuseConvSilu(g)
    [] name = "FuseAddRelu"              -> FuseAddRelu(g)
    [] name = "FuseConvAdd"              -> FuseConvAdd(g)
    [] name = "EliminateNoopTranspose"   -> EliminateNoopTranspose(g)
    [] name = "ShareConstants"           -> ShareConstants(g)
    [] name = "EliminateDead"            -> EliminateDead(g)

\* The situations in which a pass keeps the meaning of the graph; what the
\* code does not check itself is a conjunct here.
SafeToRun(name, g) ==
  LET Op(i) == g.nodes[i].op
      \* i reads, alone, the output of the convolution c
      ConvInto(c, i, t) == Op(c) = "Conv" /\ g.nodes[c].out = t /\ OnlyUsedBy(g, t, i)
                             /\ t \in ToSet(g.nodes[i].ins)
      Private(t, c) == \A u \in Consumers(g, t) : u[1] = c
  IN  \A i \in NodeIds(g) :
        LET node == g.nodes[i]
            x == node.ins[1]
        IN  CASE name = "ConstantFold" -> node.op = "Add" => node.act = ""
              [] name = "FuseConvBatchNorm" /\ Op(i) = "BatchNormalization" ->
                   /\ ~IsOutput(g, x)
                   /\ \A c \in NodeIds(g) : Op(c) = "Conv" =>
                        /\ g.nodes[c].act = "" /\ Len(g.nodes[c].ins) <= 3
                        /\ \A k \in 2 .. Len(g.nodes[c].ins) : Private(g.nodes[c].ins[k], c)
              [] name = "FuseConvRelu" /\ Op(i) = "Relu" ->
                   \A c \in NodeIds(g) : ConvInto(c, i, x) =>
                     ~IsOutput(g, x) /\ g.nodes[c].act # "Silu"
              [] name = "FuseConvSilu" /\ Op(i) = "Mul" ->
                   \A k \in 1 .. 2 : ~IsOutput(g, node.ins[k]) /\ \A c \in NodeIds(g) :
                     g.nodes[c].out = node.ins[k] => g.nodes[c].act = ""
              [] name = "FuseAddRelu" /\ Op(i) = "Relu" ->
                   Producer(g, x) # 0 /\ Op(Producer(g, x)) \in {"Add", "Relu"} => ~IsOutput(g, x)
              [] name = "FuseConvAdd" /\ Op(i) = "Add" ->
                   /\ \A c \in NodeIds(g), s \in 1 .. 2 : ConvInto(c, i, node.ins[s]) =>
                        /\ ~IsOutput(g, node.ins[s]) /\ Len(g.nodes[c].ins) <= 3
                        /\ node.ins[3 - s] # node.ins[s]
                        /\ g.tensors[node.ins[3 - s]].shape = "map"
                   /\ \A s \in 1 .. 2 : Producer(g, node.ins[s]) # 0 =>
                        ~(Op(Producer(g, node.ins[s])) = "Add" /\ OnlyUsedBy(g, node.ins[s], i))
              [] name = "EliminateNoopTranspose" /\ Op(i) = "Transpose" ->
                   Producer(g, x) # 0 /\ Op(Producer(g, x)) = "Transpose" => ~IsOutput(g, x)
              [] OTHER -> TRUE

RunPass ==
  /\ pass \in 1 .. Len(pipeline)
  /\ graph' = Apply(pipeline[pass], graph)
  /\ safe' = (safe /\ SafeToRun(pipeline[pass], graph))
  /\ pass' = pass + 1
  /\ UNCHANGED <<family, pipeline, original>>

Next == (\E op \in family.ops : ImportNode(op)) \/ FinishImport \/ RunPass

Spec == Init /\ [][Next]_vars

-----------------------------------------------------------------------------
(* Properties.                                                             *)

\* Graphs stay well formed: ids are tensors', nodes have one producer each.
TypeOK ==
  /\ pass \in 0 .. Len(DEFAULT_PIPELINE) + 1
  /\ safe \in BOOLEAN
  /\ UsedTensors(graph) \subseteq DOMAIN graph.tensors
  /\ \A i, j \in NodeIds(graph) : graph.nodes[i].out = graph.nodes[j].out => i = j

\* As long as every pass met a graph it can deal with, the model computes what
\* the imported one computes, after each pass of every pipeline
\* (execution_plan.md asks for an unchanged output).
OutputsKept == pass > 0 /\ safe => Meaning(graph) = original

\* As long as that holds, every tensor that a node reads is there when the node
\* runs, and every output is there at the end: the executor runs the nodes in
\* list order and asks nothing.
NodesExecutable ==
  LET Available(k) == graph.inputs \cup {t \in DOMAIN graph.tensors : graph.tensors[t].const}
                        \cup {graph.nodes[j].out : j \in 1 .. k}
  IN  pass > 0 /\ safe =>
        /\ \A i \in NodeIds(graph) : ToSet(graph.nodes[i].ins) \subseteq Available(i - 1)
        /\ ToSet(graph.outputs) \subseteq Available(Len(graph.nodes))

\* Before the dead nodes go, no fusion of a full pipeline has left a pair
\* behind that it could fuse: the order of the passes exposes them all.
AllFused ==
  pass \in 1 .. Len(pipeline) /\ pipeline[pass] = "EliminateDead" /\ pipeline # Basic =>
    \A i, f \in NodeIds(graph) :
      LET node == graph.nodes[i]
          first == graph.nodes[f]
      IN  first.out = node.ins[1] /\ OnlyUsedBy(graph, first.out, i) =>
            ~ /\ first.act = ""
              /\ \/ first.op = "Conv" /\ Len(first.ins) <= 3 /\ node.op = "BatchNormalization"
                 \/ first.op \in {"Conv", "Add"} /\ node.op = "Relu"

\* What execution_plan.md:321 asks of the passes, without the condition.
OutputsUnchanged == pass > 0 => Meaning(graph) = original

=============================================================================
