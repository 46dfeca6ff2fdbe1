# SPINNV2 in TLA+

SPINNV2 compiles an ONNX model ahead of time into one binary package (SPK) and
runs it with a small C runtime.  The compiler turns the model into a graph (SIR),
rewrites the graph, chooses a kernel for every node, plans one static arena for
all activations, and writes the package; the runtime loads the package, binds it
to an arena and a scratch buffer, and executes the nodes in order, optionally
under a fault-protection plan.  This directory holds the specifications of that
program, the TLC runs that check them on small instances, and the proofs that
TLAPS checks for every instance.

## 1. The system

| Component | Source | State | Operations | Talks to |
|---|---|---|---|---|
| ONNX importer | `compiler/frontend/onnx_importer.py` | none | `import_onnx` | builds the graph |
| Graph IR | `compiler/ir/graph.py`, `types.py` | tensors, nodes, inputs, outputs, producer/consumer links | `add_tensor`, `add_node` | every compiler part |
| Graph passes | `compiler/passes/transforms.py`, `manager.py` | the graph, attributes of fused nodes | Identity/Dropout removal, constant folding, Conv+BN, Conv+Relu, Conv+Silu, Add+Relu, Conv+Add, no-op Transpose, dead nodes, shared constants | rewrite the graph in place, in the order of the pipeline |
| FP16 conversion, quantization | `compiler/passes/convert_fp16.py`, `compiler/quantization/*` | weight data | convert, calibrate, quantize | the graph's weights |
| KernelSpec selection | `compiler/planner/kernel_spec.py` | list of specs, scratch peak | `select_kernel_specs` | target profile, writer |
| Memory planner | `compiler/planner/memory_plan.py` | lifetimes, alias maps, entries, active list, free list, peak | `plan_memory` | writer, and through it the runtime's arena |
| Protection plan | `compiler/reliability/protection_plan.py` | entries | load, validate, `scratch_bytes`, `to_bytes` | writer, executor |
| SPK writer | `compiler/packager/spk_writer.py` | sections, offsets, header | `write_spk` | the loader reads what it lays out |
| C code generator | `compiler/codegen/c_codegen.py` | none | SPK blob or inline C | runtime |
| Loader | `runtime/core/loader.c` | the context and what it owns | load, free | executor |
| Executor | `runtime/core/executor.c` | tensor data pointers, arena, scratch, fault event, invocation counts, statistics, range observations | prepare, set/bind input, bind/get output, run, fault and statistics calls | dispatch, protection records |
| Kernel registry, dispatch | `runtime/kernels/reference/kernels.c` | table of user kernels | register, clear, find, execute with fallback | kernels |
| Kernels | `runtime/kernels/reference`, `optimized` | `node_cache` of optimized convolutions and Gemm | one function per operator | arena, scratch |
| Platform | `runtime/platform/platform.c` | core counts, clock | allocation, time, threads | loader, kernels |
| Reliability research | `research/reliability` | experiment records, protection plans under a budget | inject, profile, optimize | packages and the runtime tools |
| Tools, benchmarks, scripts, tests | `runtime/tools`, `benchmarks`, `scripts`, `tests`, `runtime/tests` | none | drive the above | |

**How they interact.**  The compiler is one sequential program (`compiler/cli.py`,
`main`): import, passes, kernel specs, memory plan, protection plan, writer.  Its
parts share the graph, and two numbers cross from one part to another without
ever being compared: the arena offsets (planner → tensor records → executor)
and the scratch layout (kernel specs + protection plan → header → executor and
kernels).  The runtime runs one inference at a time on a context; threads exist
only inside kernels (`omp parallel for` over disjoint outputs).  So the hard
behaviours are not races.  They are

* *aliasing in time*: one arena whose bytes belong to different tensors at
  different nodes, in-place outputs, Concat inputs placed inside the output;
* *repetition*: several inferences on one context, and nodes executed two or
  three times by the protection modes, on memory that the first execution has
  already changed;
* *long sequences of legal steps*: frees, splits and merges of blocks, several
  fusions in one pass, calls of the C API in an unusual order;
* *partial failure*: a node that is refused, an event that is rejected, an
  allocation that fails in the middle.

The hazards are listed with their lines in `PROJECT.json`.

**What makes each component correct.**

* Memory planner: live tensors never share a byte unless one is an alias of the
  other; no byte is lost; offsets are aligned; the limit is respected.
* Planner with executor: each node reads what its producers wrote in this run;
  outputs survive until the run returns.
* Executor under protection: faults on duplicated nodes are masked, no false
  alarms, counters add up, scratch suffices, the run returns.
* Passes: the graph computes the same outputs before and after.
* Writer, loader and code generator: what one lays out the others find; a damaged
  file is refused; a host that keeps to the interface gets every output where the
  graph has it; everything owned is given back on every path.
* Selection and dispatch: every node of an accepted model executes on every build;
  the kernel that runs is the one with the highest priority among those that
  match; it reads its operands in the type they are stored in and keeps to the
  scratch that was planned.
* Reliability study: plans compile and keep to their budgets, the integer program
  is an optimum, and what is believed of a node was measured on its tensor.

## 2. The modules

| Module | What it is |
|---|---|
| `Arena` | Abstract specification of the planner: regions granted in order of first use, apart from all held ones, released after their last use. |
| `BestFitArena` | The packing loop of `plan_memory`, one action per step of the loop. |
| `BestFitArenaList` | The same loop with the code's own data structures (sorted list, rebuilt active list); implements `BestFitArena`. |
| `MemoryPlan` | The whole of `plan_memory` on a graph: lifetimes, in-place and Concat aliases, packing (an `INSTANCE` of `BestFitArena`), alias offsets, limit. |
| `PlannedExecution` | Composition: a graph is built, planned by `MemoryPlan`, and run by the executor on the planned memory, several times. |
| `ProtectedExecution` | `spkv2_run` with its protection modes, fault events, statistics and the scratch layout of the writer. |
| `GraphPasses` | The optimisation pipeline on small graphs: every pass of `transforms.py`, every level, every target, and pipelines in another order. |
| `SpkWriter` | The loop of `write_spk` that lays sections out, for any list of sections. |
| `SpkSections` | Which sections a graph has, how long they are, what offsets records hold, and what can happen to the file. |
| `SpkRuntime` | The interface of the runtime library, one operator per function: load, prepare, set, bind, run, get, free. |
| `GeneratedModel` | The code generator and the four programs it emits. |
| `Deployment` | Composition: a package is written (`SpkWriter`), damaged, turned into a program or loaded, and used by a host. |
| `KernelPlan` | FP16 and INT8 conversion, profiles, `select_kernel_specs` and its scratch. |
| `KernelDispatch` | Composition: a graph is converted, planned by `KernelPlan`, and executed by the registry, the kernels and the node cache. |
| `PlanOptimizer` | The sixteen methods of optimization, as sets of the selections they may return. |
| `RiskEvidence` | Hooks, profiles, mappings, metrics, costs and calibration of the study. |
| `ProtectionStudy` | Composition: the study from screening to calibration, a script per action. |
| `MCPlannedExecution`, `MCProtectedExecution`, `MCGraphPasses`, `MCDeployment`, `MCKernelDispatch`, `MCProtectionStudy` | The instances for TLC. |
| `BestFitArena_proofs`, `BestFitArenaList_proofs`, `PlannedExecution_proofs`, `ProtectedExecution_proofs`, `Deployment_proofs`, `KernelDispatch_proofs` | The theorems. |
| `DeploymentParts_proofs` | The theorem about the writer's layout, and lemmas for `Deployment_proofs`: the file and its directory; what each function of the library and of the generated programs does to a state. |
| `NaturalOrder` | Least and greatest elements of sets of naturals, and induction, for the proofs. |

### 2.1 BestFitArena and Arena

The variables are the locals of `plan_memory`: `entries`, `active`,
`free_blocks`, `peak`; `request` is the tensor of the current iteration and
`cursor` its sort key.  The loop learns of its input only through the order of
first use and id, so the input is not a constant: `Consider` takes any tensor
that may come next, with any life and size.  This makes one behaviour of the
module out of every graph.  `Expire` is one turn of the inner loop (lines 85-90),
`PlaceInFree` and `PlaceAtPeak` the two outcomes of `_alloc_best_fit`, `Finish`
the comparison with the target's limit.

The free list is a set of blocks in `BestFitArena` and the Python list in
`BestFitArenaList`.  There the one-pass merge relies on the sort, and "the first
of the smallest blocks" on the order of the list.  `Sorted` is the list in another
order, any in which no block comes before a lower one: which one a sort picks among equal
pairs makes no difference.  The merge is a recursive function, one value per block of the
sorted list (`MergedUpTo`).  `BestFitArenaList` implements
`BestFitArena` (`ImplementsBestFit`, the list of free blocks mapped to its range
and the two active lists to their union), and `BestFitArena` implements `Arena`
(`ImplementsArena`).

### 2.2 MemoryPlan and PlannedExecution

A graph is a record with one output per node.  It is chosen nondeterministically,
node by node (`AddNode`), with the restriction that every tensor is consumed or
an output (`Seal`): that is what dead-node elimination leaves.  `AnalyzeGraph` is
`analyze_lifetimes`; `VisitInplace` and `VisitConcat` are one iteration each of the two
loops that find aliases, over the nodes in order (`visited`), and extend the lifetimes by
the alias they find.  The code extends them after both loops, in the order in which the
aliases were found; neither loop reads a lifetime, so the result is the same.
`ConsiderNext`/`PackStep` drive the packing loop with exactly the sorted tensors;
`FinishPlan` gives the aliases their offsets in tensor order, which may fail with
`KeyError`, and then checks the limit.  The lookup fails on a Concat that is placed in a
later one and has an input placed in it, and on nothing else (`KeyErrorOnlyForNested`):
the aliases of aliases all find their entries.

The executor's memory is a function from cells to values.  `<<run, <<t, k>>>>` is what
an operator computes in a run for cell `k` of its output `t`.  `meaning` says of every
tensor which of these its cells must hold; it grows with the graph, and gives a copy the
cells of its input and a Concat those of its inputs, one after the other, in any order
and also of one input twice.  A kernel that reads anything else writes `Garbage`.  Kernels are modelled by the cells they read and write and in
which order: a copy, Relu cell by cell, Concat as copies one after another, and
every other operator as a computation that reads all inputs while it writes.
Tensors outside the arena (`alloc_input`, `alloc_output` false) have buffers of
their own, bound by the host.  The host sets all inputs before each run, as
`spkv2_run.c` and `spkv2_bench.c` do: the planner gives the bytes of an input to
later tensors, so a second run without setting them would read garbage.

Left out: nodes with several outputs (allocated like any other, never aliased),
weights (never in the arena), Concat along inner axes (never aliased).

### 2.3 ProtectedExecution

The package is a chain of nodes.  A value stands for the whole contents of a
tensor; a tensor lives at a place, and a node that the planner runs in place
writes the place it reads.  Every call of `execute_once` is an action:
`RunUnprotected`, `GuardFirst`/`GuardRerun` (range guard with one rerun),
`DmrFirst`/`DmrSecond`/`DmrRerun` (two executions, a comparison, a third one that
decides).  `RefuseNode` is every return before a kernel has written anything
(-25 no room for the copies, -99 no kernel, -14 no scratch for it);
`RejectEvent` is an event that names a tensor the node does not write.  The
scratch is a row of cells: kernels overwrite the first ones, the copies of DMR
lie at the offset the writer put into the record.  Between runs the host sets,
clears and resets.  `ideal`, `hit` and `aborted` are history variables: what the
tensors should hold, which nodes a fault has hit, which reruns returned an error.

### 2.4 GraphPasses

`ImportNode` and `FinishImport` build any graph of a *family* (operators,
initializers, numbers of nodes, which tensors may be outputs) and choose a
pipeline; `RunPass` then applies the next pass of it.  A pass is a function on
graphs: the loop over the nodes is a fold, with the same mixture of stale and
updated links as the code (`rebuild_graph_links` runs once per pass, consumers are
those of the start, producers are updated by all fusions but `fuse_conv_relu`).
`FuseConvAdd` includes the topological sort, every pass its compaction.

What a graph computes is a *term*: `Env` executes the nodes in list order, as the
runtime does, and `NodeTerm` gives each operator the term its kernel computes,
with the fused activation and residual.  Two equations are built in, since they
are what the passes rely on: a weight and a bias with the same BatchNorms folded
in stand for these BatchNorms after the convolution (`ConvTerm`), and Transposes
compose (`TransposeTerm`).  Add and Mul commute; Relu is idempotent.  A tensor that
no node has written is `<<"undefined">>`, a residual that is not a feature map
`<<"out of bounds">>`.

The passes do not keep the meaning of every graph.  `SafeToRun` lists, pass by
pass, the situations in which they do, and `OutputsKept` says that this list is
complete: as long as every pass met such a graph, the outputs are what the
imported graph computes.  What the code itself does not check is in the list:

* a fused tensor is not a graph output (all fusions; `SwallowedOutput`);
* a convolution whose BatchNorm is folded shares neither weight nor bias with
  another node, and has no activation or residual yet (the latter arises only
  with `--pass-pipeline`);
* a convolution that becomes a Silu has no activation yet: for Conv, Relu, then
  Sigmoid and Mul on its output, `fuse_conv_silu` replaces the Relu;
* the residual of a Conv+Add is a feature map and not the convolution's own
  output, and the convolution has none yet: a `[1,C,1,1]` operand is read as if it
  had the size of the output, and a second residual becomes a fifth input that no
  kernel reads;
* constant folding does not look at an activation fused into an Add.

### 2.5 SpkWriter, SpkSections, SpkRuntime, GeneratedModel and Deployment

A file is a record: the header's fields, the directory, and of its contents what
a reader can tell apart (whether a checksum over it agrees, whether the weights
are zeroed, what the records say).  `SpkWriter` makes the layout, one section per
step; `SpkSections!Package` puts graph and layout together; `Damaged` is the file
after one accident: a byte, the magic, the version, a field of the header, a
truncation, a directory entry that points elsewhere.

A runtime state is a context (or none), the number of live blocks of every kind
on the heap, the last return code, and whether the program has used memory that
is not its own.  A tensor has a *place* (null, weights, arena, a buffer of the
host, one that is gone) and a *content* (fresh, spent, right, wrong).  Each
function of the library is an operator from a state to the state it leaves, with its
checks in their order (`LoadError`), its allocations (`LoadBlocks`), and what its
error paths free or forget (`Forgotten`).  `Deployment` gives them to a host that calls them
in any order, and keeps in `host.careful` whether the calls were in order; a
property about such hosts says what the library owes them.  `spkv2_run` answers -5
for a tensor that is null (`Execute`); an inline program has no such check and gives its
kernels what there is (`RunNodes`).

The emitted programs of the code generator keep their state in statics.  Their
`run` points tensors to the caller's buffers, which are the caller's again after
the call (`Detached`).  The wrapper ("blob") calls the library; the inline program
has tables of its own and knows the outputs by id only.

One allocation fails per behaviour, the one named in the deployment, whenever it
is reached.

### 2.6 KernelPlan and KernelDispatch

A node is its shape: channels, kernel, stride, padding, dilation, groups, height, whether it
has a residual and transposed operands, and the weight it reads.  `KernelPlan`
converts weights, also those several nodes share, and selects a spec, a fallback
and the scratch in the order of the code.  `KernelDispatch` executes the nodes,
twice on one context, in a runtime that was built plain, with AVX2, NEON, NEON and
dot products, or on Apple hardware.  A kernel is an `Outcome`: its return code,
what it leaves in the cache, whether it read the weights as what they are, whether
it added the residual, the bytes of scratch it wrote.  The host may register and
clear kernels of its own before any run; `TableSize` stands for the 64 entries of
the table.  The two loops whose result matters, over the nodes in
`select_kernel_specs` and over the host's kernels in `find_kernel`, are recursive
functions on an interval (`SelectedUpTo`, `BestUser`), one value per iteration.

### 2.7 PlanOptimizer, RiskEvidence and ProtectionStudy

Every script is an action of `ProtectionStudy` that reads what earlier ones wrote.
What is random (does a fault turn out critical, does it leave the bounds) is
chosen by the action; `struck` is a history of which tensor each fault really hit.
Risks are integers in bytes times percent times percent, bytes
small integers, latencies hundredths of a scan of a tensor, Wilson bounds are computed in percent.  A solver may return any
optimum, so a method is the set of the selections it may return; `Selections`
enumerates instead of solving.  The latency of a guard is its scan and a
rerun for the share of clean images that may leave the bounds, measured on the images kept
back (`GuardLatency`); a node without a measured time is no candidate.

## 3. The runs

| Run | Question | Bounds and why they are enough |
|---|---|---|
| `BestFitArena` | Is the packing loop right for every input? | 4 tensors, 3 first and last uses, sizes 16 and 20 (one aligned, one not), limit 96. Four tensors are what a split followed by a merge on both sides needs; the limit lies between what three and four large tensors take. |
| `BestFitArenaList` | Do the lists do what the sets do? | The same with sizes 16 and 48, so that a freed block is split and there are equal blocks to choose from. |
| `PlannedExecution` | Do nodes read what was written, over two runs, does every tensor lie where kernels need it, and when does planning raise `KeyError`? | Two families. All graphs of 4 nodes over Conv, Relu, Reshape, Add, Concat with one input, in the arena: chains of two aliases, a Concat with aliased inputs, in either order or the same one twice, and a reader of the storage after it fit in four nodes. Graphs of 2 or 3 nodes with tensors of 8 and 16 bytes in cells of 8, so that a Concat offset can be misaligned, and inputs and outputs inside or outside the arena. Limit 64: some plans are refused. 3,499,220 states. |
| `InPlaceReads` | A statement of `docs/` that in-place rewriting breaks. | 3 or 4 nodes; the counterexample has four. |
| `Protected` | Is protection right, and do events, counts and statistics stay right over two runs? | 2 nodes, 2 runs, tensors of 1 or 2 cells, every mode, event and place, a kernel that is missing. |
| `DmrInPlace` | The claim that DMR recovers every fault. | 2 nodes; the counterexample has one protected in-place Relu. |
| `GraphPasses` | Do the passes keep what a graph computes? | Eight families (`MCFamilies`), each around the patterns of some passes: BatchNorms and activations with any outputs at every level, residuals over two convolutions, broadcast residuals, Silu with other readers, elimination and folding in chains, equal kernels shared after folding, any two fusions in any order. Three nodes hold a pattern and a neighbour of it, four a pattern and another reader of two of its tensors. |
| `SwallowedOutput` | The statement of `docs/` that outputs stay the same. | Two and three nodes. |
| `Deployment` | Does what the compiler writes arrive, whatever happens on the way and in whatever order the host calls? | Three graphs: with padding between weights; with two inputs and two outputs against the order of their ids, external, quantized and protected; without weights or arena. Every way of deployment, every damage, every allocation that can fail. At most 7 calls: load, prepare, set one input, bind the other and an output, run, and get or free are a complete use of the second graph; the others leave calls for repetitions. 328,828 states. |
| `ExternalWeights` | What the generator says of the weights' patch. | One graph, three calls. |
| `KernelDispatch` | Does every node run, on the right operands, in its scratch? | 15 shapes of a node, each on one side of a condition of the selection or of a kernel, and two pairs that share a weight; four bundled profiles and one of a user's own; five builds (one for the two profiles whose kernels are in every build), three conversions, two ways. A table of 2 user kernels, of four offers (`Offers`: never counted, equal to a built-in one, better, better but refusing): one that is preferred and one that is not, and it can be full. Two runs: the second finds the cache of the first. 642,677 states. |
| `ProtectionStudy` | Do plans, optimum and evidence agree? | Four networks of three to five nodes: calls of one module several times, fused nodes, a node without a hook, two outputs, a missing checkpoint, a model that cannot be mapped. One injection per call and two runtime faults: with two, a node can have failed or not, under a guard or not. Either no clean image is kept back, and a guard costs only its scan, or one, which leaves the bounds or not: then a guard also costs a part of a rerun, the upper bound of that share. Two budgets, one where latency binds and one where memory does; one round of feedback (`MaxRounds`), after which plans are made once more. 152,608 states. |

Deadlock is not checked: planning ends, a pipeline ends, the host stops after
`MaxRuns` or `MaxCalls`, a study ends with its last plan.

**Fairness.**  `ProtectedExecution!FairSpec` has weak fairness on the steps of
`spkv2_run`, a sequential C function, and none on the host.  The other modules
state no liveness: a loop over a finite list ends whatever its body does, the other
actions are whole functions or scripts, and whether a
host or an experimenter goes on is up to them.

**What the violations show.**

* `InPlaceReads`: `_find_inplace_aliases` asks that the *direct* input of a Relu
  has one consumer.  If that input is a Reshape of a tensor that is read later,
  the Relu changes the later reader's input.  In the same way nothing excludes a
  Relu in place on a graph output; one run is kept.
* `DmrInPlace`: an in-place node under DMR executes again on its own output, so a
  corruption that the kernel maps to itself passes the comparison.
* `SwallowedOutput`: fusions count the consumers of a tensor and do not ask whether
  it is a graph output; a Conv whose result is an output *and* is read by a Relu
  leaves that output without a producer.  The families of `MCGraphPasses` also
  break `OutputsUnchanged` for the other reasons in 2.4; one run is kept.  Beyond
  the run: `eliminate_noop_transpose` makes the input of the first Transpose the
  graph output and leaves its role, by which `output_tensor_id` looks for it.
* `ExternalWeights`: the emitted patch reads the package's header with offsets that
  are not the header's, so the weights are never put back and load answers -6.

`ReadsIntact` and `OutputsCorrect` of `PlannedExecution` state exactly what holds
besides: if nothing that shares the storage of an in-place Relu is read later or
is an output (`InPlaceIsSafe`), all reads are right.

**What the properties except.**  Where the code does less than one would wish and
no document promises more, the exception is written into the property, which then
does not watch over that hazard (`PROJECT.json` says so under each):

* `ReadsIntact`, `OutputsCorrect`: an in-place Relu whose storage is read later or is an
  output (`InPlaceIsSafe`, above).
* `OutputsKept`: the graphs that are not `SafeToRun` (2.4).

* `DamageRefused`: a damage to `checksum_type` turns the check off, and the inline
  generator does not check.
* `NothingLeaked`: `output_ids` after one of the last three allocations of load has
  failed; a context that is prepared twice loses its first arena and scratch.
* `NoUndefinedAccess`: `run_multi` of an inline program before `init` (without
  external weights it does not initialise itself); a buffer bound in the library
  lives as long as the context (`executor.c:265` keeps the pointer).
* `OutputsDelivered`: inline programs number outputs by id, which a graph with
  another order does not survive (`OrderKnown`).
* `NodesExecute`: direct calls of inline programs have no way back from -99
  (`InlineGap`: INT8 convolutions, whose quantization table the program does not
  carry; grouped convolutions with the CPU im2col; transposed Gemm; FP16 on AVX2;
  the direct stride-2 kernel on NEON other than Apple's, `conv.c:2262`).
* `OperandsUsed`: Winograd F(4,3) takes FP16 weights promoted into the cache for
  packed ones; reference kernels read FP16 and INT8 weights as FP32, also the
  weight that `quantize_conv_weights` has shared; the direct stride-2 kernel,
  which no bundled profile offers, drops the residual.
* `KernelScratchFits`: one row of columns longer than 2 MiB overruns the scratch.
* `EvidenceSound`: the range report is keyed by the ids of the screening and looked
  up by those of the runtime, so a guard has its own bounds only where they agree.
* `IlpNotBeaten`: the risk of `ilp-static` is taken from the candidates, since the
  method reports its own proxies' unit.

## 4. What is proved

| Theorem | Property | For every |
|---|---|---|
| `PlanInvariant` | the inductive invariant of packing | number of tensors, life and size |
| `TypeCorrect`, `LiveTensorsDisjoint`, `ArenaAlwaysTiled`, `EntriesFit`, `AlwaysAligned` | `TypeOK`, `NoLiveOverlap`, `ArenaTiled`, `EntriesInsideArena`, `Aligned` | same |
| `PlannerImplementsArena` | `ImplementsArena` | same |
| `ListInvariant` | the inductive invariant of the loop's lists | number of tensors, life and size, length of the lists |
| `ListsImplementBestFit`, `ListsAlwaysWellFormed` | `ImplementsBestFit`, `ListsWellFormed` | same |
| `ListPlansDisjoint` | `NoLiveOverlap`, of the lists | same |
| `PlannedInvariant` | the inductive invariant of planning and execution | graph (length, operators, sizes, aliases), allocation flags, limit, number of runs |
| `PlannedTypeCorrect`, `TensorsAlwaysWellPlaced`, `PlannedReadsIntact`, `PlannedOutputsCorrect` | `TypeOK`, `TensorsWellPlaced`, `ReadsIntact`, `OutputsCorrect` of `PlannedExecution` | same |
| `KeyErrorsAreNested` | `KeyErrorOnlyForNested` | same |
| `ProtectionInvariant` | the inductive invariant of protected execution | chain of nodes, kernels, corruptions |
| `ProtectionTypeCorrect`, `DmrMasksFaults`, `CountersAlwaysAgree`, `ScratchAlwaysSuffices`, `DmrRaisesNoFalseAlarm`, `DmrVerdictsAreTrue` | `TypeOK`, `FaultsMasked`, `CountersAgree`, `ScratchSuffices`, `NoFalseDmrAlarm`, `DmrVerdictsTrue` | same |
| `PackagesLaidOut` | `SectionsLaidOut` | list of sections |
| `DeploymentInvariant` | the inductive invariant of a deployment | graph, way, damage, failing allocation, number of calls |
| `DeploymentTyped`, `DeployedFilesLaidOut`, `DamageIsRefused`, `RecordsAreReadBack`, `OutputsAreDelivered`, `AccessesDefined`, `HeapGivenBack`, `PackagesStart` | `TypeOK`, `SectionsLaidOut`, `DamageRefused`, `RecordsReadBack`, `OutputsDelivered`, `NoUndefinedAccess`, `NothingLeaked`, `ModelStarts` | same |
| `DispatchInvariant` | the inductive invariant of conversion, selection and execution | graph (length, shapes, shared weights), profile, build, conversion, way, host kernels, size of the table, number of runs |
| `DispatchTyped`, `AcceptedNodesExecute`, `OperandsAreUsed`, `ScratchSuffices`, `HostKernelsPreferred` | `TypeOK`, `NodesExecute`, `OperandsUsed`, `KernelScratchFits`, `UserKernelsPreferred` | same |

Nothing is assumed but the named assumptions on the constants:

* `BestFitAssumption`, `BestFitListAssumption`: ids and uses are naturals, sizes are positive.
* `ExecutionAssumption`: tensors have whole cells and at least one (`_should_allocate` drops
  empty tensors), a cell divides the alignment of 16, and there are ids for all
  tensors of a graph.  The operators are not restricted: one that is neither a copy,
  Relu nor Concat is a computation.
* `ProtectionAssumption`: kernels are functions on the values, an in-place kernel is
  idempotent (Relu and copies are), sizes are bounded by the width of their fields.
* `SectionListsAssumption`: the checksum is the last section, once.
* `DeploymentsAssumption`: the graphs are records of the shape that the compiler builds
  (`CompiledGraph`), their sections are such a list, and `OutputsAgree`: a tensor is
  in the list of outputs exactly if it has that role, once.  The importer makes it so
  (`onnx_importer.py:82-89`: a tensor becomes an output and enters the list in one
  step, unless it is there).  Only `_redirect_tensor` can undo it
  (`transforms.py:282`, section 3); the proofs, like the run, are about the others.
  `PlanFits`: what the memory plan puts in the arena ends within it, which for the
  plans of `plan_memory` is `TensorsWellPlaced`, and only weights are of class WEIGHT
  (the role "constant" exists in `types.py` and nothing makes a tensor of it).
* `InstancesAssumption`: an instance names a graph, a profile and one of the five builds.
  The graphs are as the importer makes them: weights are FP32 (`onnx_importer.py:22`, 41),
  nothing has a scale yet, and a node's weight exists (`Imported`).  A convolution is one
  that the kernels can compute at all (`WellShaped`): no dimension is empty and the groups
  divide the channels, which `reference/conv/conv.c:22` checks.  Of the profiles nothing is assumed:
  a token that no kernel has is never looked for.

**Packing** (`PlanInvariant`).  `NoLiveOverlap` alone is not inductive: a tensor
placed in a free block must be shown apart from tensors that are already
expired but whose lives meet its own.  There are none, because the loop visits
tensors in order of first use: an expired tensor's last use lies before the
current first use (`PlanOrder`), and the free block is apart from every active
tensor (`ArenaTiled`).  `ArenaTiled` is preserved by an insertion because at
most one free block ends where the new one starts and at most one starts where
it ends; its covering conjunct (no byte is lost) is carried through the split
and both merges.  `IInv` is `TypeOK`, `PlanOrder`, `NoLiveOverlap`,
`ArenaTiled`, `EntriesInsideArena`; alignment is a second, independent invariant.
`PlannerImplementsArena` maps every step of the loop to a step of `Arena` or a
stutter.

**Lists** (`ListsImplementBestFit`).  The refinement says that `_insert_free_block` on the
list frees what it frees on the set.  The two are not compared step by step, one merges
two neighbours and the other walks over the whole list, but by what they leave: blocks
that are apart, do not touch, and cover the same bytes.  There is only one such set of
blocks (`CoverDetermines`), so it is enough that both results are `Coalesced`
(`InsertFreeBlockCorrect`, `GappedIsCoalesced`) and cover the old bytes and the new ones.
For the list this is an invariant of the merging pass (`MergedSoFar`), which needs the
sorted list to be in order without overlaps (`SortOrders`), and that a sorted list exists
(`OrderExists`: the new block goes behind the last lower one).  The scan of
`_alloc_best_fit` finds the set's block because the list is in order (`BestInList`).
The invariant `ListInv` has the order of the free list (`FreeListInOrder`), that every
active tensor is in exactly one of the two lists and the kept ones have not expired
(`ScanInOrder`), without which `Place` would not be the set's `ExpiryDone`, and `IInv` of
the sets, which says that what is freed meets no free block.  `BestFitArena`'s theorems
are then theorems about the lists (`ListPlansDisjoint`).

**Planned execution** (`PlannedInvariant`).  `ReadsIntact` says of the past that no node has
read a wrong value.  What is inductive is `NeededIntact`: before node *i*, every tensor
that exists and that node *i* or a later one reads, or the host, holds its value.  That a
node keeps it rests on where the planner has put things, and that on the aliases; so
`PlannedInv` has four parts.

* `GraphInv`: sizes and meanings follow the operators.
* `AliasInv`: an in-place alias has the size of its storage, which is older and no alias
  (`InplaceOK`); an input placed in a Concat starts where the Concat would copy it, at a multiple
  of the alignment (`ConcatOK`); and how far each loop has come (`StageOK`: the
  storage that `VisitInplace` finds can still not be an alias because aliases are
  made in the order of their ids).
* `PlanOK`: the storage of a tensor (`Owner`: through any chain of Reshapes and Relus, then
  into a Concat) lives as long as the tensor (`LivesOK`); the packing loop packs
  storages with these lives (`PackOK`, which has `IInv` of `BestFitArena_proofs`, so that no
  step of the packing is proved twice); offsets are the owner's plus a shift (`OffsetsOK`).
  An accepted plan has an owner packed for every tensor, since the others raise `KeyError`.
* `ContextOK`: the context and `NeededIntact`.

Two tensors of the arena with different owners that are needed at the same time lie apart
(`OwnersApart`, from `NoLiveOverlap` and `LivesOK`), the two inputs of a Concat lie apart in
it (`SiblingsApart`), and external tensors have buffers of their own (`ExternalApart`).  So what
node *i* overwrites (`OutputApart`, `SameOwner`) is either no longer needed, or the very cells
it reads: a copy then writes each cell onto itself, a Relu is excluded by
`InPlaceIsSafe` unless it is the last reader, and an input of a Concat is where the Concat puts
it (`ConcatPlaces`).  For each kind of kernel a lemma says that if its inputs hold
their values, its output does after it and nothing apart from the output has changed
(`ShapeKernelRight`, `ReluKernelRight`, `ComputeKernelRight`, `ConcatKernelRight`; the
two copies of a Concat may overlap their sources, in any combination of aliased and
not aliased inputs).  `TensorsWellPlaced` follows from `OffsetsOK` and `PackOK` alone.  `KeyErrorsAreNested`
looks at the one step that decides (`NestedConcatRaises`): when aliases get their offsets,
every storage of `PlannedTensors` has its entry, in-place aliases are visited after their
older storage (`AliasInv`), and what is left without an entry is a Concat inside another;
no later step changes the verdict (`VerdictStands`).

**Protection** (`ProtectionInvariant`).  `FaultsMasked` speaks of the end of a
run, so its strengthening follows the run: `InputIntact` (if only duplicated
nodes have been hit, the node reads what it should, or has already written what
it should when it runs in place), `CopiesFaithful` (the copies in the scratch hold
what the kernel computes, except the one that was hit), `HitsFollowEvent` (an
event hits once per run, so the third execution is clean), `Layout` (the copies
lie after the cells of every kernel), `Control` and `CountersAgree`.

**Layout** (`PackagesLaidOut`).  `SectionsLaidOut` speaks of a finished file; its
strengthening `LayoutInv` follows the loop: the entries so far are apart, aligned
and behind the directory, and the offset is the end of the last one.  It rests on
`AlignUpCorrect`, one case per alignment the writer uses.

**Deployment** (`DeploymentInvariant`).  `DeploymentInv` has two halves.

*The file* (`PackageInv`): the layout so far (`LayoutInv`), the kinds of the entries
(`KindsInv`), and that the file that arrived is one of `Damaged` of the one written
and the program the one generated from it.  From it follow, without looking at any
call: a package whose load reports no error has its tables whole, for no damage but
that to `checksum_type` escapes every check (`DamagedNotLoaded`, one case per kind of
damage, `DamageNoticed`, `LoadableSource`); and what is read of such a
package is what the graph has (`ReadBackListed`, `LoadedReadsBack`), because
`find_section` returns the entry of the kind it looks for (`SectionFound`).  The loops over
tensors and channels are recursive functions on an interval, so that facts about
them are proved by induction over a *set* of naturals (`NaturalOrder!NaturalInduction`,
from the well-foundedness of the naturals): that the quantization section has a
record per tensor and its payload behind them (`QuantizationBytes`), that the ids of
a role are those tensors and no others (`IdsOfRoleCorrect`).

*The program and its host* (`RuntimeInv`, from the first call on `DeployedInv`), the
strengthening that the properties need:

* `StateInv`: the heap has a block for everything that is owned (`Covered`), and
  with a careful host nothing else (`Exact`), apart from what load loses (`Lost`).
  `NothingLeaked` only speaks of states in which nothing is owned; the balance has
  to be known in all.  A second `prepare` breaks `Exact` and not `Covered`, which is
  why `careful` counts it.
* `LibraryInv`: a loaded package is without error; after `prepare` every tensor has
  storage but the external ones not yet bound (`Reachable`); what the host has bound
  still points to its buffer, and what it has supplied and no run has used up is
  still there (`Supplied`); after a run, the outputs are right and stay so until
  something is bound or prepared.
* `BlobInv` and `InlineHost`: in the generated programs every tensor but inputs and
  outputs has storage whenever there is something to run (`Placement`), and the call
  binds the others (`BoundTensors`: the first *n* indices name them all).
  Packed weights exist only between a run and a free (`PackedReady`).
* `Delivered`: what the host got from its last call.

Each function of `SpkRuntime` and `GeneratedModel` has a lemma that says what it
does to place, content, heap, result and access (`...Facts`), and each action of the
host one that `DeployedInv` is kept (`...Keeps`).  Seven properties follow from
the one invariant.

`ModelStarts` is the converse: not what a success implies, but that there is one.  It
is kept along with `DeploymentInv` (`StartsKept`), and needs every check of the loader,
of the generator and of `prepare` *not* to fire.  For the file, `EntriesInside` and
`TablesListed` say that each section lies within it and each table is as long as its
records, `WeightsInside` that `_build_weights` ends every weight within its section
(the sum of aligned lengths, by induction over the tensors); together `WholeLoads`.
With `PlanFits`, every tensor then has its place (`WholeSource`).  For the functions,
a lemma each says what they answer when nothing fails (`PrepareAnswers`,
`LoadAnswers`, `BlobInitAnswers`, `InlineInitAnswers`, `MainTestBlobAnswers`,
`MainTestInlineAnswers`).  The invariant decides one thing here: the test program runs
no null pointer (`MainTestBlob`), without which its result would not be known.

**Dispatch** (`DispatchInvariant`).  The properties speak of a log of what has executed.
They follow from three things that are kept with it, `PlanInv`, `ContextInv` and `LogInv`:

* *The plan fits the graph* (`PlannedUpTo`, of a graph whose weights have been converted,
  `ConversionTyped`): every node has a spec of its own, whose kind is one that the shape of
  the node makes eligible (`Eligible`), whose scratch is the estimate for that kind, within
  the context's, and whose fallback is the node's reference kernel.  `PlanCovers` proves it
  of `select_kernel_specs` by induction over the nodes, with `ChoiceEligible` for the choice
  and `NodeStaysPlanned` for the specs that are added later.
* *The caches are the node's own* (`CacheLeft`): a slot is empty or holds what the kernel
  of its node leaves, in every run, since the spec of a node does not change.  Without it a
  second run could find weights packed for another kernel, so `OperandsUsed` alone is not
  inductive.
* *The log was good when it was written* (`GoodEntry`), and what it is judged by cannot
  change behind it, because a new table of host kernels ends the log (`SameJudgement`).

What one execution does is proved from the inside out: for each kernel, that whatever the
planner chose it for, it refuses only for a reason, reads its operands, leaves its own
packing and writes at most the estimate (`ConvSimdSound`, `ConvInt8Sound`, `ConvBnnsSound`,
`GemmSimdSound`, `PlainSound`; `EstimateCovers` and `SegmentFits` compare the two formulas
for scratch, with the arithmetic of products and quotients they need); for the compiled-in
kernel of any node (`KernelSound`); for one attempt (`TryOnce`); for the attempt and its
fallback (`NodeExecuted`).  `FoundIsPreferred` shows that the loop of `find_kernel` finds
what `Preferred` describes without a loop, for a table of any size: its invariant is
`LoopKeepsBest`.

**Only model-checked.**

* Liveness (`RunReturns`): out of the prover's reach.
* The passes (`GraphPasses`) and the optimizers (`PlanOptimizer`, `RiskEvidence`): their
  operators fold over sequences with operators as parameters, which the provers cannot
  instantiate; a proof needs them as actions or recursive functions first, as the loops
  of `plan_memory` have them.
* The four runs that expect a violation: their counterexamples are their point.

## 5. What is not modelled, and the plan

Not modelled, because no property here is about it:

* numerical results of kernels, of calibration and of training: floating point;
* the text of generated C, CMake files, JSON, reports, tables and figures;
* parsing of ONNX and of datasets;
* `platform.c`: wrappers over the operating system; threads exist only inside
  kernels and write disjoint outputs;
* the exploratory scripts of `research/reliability` (guard-gated DMR, adaptive
  quantile guards, utility guards, weight faults): measurements whose results no
  other part reads.

Seen in the code, with no property about it: `spk_writer.py:378` writes the first
8 inputs and 4 outputs of a node and the number of all of them; `onnx_importer.py:72`
drops empty optional inputs, which shifts those behind them;
`compute_baseline_metrics.py:323-327` only warns when the calls and the nodes differ
in number; a node missing in the calibration counts as covered in `ilp-v3` and as
not covered in `ilp-v2` (`plan_optimizer.py:544`, `475`).

A theorem to add: that the packing heuristics keep within both budgets (`PlanOptimizer`,
`PlansAccepted`).
