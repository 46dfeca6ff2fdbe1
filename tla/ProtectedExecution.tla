------------------------- MODULE ProtectedExecution -------------------------
(***************************************************************************)
(* spkv2_run of runtime/core/executor.c with node protection: every node   *)
(* of the package runs once, or under a range guard with one rerun, or     *)
(* twice with a comparison and one rerun (DMR), while a fault event of the *)
(* injection API flips a value in the output of one chosen execution.      *)
(*                                                                         *)
(* The package is a chain: tensor 0 is the graph input, node i reads tensor *)
(* i and writes tensor i + 1.  Tensors live at memory places; a node the   *)
(* planner runs in place writes the place it reads.  A value stands for    *)
(* the contents of a whole tensor.                                         *)
(***************************************************************************)
EXTENDS Integers

CONSTANTS
  NumNodes,      \* nodes of the package
  Values,        \* contents of a tensor
  Zero,          \* the contents of a fresh arena
  Junk,          \* the contents of scratch that a kernel has used
  Ops,           \* op types
  FailingOps,    \* those whose kernel returns an error
  Kernels,       \* op -> function from the input's to the output's contents
  InPlaceOps,    \* the ops the planner may run in place
  ShapeOps,      \* those of them that leave the contents alone
  Flips,         \* the corruptions an event can apply, functions on Values
  ValidRanges,   \* sets of values that a range guard may accept
  TensorCells,   \* sizes of a tensor, in cells of scratch
  KernelCells,   \* scratch that a kernel may ask for, in cells
  MaxCells,      \* the largest size that its field can hold
  MaxRuns        \* inferences on one context

Nodes == 0 .. NumNodes - 1
TensorIds == 0 .. NumNodes

ASSUME ProtectionAssumption ==
  /\ NumNodes \in Nat \ {0}
  /\ Zero \in Values
  /\ FailingOps \subseteq Ops
  /\ Kernels \in [Ops -> [Values -> Values]]
  /\ InPlaceOps \subseteq Ops
  /\ ShapeOps \subseteq InPlaceOps
  /\ \A op \in InPlaceOps, v \in Values : Kernels[op][Kernels[op][v]] = Kernels[op][v]
  /\ Flips \subseteq [Values -> Values]
  /\ ValidRanges \subseteq SUBSET Values
  /\ MaxCells \in Nat
  /\ TensorCells \subseteq 1 .. MaxCells
  /\ KernelCells \subseteq 0 .. MaxCells
  /\ MaxRuns \in Nat

VARIABLES
  package,    \* the package: ops, places, protection records, scratch
  memory,     \* place -> contents
  scratch,    \* cell -> contents
  node,       \* node being executed, -1 when spkv2_run is not running
  stage,      \* executions of the node done so far: 0, 1 or 2
  rc,         \* what the latest spkv2_run returned
  counts,     \* node_invocation_counts
  event,      \* fault_event
  stats,      \* reliability_stats
  observed,   \* range_observations: node -> contents whose range was recorded
  runs,       \* calls of spkv2_run so far
  ideal,      \* what every tensor should hold in this run
  hit,        \* nodes whose output a fault has changed in this run
  aborted     \* reruns that returned an error

vars == <<package, memory, scratch, node, stage, rc, counts, event, stats,
          observed, runs, ideal, hit, aborted>>
hostVars == <<package, event, runs, ideal>>

NONE == "none"
RANGE_GUARD_RERUN == "range_guard_rerun"
DMR_COMPARE_RERUN == "dmr_compare_rerun"
Modes == {NONE, RANGE_GUARD_RERUN, DMR_COMPARE_RERUN}

NoEvent == [enabled |-> FALSE]
Events == [enabled: {TRUE}, node_id: Nodes, invocation_index: 1 .. 3,
           flip: Flips, misplaced: BOOLEAN]
Stats == [injected: Nat, detected: Nat, rerun: Nat, recovered: Nat, unrecovered: Nat]
ZeroStats == [injected |-> 0, detected |-> 0, rerun |-> 0,
              recovered |-> 0, unrecovered |-> 0]

-----------------------------------------------------------------------------
(* The package.                                                            *)

\* Where the planner may put the output of a node: a place of its own, or the
\* place of the input.  Relu is never run in place on the graph input, and a
\* graph output never takes the place of a graph input.
PlacesOk(op, place) ==
  /\ \A t \in TensorIds : place[t] \in 0 .. t
  /\ \A i \in Nodes :
       \/ place[i + 1] = i + 1
       \/ /\ place[i + 1] = place[i]
          /\ op[i] \in InPlaceOps
          /\ op[i] \notin ShapeOps => place[i] # 0
          /\ ~(i = 0 /\ NumNodes = 1)

Largest(S) == IF S = {} THEN 0 ELSE CHOOSE m \in S : \A x \in S : x <= m

\* Mutant: one copy per record.
OneCopyScratch(mode, cells) ==
  Largest({cells[i] : i \in {n \in Nodes : mode[n] = DMR_COMPARE_RERUN}})

\* 2 * the largest tensor with a DMR record, 0 without one.
ProtectionScratch(mode, cells) ==
  Largest({2 * cells[i] : i \in {n \in Nodes : mode[n] = DMR_COMPARE_RERUN}})

\* Mutant: the copies share the cells of the kernels.
CopiesInKernelScratch(op, place, mode, cells, kernelCells, range) ==
  [op |-> op, place |-> place, mode |-> mode, range |-> range,
   cells |-> cells, kernelCells |-> kernelCells,
   scratchOffset |-> 0,
   scratchSize |-> Largest({kernelCells[i] : i \in Nodes}) + ProtectionScratch(mode, cells)]

\* write_spk: the copies of DMR lie after the scratch of the kernels, and the
\* header asks for both.
Package(op, place, mode, cells, kernelCells, range) ==
  LET kernelScratch == Largest({kernelCells[i] : i \in Nodes})
  IN  [op |-> op, place |-> place, mode |-> mode, range |-> range,
       cells |-> cells, kernelCells |-> kernelCells,
       scratchOffset |-> kernelScratch,
       scratchSize |-> kernelScratch + ProtectionScratch(mode, cells)]

Packages ==
  {Package(op, place, mode, cells, kernelCells, range) :
     op \in [Nodes -> Ops],
     place \in [TensorIds -> TensorIds],
     mode \in [Nodes -> Modes],
     cells \in [Nodes -> TensorCells],
     kernelCells \in [Nodes -> KernelCells],
     range \in [Nodes -> ValidRanges]}

-----------------------------------------------------------------------------
(* One execution of a node: the kernel, then the fault event.              *)

In(i) == package.place[i]
Out(i) == package.place[i + 1]
Shared(i) == Out(i) = In(i)

Computed(i) == Kernels[package.op[i]][memory[In(i)]]

Counted(i) == event.enabled /\ event.node_id = i

\* Mutant: the fault stays.
FiresFromThenOn(i) == Counted(i) /\ counts[i] + 1 >= event.invocation_index

Fires(i) == Counted(i) /\ counts[i] + 1 = event.invocation_index

\* The event names a tensor that this node does not write, or no element of it.
Rejected(i) == Fires(i) /\ event.misplaced
Injected(i) == Fires(i) /\ ~event.misplaced

\* execute_with_spec finds a kernel and its scratch: otherwise -99 or -14.
KernelRuns(i) ==
  /\ package.op[i] \notin FailingOps
  /\ package.kernelCells[i] <= package.scratchSize

\* An alarm has been counted and the next execution of the node is the rerun.
RerunPending(i) ==
  \/ package.mode[i] = RANGE_GUARD_RERUN /\ stage = 1
  \/ package.mode[i] = DMR_COMPARE_RERUN /\ stage = 2

Result(i) == IF Injected(i) THEN event.flip[Computed(i)] ELSE Computed(i)

\* What the kernel leaves in the scratch: it owns the first cells.
Scribbled(i) ==
  [c \in DOMAIN scratch |-> IF c < package.kernelCells[i] THEN Junk ELSE scratch[c]]

\* spkv2_execute_node and maybe_inject_fault; the output is value.
ExecuteOnce(i, value) ==
  /\ memory' = [memory EXCEPT ![Out(i)] = value]
  /\ counts' = IF Counted(i) THEN [counts EXCEPT ![i] = @ + 1] ELSE counts
  /\ hit' = IF Injected(i) THEN hit \cup {i} ELSE hit

InjectedStats(i) == IF Injected(i) THEN [stats EXCEPT !.injected = @ + 1] ELSE stats

\* Mutant: the loop runs once too often.
AdvancesPastTheEnd(i) ==
  /\ node' = IF i = NumNodes THEN -1 ELSE i + 1
  /\ stage' = 0
  /\ rc' = IF i = NumNodes THEN 0 ELSE rc
  /\ UNCHANGED aborted

\* The node is done and spkv2_run goes on; after the last one it returns 0.
Advance(i) ==
  /\ node' = IF i + 1 = NumNodes THEN -1 ELSE i + 1
  /\ stage' = 0
  /\ rc' = IF i + 1 = NumNodes THEN 0 ELSE rc
  /\ UNCHANGED aborted

\* Mutant: a node that fails is tried again.
RetriesFailedNode(i, code) ==
  /\ node' = i
  /\ stage' = 0
  /\ rc' = code
  /\ aborted' = IF RerunPending(i) THEN aborted + 1 ELSE aborted

\* spkv2_run returns the error of the node.
Fail(i, code) ==
  /\ node' = -1
  /\ stage' = 0
  /\ rc' = code
  /\ aborted' = IF RerunPending(i) THEN aborted + 1 ELSE aborted

Stay(i, executions) ==
  /\ node' = i
  /\ stage' = executions
  /\ UNCHANGED <<rc, aborted>>

\* Mutant: the rerun is not counted.
AlarmWithoutRerun(s) == [s EXCEPT !.detected = @ + 1]

Alarm(s) == [s EXCEPT !.detected = @ + 1, !.rerun = @ + 1]

\* Mutant: only the good verdict is counted.
GoodVerdictOnly(s, good) == IF good THEN [s EXCEPT !.recovered = @ + 1] ELSE s

Verdict(s, good) ==
  IF good THEN [s EXCEPT !.recovered = @ + 1] ELSE [s EXCEPT !.unrecovered = @ + 1]

-----------------------------------------------------------------------------
(* The modes of execute_protected_node.                                    *)

\* The scratch holds two copies of the output: otherwise -25, before anything
\* is executed.
DmrFits(i) ==
  package.scratchOffset + 2 * package.cells[i] <= package.scratchSize

\* A call of execute_once for this node under this mode, after that many others.
Executes(mode, executions) ==
  /\ node # -1
  /\ package.mode[node] = mode
  /\ stage = executions
  /\ mode = DMR_COMPARE_RERUN /\ executions = 0 => DmrFits(node)

\* Why a node is refused before its kernel has written anything.
DmrRefused(i) == package.mode[i] = DMR_COMPARE_RERUN /\ stage = 0 /\ ~DmrFits(i)

RefusalCode(i) ==
  IF DmrRefused(i) THEN -25
  ELSE IF package.op[i] \in FailingOps THEN -99
  ELSE -14

\* The node is refused: nothing is counted and nothing is copied.
RefuseNode ==
  /\ node # -1
  /\ KernelRuns(node) => DmrRefused(node)
  /\ Fail(node, RefusalCode(node))
  /\ UNCHANGED <<hostVars, memory, scratch, counts, stats, observed, hit>>

\* The kernel has run and its fault event is rejected.
RejectEvent ==
  /\ \E mode \in Modes : Executes(mode, stage)
  /\ KernelRuns(node)
  /\ Rejected(node)
  /\ ExecuteOnce(node, Computed(node))
  /\ scratch' = Scribbled(node)
  /\ Fail(node, -22)
  /\ UNCHANGED <<hostVars, stats, observed>>

\* execute_once returns 0.
Succeeds(mode, executions) ==
  /\ Executes(mode, executions)
  /\ KernelRuns(node)
  /\ ~Rejected(node)
  /\ ExecuteOnce(node, Result(node))
  /\ UNCHANGED hostVars

RunUnprotected ==
  /\ Succeeds(NONE, 0)
  /\ scratch' = Scribbled(node)
  /\ stats' = InjectedStats(node)
  /\ Advance(node)
  /\ UNCHANGED observed

\* The first execution under a range guard; its output is recorded, faulty or not.
GuardFirst ==
  /\ Succeeds(RANGE_GUARD_RERUN, 0)
  /\ scratch' = Scribbled(node)
  /\ observed' = [observed EXCEPT ![node] = @ \cup {Result(node)}]
  /\ IF Result(node) \in package.range[node]
     THEN stats' = InjectedStats(node) /\ Advance(node)
     ELSE stats' = Alarm(InjectedStats(node)) /\ Stay(node, 1)

GuardRerun ==
  /\ Succeeds(RANGE_GUARD_RERUN, 1)
  /\ scratch' = Scribbled(node)
  /\ stats' = Verdict(InjectedStats(node), Result(node) \in package.range[node])
  /\ Advance(node)
  /\ UNCHANGED observed

\* The two copies of DMR: cells of the scratch after the record's offset.
CopyAt(k) ==
  package.scratchOffset + k * package.cells[node]
    .. package.scratchOffset + (k + 1) * package.cells[node] - 1

CopyTo(k, value) ==
  scratch' = [c \in DOMAIN scratch |-> IF c \in CopyAt(k) THEN value ELSE Scribbled(node)[c]]

CopyIs(k, value) == \A c \in CopyAt(k) : Scribbled(node)[c] = value

DmrFirst ==
  /\ Succeeds(DMR_COMPARE_RERUN, 0)
  /\ CopyTo(0, Result(node))
  /\ stats' = InjectedStats(node)
  /\ Stay(node, 1)
  /\ UNCHANGED observed

\* Mutant: the second output is kept when the copies differ.
KeepsSecond ==
  /\ Succeeds(DMR_COMPARE_RERUN, 1)
  /\ CopyTo(1, Result(node))
  /\ stats' = IF CopyIs(0, Result(node)) THEN InjectedStats(node)
              ELSE Verdict(Alarm(InjectedStats(node)), TRUE)
  /\ Advance(node)
  /\ UNCHANGED observed

DmrSecond ==
  /\ Succeeds(DMR_COMPARE_RERUN, 1)
  /\ CopyTo(1, Result(node))
  /\ IF CopyIs(0, Result(node))
     THEN stats' = InjectedStats(node) /\ Advance(node)
     ELSE stats' = Alarm(InjectedStats(node)) /\ Stay(node, 2)
  /\ UNCHANGED observed

\* Best of three: the third output has to equal one of the copies.
DmrRerun ==
  /\ Succeeds(DMR_COMPARE_RERUN, 2)
  /\ scratch' = Scribbled(node)
  /\ stats' = Verdict(InjectedStats(node),
                      CopyIs(0, Result(node)) \/ CopyIs(1, Result(node)))
  /\ Advance(node)
  /\ UNCHANGED observed

-----------------------------------------------------------------------------
(* The host, between two runs.                                             *)

SetFaultEvent ==
  /\ node = -1
  /\ runs < MaxRuns
  /\ event' \in Events
  /\ UNCHANGED <<package, memory, scratch, node, stage, rc, counts, stats,
                 observed, runs, ideal, hit, aborted>>

ClearFaultEvent ==
  /\ node = -1
  /\ runs < MaxRuns
  /\ event' = NoEvent
  /\ UNCHANGED <<package, memory, scratch, node, stage, rc, counts, stats,
                 observed, runs, ideal, hit, aborted>>

ResetReliabilityStats ==
  /\ node = -1
  /\ runs < MaxRuns
  /\ stats' = ZeroStats
  /\ observed' = [i \in Nodes |-> {}]
  /\ aborted' = 0
  /\ UNCHANGED <<package, memory, scratch, node, stage, rc, counts, event,
                 runs, ideal, hit>>

\* spkv2_set_input, then spkv2_run up to its first node.
StartRun ==
  /\ node = -1
  /\ runs < MaxRuns
  /\ runs' = runs + 1
  /\ \E f \in [TensorIds -> Values] :
       /\ \A i \in Nodes : f[i + 1] = Kernels[package.op[i]][f[i]]
       /\ ideal' = f
       /\ memory' = [memory EXCEPT ![0] = f[0]]
  /\ counts' = [i \in Nodes |-> 0]
  /\ hit' = {}
  /\ node' = 0
  /\ stage' = 0
  /\ UNCHANGED <<package, scratch, rc, event, stats, observed, aborted>>

Init ==
  /\ package \in {p \in Packages : PlacesOk(p.op, p.place)}
  /\ memory = [t \in TensorIds |-> Zero]
  /\ scratch = [c \in 0 .. package.scratchSize - 1 |-> Junk]
  /\ node = -1
  /\ stage = 0
  /\ rc = 0
  /\ counts = [i \in Nodes |-> 0]
  /\ event = NoEvent
  /\ stats = ZeroStats
  /\ observed = [i \in Nodes |-> {}]
  /\ runs = 0
  /\ ideal = [t \in TensorIds |-> Zero]
  /\ hit = {}
  /\ aborted = 0

ExecuteStep ==
  \/ RefuseNode
  \/ RejectEvent
  \/ RunUnprotected
  \/ GuardFirst \/ GuardRerun
  \/ DmrFirst \/ DmrSecond \/ DmrRerun

Host == SetFaultEvent \/ ClearFaultEvent \/ ResetReliabilityStats \/ StartRun

Next == ExecuteStep \/ Host

Spec == Init /\ [][Next]_vars

\* spkv2_run loops over the nodes until it returns.
FairSpec == Spec /\ WF_vars(ExecuteStep)

-----------------------------------------------------------------------------
\* The type of the state.
TypeOK ==
  /\ package.op \in [Nodes -> Ops]
  /\ package.place \in [TensorIds -> TensorIds]
  /\ PlacesOk(package.op, package.place)
  /\ package.mode \in [Nodes -> Modes]
  /\ package.range \in [Nodes -> ValidRanges]
  /\ package.cells \in [Nodes -> TensorCells]
  /\ package.kernelCells \in [Nodes -> KernelCells]
  /\ memory \in [TensorIds -> Values]
  /\ scratch \in [0 .. package.scratchSize - 1 -> Values \cup {Junk}]
  /\ node \in Nodes \cup {-1}
  /\ stage \in 0 .. 2
  /\ rc \in {0, -14, -22, -25, -99}
  /\ counts \in [Nodes -> Nat]
  /\ event \in Events \cup {NoEvent}
  /\ stats \in Stats
  /\ observed \in [Nodes -> SUBSET Values]
  /\ ideal \in [TensorIds -> Values]
  /\ hit \subseteq Nodes
  /\ runs \in 0 .. MaxRuns
  /\ aborted \in Nat

Returned == node = -1 /\ runs > 0 /\ rc = 0

\* A DMR record protects the node and the node has a place of its own.
Duplicated(i) == package.mode[i] = DMR_COMPARE_RERUN /\ ~Shared(i)

\* A fault that hits only nodes under DMR never reaches the output of the graph,
\* whichever execution it hits and whatever the other nodes do; a run without a
\* fault is right under every protection, although nodes that run in place are
\* executed again on their own output.
FaultsMasked ==
  Returned /\ (\A i \in hit : Duplicated(i)) => memory[Out(NumNodes - 1)] = ideal[NumNodes]

\* The counters of the stats add up: each alarm has one rerun and one verdict,
\* except for the rerun under way and the reruns that returned an error.
CountersAgree ==
  /\ stats.detected = stats.rerun
  /\ stats.detected = stats.recovered + stats.unrecovered + aborted
                      + (IF node # -1 /\ RerunPending(node) THEN 1 ELSE 0)

\* The compiler reserves enough scratch for every kernel it selects and every DMR
\* record it accepts: write_spk adds up two maxima taken over different nodes.
ScratchSuffices == rc \notin {-14, -25}

\* DMR raises no alarm on a node that no fault has hit, although kernels
\* overwrite the scratch and in-place nodes their input between the copies.
NoFalseDmrAlarm ==
  [][node # -1 /\ stats'.detected > stats.detected =>
       (package.mode[node] = DMR_COMPARE_RERUN => node \in hit')]_vars

\* A verdict of DMR on a node with a place of its own is "recovered", and then
\* the output is the kernel's function of the input.
DmrVerdictsTrue ==
  [][node # -1 /\ Duplicated(node) =>
       /\ stats'.unrecovered = stats.unrecovered
       /\ stats'.recovered > stats.recovered => memory'[Out(node)] = Computed(node)]_vars

\* spkv2_run returns: a node is executed at most three times.
RunReturns == node # -1 ~> node = -1

\* research/reliability/README.md: every fault that hits a node protected by DMR
\* is detected and recovered.
EveryFaultRecovered ==
  Returned /\ (\A i \in hit : package.mode[i] = DMR_COMPARE_RERUN)
    => memory[Out(NumNodes - 1)] = ideal[NumNodes]

-----------------------------------------------------------------------------
(* The inductive invariant.                                                *)

\* The copies of every DMR record lie in the scratch, after the kernels' cells.
Layout ==
  /\ package.scratchOffset \in Nat
  /\ package.scratchSize \in Nat
  /\ package.scratchOffset <= package.scratchSize
  /\ \A i \in Nodes :
       /\ package.kernelCells[i] <= package.scratchOffset
       /\ package.mode[i] = DMR_COMPARE_RERUN => DmrFits(i)

\* Where spkv2_run can be.
Control ==
  /\ node = -1 => stage = 0
  /\ stage # 0 => RerunPending(node) \/ (package.mode[node] = DMR_COMPARE_RERUN /\ stage = 1)

\* During a run a fault has hit at most the node of the event, once, and that
\* node has been executed.
HitsFollowEvent ==
  node # -1 =>
    \A i \in hit :
      /\ event.enabled
      /\ event.node_id = i
      /\ event.invocation_index <= counts[i]
      /\ i < node \/ (i = node /\ stage # 0)

\* The tensors of a run are related by the kernels.
IdealChain ==
  node # -1 => \A i \in Nodes : ideal[i + 1] = Kernels[package.op[i]][ideal[i]]

HitsDuplicated == \A i \in hit : Duplicated(i)

\* If faults have hit only nodes under DMR, the node reads what it should, or,
\* once it has run in place, what it should have written.
InputIntact ==
  node # -1 /\ HitsDuplicated =>
    memory[In(node)] = ideal[IF stage # 0 /\ Shared(node) THEN node + 1 ELSE node]

\* The copies hold what the kernel computes, except the one a fault has hit.
CopiesFaithful ==
  node # -1 /\ package.mode[node] = DMR_COMPARE_RERUN =>
    /\ stage = 1 /\ node \notin hit => \A c \in CopyAt(0) : scratch[c] = Computed(node)
    /\ stage = 2 => node \in hit
    /\ stage = 2 /\ ~Shared(node) =>
         \E k \in {0, 1} : \A c \in CopyAt(k) : scratch[c] = Computed(node)

IInv ==
  /\ TypeOK
  /\ Layout
  /\ Control
  /\ CountersAgree
  /\ ScratchSuffices
  /\ HitsFollowEvent
  /\ IdealChain
  /\ InputIntact
  /\ CopiesFaithful
  /\ FaultsMasked
=============================================================================
