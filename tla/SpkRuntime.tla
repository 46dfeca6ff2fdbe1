----------------------------- MODULE SpkRuntime -----------------------------
(***************************************************************************)
(* What the runtime library does to a context and to the heap, one         *)
(* operator per function of its interface: loading a package, giving the   *)
(* tensors their storage, handing over inputs and outputs, running,        *)
(* freeing (runtime/core/loader.c, runtime/core/executor.c).               *)
(*                                                                         *)
(* A runtime state is a record: ctx, which is <<>> or <<c>>; heap, the     *)
(* live blocks of every kind; rc, what the last call returned; undefined,  *)
(* whether the program has used a null pointer or memory that is not its.  *)
(* A context c has, for every tensor, the place its data points to and the *)
(* content found there:                                                    *)
(*   place    null, weights, arena, host (a buffer of the host's that      *)
(*            lives), gone (one that does not live any more)               *)
(*   content  none, fresh (an input the host supplied), spent (an input in *)
(*            the arena, whose storage the run has used again), right or   *)
(*            wrong (an output computed from all inputs fresh, or not)     *)
(***************************************************************************)
EXTENDS SpkSections

HeapKinds == {"model", "ctx", "tensors", "output_ids", "node_cache", "dtors",
              "counts", "observations", "arena", "scratch", "weights", "packed"}

EmptyHeap == [k \in HeapKinds |-> 0]
Allocate(st, kinds) ==
    [st EXCEPT !.heap = [k \in HeapKinds |-> IF k \in kinds THEN st.heap[k] + 1 ELSE st.heap[k]]]
Release(st, kinds) ==
    [st EXCEPT !.heap = [k \in HeapKinds |-> IF k \in kinds THEN st.heap[k] - 1 ELSE st.heap[k]]]

Returns(st, rc) == [st EXCEPT !.rc = rc]
With(st, c) == [st EXCEPT !.ctx = <<c>>]
Undefined(st) == [st EXCEPT !.undefined = TRUE]

-----------------------------------------------------------------------------
(* find_section: the first entry of a kind, which the package must have.   *)
FindSection(pkg, kind) ==
    pkg.dir[CHOOSE i \in DOMAIN pkg.dir :
                /\ pkg.dir[i].kind = kind
                /\ \A j \in 1..(i - 1) : pkg.dir[j].kind # kind]

Missing(pkg, kind) == \A i \in DOMAIN pkg.dir : pkg.dir[i].kind # kind

\* The size of a section, 0 when the package does not have it.
SectionSize(pkg, kind) == IF Missing(pkg, kind) THEN 0 ELSE FindSection(pkg, kind).size

(* section_bounds_ok                                                       *)
InFile(pkg, e) == e.offset <= pkg.size /\ e.size <= pkg.size - e.offset

\* Some table of the package is not there, or too short for its records.
TableLost(pkg) ==
    \/ \E k \in {TENSOR_TABLE, NODE_TABLE, ATTRIBUTES, WEIGHTS} : Missing(pkg, k)
    \/ SectionSize(pkg, TENSOR_TABLE) < TENSOR * pkg.tensors
    \/ SectionSize(pkg, NODE_TABLE) < NODE * pkg.nodes

\* Mutant: the checksum is compared only when the package has the section.
LoadErrorTolerant(pkg) ==
    IF pkg.size < 68 THEN -1
    ELSE IF ~pkg.magic \/ ~pkg.major THEN -2
    ELSE IF pkg.dirEnd > pkg.size \/ \E i \in DOMAIN pkg.dir : ~InFile(pkg, pkg.dir[i]) THEN -3
    ELSE IF TableLost(pkg) THEN -4
    ELSE IF /\ pkg.checksum = 1 /\ ~Missing(pkg, CHECKSUM_SECTION)
            /\ (~pkg.intact \/ pkg.weights = "zeroed") THEN -6
    ELSE 0

(***************************************************************************)
(* The checks of spkv2_load_memory up to the checksum, in their order; the *)
(* first that fails decides.                                               *)
(***************************************************************************)
LoadError(pkg) ==
    IF pkg.size < 68 THEN -1
    ELSE IF ~pkg.magic \/ ~pkg.major THEN -2
    ELSE IF pkg.dirEnd > pkg.size \/ \E i \in DOMAIN pkg.dir : ~InFile(pkg, pkg.dir[i]) THEN -3
    ELSE IF TableLost(pkg) THEN -4
    ELSE IF pkg.checksum = 1 /\ SectionSize(pkg, CHECKSUM_SECTION) < 4 THEN -5
    ELSE IF pkg.checksum = 1 /\ (~pkg.intact \/ pkg.weights = "zeroed") THEN -6
    ELSE 0

(***************************************************************************)
(* What the loader finds in the sections behind the header: how many       *)
(* kernel specs, quantization records (from the first one's data_offset)   *)
(* and protection records, and the order of the outputs                    *)
(* (parse_metadata_outputs; without the metadata, the order of the ids).   *)
(***************************************************************************)
IdsOfRole(g, role) ==
    LET upTo[t \in 0..Len(g.tensors)] ==
            IF t = 0 THEN <<>>
            ELSE IF g.tensors[t].role = role THEN Append(upTo[t - 1], t)
            ELSE upTo[t - 1]
    IN  upTo[Len(g.tensors)]

InputsById(g) == IdsOfRole(g, "INPUT")
OutputsById(g) == IdsOfRole(g, "OUTPUT")

\* Mutant: the metadata is not parsed, outputs are those of the tensor table.
ReadBackById(pkg) ==
    [ specs      |-> SectionSize(pkg, KERNEL_SPEC) \div SPEC,
      quants     |-> IF SectionSize(pkg, QUANTIZATION) < QUANT THEN 0
                     ELSE QuantFirstOffset(pkg.graph) \div QUANT,
      protected  |-> IF SectionSize(pkg, PROTECTION_PLAN) < PROTECTION THEN 0
                     ELSE SectionSize(pkg, PROTECTION_PLAN) \div PROTECTION,
      outputs    |-> OutputsById(pkg.graph) ]

ReadBack(pkg) ==
    [ specs      |-> SectionSize(pkg, KERNEL_SPEC) \div SPEC,
      quants     |-> IF SectionSize(pkg, QUANTIZATION) < QUANT THEN 0
                     ELSE QuantFirstOffset(pkg.graph) \div QUANT,
      protected  |-> IF SectionSize(pkg, PROTECTION_PLAN) < PROTECTION THEN 0
                     ELSE SectionSize(pkg, PROTECTION_PLAN) \div PROTECTION,
      outputs    |-> IF Missing(pkg, METADATA) THEN OutputsById(pkg.graph)
                     ELSE pkg.graph.outputs ]

Context(pkg) ==
    [ graph       |-> pkg.graph,
      arena       |-> pkg.arena,
      scratch     |-> pkg.scratch,
      weights     |-> pkg.weights,
      read        |-> ReadBack(pkg),
      place       |-> [t \in 1..Len(pkg.graph.tensors) |-> "null"],
      content     |-> [t \in 1..Len(pkg.graph.tensors) |-> "none"],
      ownsModel   |-> FALSE,
      ownsArena   |-> FALSE,
      ownsScratch |-> FALSE,
      dtors       |-> TRUE,
      packed      |-> FALSE ]

(***************************************************************************)
(* spkv2_load_memory.  `fail` is the allocation that fails, if any: all    *)
(* but the one of node_cache_dtors are checked, and a failure gives back   *)
(* what came before, except the output ids.                                *)
(***************************************************************************)
LoadBlocks == {"ctx", "tensors", "output_ids", "node_cache", "dtors", "counts", "observations"}

\* What nothing points to any more when that allocation fails.
Forgotten(fail) ==
    IF fail \in {"node_cache", "counts", "observations"} THEN {"output_ids"} ELSE {}

LoadMemory(st, pkg, fail) ==
    IF LoadError(pkg) # 0
    THEN Returns(st, LoadError(pkg))
    ELSE IF fail \in LoadBlocks \ {"dtors"}
    THEN Returns(Allocate(st, Forgotten(fail)), -1)
    ELSE Returns(With(Allocate(st, LoadBlocks \ {fail}),
                      [Context(pkg) EXCEPT !.dtors = fail # "dtors"]), 0)

(* spkv2_load_file: the bytes of the file, freed again unless they load.   *)
LoadFile(st, pkg, fail) ==
    IF fail = "model" THEN Returns(st, -1)
    ELSE LET after == LoadMemory(st, pkg, fail)
         IN  IF after.rc # 0 THEN after
             ELSE With(Allocate(after, {"model"}), [after.ctx[1] EXCEPT !.ownsModel = TRUE])

-----------------------------------------------------------------------------
(***************************************************************************)
(* spkv2_prepare_with_scratch.  For arena and for scratch the host passes  *)
(* a buffer ("host"), one too small ("small"), or none, and then the       *)
(* context allocates its own ("own", which fails when `fail` names it).    *)
(* What the context owned before is forgotten, not freed.                  *)
(***************************************************************************)
TakeArena(st, arena, fail) ==
    LET c == st.ctx[1]
    IN  CASE arena = "small" /\ c.arena > 0                  -> Returns(st, -2)
          [] arena = "own" /\ fail = "arena" /\ c.arena > 0  -> Returns(st, -1)
          [] arena = "own" /\ ~(fail = "arena" /\ c.arena > 0) ->
                Returns(With(Allocate(st, {"arena"}), [c EXCEPT !.ownsArena = TRUE]), 0)
          [] OTHER -> Returns(With(st, [c EXCEPT !.ownsArena = FALSE]), 0)

TakeScratch(st, scratch, fail) ==
    LET c == st.ctx[1]
    IN  CASE c.scratch = 0                         -> Returns(st, 0)
          [] scratch = "small" /\ c.scratch > 0    -> Returns(st, -2)
          [] scratch = "own" /\ fail = "scratch" /\ c.scratch > 0 -> Returns(st, -1)
          [] scratch = "own" /\ fail # "scratch" /\ c.scratch > 0 ->
                Returns(With(Allocate(st, {"scratch"}), [c EXCEPT !.ownsScratch = TRUE]), 0)
          [] OTHER -> Returns(With(st, [c EXCEPT !.ownsScratch = FALSE]), 0)

\* Where the loop over the tensor records lets a tensor point.
Storage(g, t) ==
    IF IsWeight(g, t) THEN "weights"
    ELSE IF g.tensors[t].class = "EXTERNAL" THEN "null"
    ELSE "arena"

WeightsFit(c) ==
    \A t \in DOMAIN c.graph.tensors :
        IsWeight(c.graph, t) =>
            WeightOffset(c.graph, t) + c.graph.tensors[t].bytes
                <= WeightsEnd(c.graph)[Len(c.graph.tensors)]

ActivationsFit(c) ==
    \A t \in DOMAIN c.graph.tensors :
        \/ IsWeight(c.graph, t)
        \/ c.graph.tensors[t].class = "EXTERNAL"
        \/ c.graph.tensors[t].offset + c.graph.tensors[t].bytes <= c.arena

PlaceTensors(st) ==
    LET c == st.ctx[1]
    IN  IF ~WeightsFit(c) THEN Returns(st, -3)
        ELSE IF ~ActivationsFit(c) THEN Returns(st, -4)
        ELSE Returns(With(st, [c EXCEPT !.place = [t \in DOMAIN @ |-> Storage(c.graph, t)],
                                        !.content = [t \in DOMAIN @ |-> "none"]]), 0)

Prepare(st, arena, scratch, fail) ==
    LET first == TakeArena(st, arena, fail)
        second == TakeScratch(first, scratch, fail)
    IN  IF first.rc # 0 THEN first
        ELSE IF second.rc # 0 THEN second
        ELSE PlaceTensors(second)

-----------------------------------------------------------------------------
(* The tensor of the index-th input (the loop of set_input and bind_input). *)
InputTensor(c, index) == InputsById(c.graph)[index]
HasInput(c, index) == index \in DOMAIN InputsById(c.graph)

(* output_tensor_id: by output_ids when the loader has them.               *)
OutputTensor(c, index) == c.read.outputs[index]
HasOutput(c, index) == index \in DOMAIN c.read.outputs

\* Reading or writing through a pointer that leads nowhere.
Access(st, t) ==
    IF st.ctx[1].place[t] \in {"null", "gone"} THEN Undefined(st) ELSE st

SetInput(st, index) ==
    LET c == st.ctx[1]
        t == InputTensor(c, index)
    IN  IF ~HasInput(c, index) THEN Returns(st, -3)
        ELSE Returns(With(Access(st, t), [c EXCEPT !.content[t] = "fresh"]), 0)

\* Mutant: bind_input copies into the tensor's storage like set_input.
BindInputCopies(st, index) == SetInput(st, index)

BindInput(st, index) ==
    LET c == st.ctx[1]
        t == InputTensor(c, index)
    IN  IF ~HasInput(c, index) THEN Returns(st, -3)
        ELSE Returns(With(st, [c EXCEPT !.place[t] = "host", !.content[t] = "fresh"]), 0)

BindOutput(st, index) ==
    LET c == st.ctx[1]
        t == OutputTensor(c, index)
    IN  IF ~HasOutput(c, index) THEN Returns(st, -3)
        ELSE Returns(With(st, [c EXCEPT !.place[t] = "host", !.content[t] = "none"]), 0)

GetOutput(st, index) ==
    IF ~HasOutput(st.ctx[1], index) THEN Returns(st, -3)
    ELSE Returns(Access(st, OutputTensor(st.ctx[1], index)), 0)

(***************************************************************************)
(* The nodes run on the tensors' storage, with nothing injected: every     *)
(* tensor is used; outputs are right when every input is what the host     *)
(* supplied and the weights are the compiled ones; inputs in the arena are *)
(* gone afterwards; kernels keep what they packed.                         *)
(***************************************************************************)
RunNodes(st) ==
    LET c == st.ctx[1]
        ids == DOMAIN c.place
        Role(t) == c.graph.tensors[t].role
        good == /\ \A t \in ids : Role(t) = "INPUT" => c.content[t] = "fresh"
                /\ c.weights = "stored"
        content == [t \in ids |->
                      CASE Role(t) = "OUTPUT" -> IF good THEN "right" ELSE "wrong"
                        [] Role(t) = "INPUT" /\ c.place[t] = "arena" -> "spent"
                        [] OTHER -> c.content[t]]
        packs == \E t \in ids : IsWeight(c.graph, t)
        kept == IF packs /\ ~c.packed THEN Allocate(st, {"packed"}) ELSE st
    IN  IF \E t \in ids : c.place[t] \in {"null", "gone"}
        THEN Undefined(st)
        ELSE Returns(With(kept, [c EXCEPT !.content = content, !.packed = packs]), 0)

\* A tensor that is no weight and has no storage.
Unbound(c, t) == ~IsWeight(c.graph, t) /\ c.place[t] = "null"

(* spkv2_run: a null pointer is noticed before the first node, a pointer   *)
(* to a buffer that is gone is not.                                        *)
Execute(st) ==
    IF \E t \in DOMAIN st.ctx[1].place : Unbound(st.ctx[1], t)
    THEN Returns(st, -5) ELSE RunNodes(st)

\* Mutant: the file's bytes are left to the host.
OwnedButModel(c) ==
    (LoadBlocks \ (IF c.dtors THEN {} ELSE {"dtors"}))
      \cup (IF c.ownsArena THEN {"arena"} ELSE {})
      \cup (IF c.ownsScratch THEN {"scratch"} ELSE {})
      \cup (IF c.packed THEN {"packed"} ELSE {})

\* Mutant: arena and scratch are freed whoever gave them.
OwnedAndGiven(c) ==
    (LoadBlocks \ (IF c.dtors THEN {} ELSE {"dtors"})) \cup {"arena", "scratch"}
      \cup (IF c.ownsModel THEN {"model"} ELSE {})
      \cup (IF c.packed THEN {"packed"} ELSE {})

(* What a context has on the heap; node_cache_dtors may be missing.        *)
Owned(c) ==
    (LoadBlocks \ (IF c.dtors THEN {} ELSE {"dtors"}))
      \cup (IF c.ownsModel THEN {"model"} ELSE {})
      \cup (IF c.ownsArena THEN {"arena"} ELSE {})
      \cup (IF c.ownsScratch THEN {"scratch"} ELSE {})
      \cup (IF c.packed THEN {"packed"} ELSE {})

(* spkv2_free                                                              *)
Free(st) ==
    IF st.ctx = <<>> THEN st
    ELSE [Release(st, Owned(st.ctx[1])) EXCEPT !.ctx = <<>>]
=============================================================================
