--------------------------- MODULE GeneratedModel ---------------------------
(***************************************************************************)
(* The C code generator and the programs it writes: a wrapper around a     *)
(* package that is compiled in ("blob"), direct kernel calls on static     *)
(* tables ("inline"), and both with the weights in a file of their own     *)
(* (compiler/codegen/c_codegen.py).  A generated program keeps its state   *)
(* in statics; its interface is init, run, run_multi and free.             *)
(*                                                                         *)
(* The buffers a host passes to run and run_multi are the host's again     *)
(* when the call returns, while the tensors keep pointing to them.         *)
(***************************************************************************)
EXTENDS SpkRuntime

BlobWays == {"blob", "blobExternal"}
InlineWays == {"inline", "inlineExternal"}
ExternalWays == {"blobExternal", "inlineExternal"}

-----------------------------------------------------------------------------
(***************************************************************************)
(* Reading the package at generation time.  A directory or a table that    *)
(* runs out of the file raises struct.error, a missing or short tensor     *)
(* table ValueError (_inspect_spk); the inline generator checks the magic  *)
(* only, and skips the sections it does not find (_parse_spk_full).        *)
(***************************************************************************)
DirectoryReadable(pkg) == pkg.size >= 68 /\ pkg.magic /\ pkg.dirEnd <= pkg.size

InspectSpk(pkg) ==
    /\ DirectoryReadable(pkg)
    /\ ~Missing(pkg, TENSOR_TABLE)
    /\ SectionSize(pkg, TENSOR_TABLE) >= TENSOR * pkg.tensors
    /\ InputsById(pkg.graph) # <<>>
    /\ OutputsById(pkg.graph) # <<>>

ParseSpkFull(pkg) ==
    /\ DirectoryReadable(pkg)
    /\ ~Missing(pkg, TENSOR_TABLE)     \* else in_ids[0] of an empty list
    /\ InputsById(pkg.graph) # <<>>
    /\ OutputsById(pkg.graph) # <<>>

(* _extract_weights: the package with a weights section of zeros.          *)
ExtractWeights(pkg) ==
    LET weights == {t \in DOMAIN pkg.graph.tensors : IsWeight(pkg.graph, t)}
    IN  [pkg EXCEPT !.weights =
            IF \E t \in weights : pkg.graph.tensors[t].nonzero THEN "zeroed" ELSE @]

(* weight_bytes of SpkInfo: the length of the weights section.             *)
HasWeights(pkg) == SectionSize(pkg, WEIGHTS) > 0

(***************************************************************************)
(* The program: its way, the package it embeds or was made from, and the   *)
(* tensors behind the indices of its interface.  The wrapper leaves the    *)
(* outputs to the library; the inline program numbers them by id.          *)
(* Without weights, generate_c_from_spk writes the plain wrapper.          *)
(***************************************************************************)
GenerateFromSpk(pkg, external) ==
    IF external /\ HasWeights(pkg)
    THEN [way |-> "blobExternal", pkg |-> ExtractWeights(pkg)]
    ELSE [way |-> "blob", pkg |-> pkg]

GenerateInline(pkg, external) ==
    [way |-> IF external THEN "inlineExternal" ELSE "inline",
     pkg |-> [pkg EXCEPT !.weights = IF pkg.intact THEN @ ELSE "damaged"]]

\* The statics before main: no context, or a record of null pointers.
InlineStatics(prog) ==
    [Context(prog.pkg) EXCEPT !.read.outputs = OutputsById(prog.pkg.graph)]

InitialStatics(prog) ==
    [ ctx       |-> IF prog.way \in InlineWays THEN <<InlineStatics(prog)>> ELSE <<>>,
      ready     |-> FALSE,
      heap      |-> EmptyHeap,
      rc        |-> 0,
      undefined |-> FALSE ]

-----------------------------------------------------------------------------
(* _init of the wrapper, from the checksum on: load, prepare, free if that *)
(* fails.  The arenas are statics of the size the header asks for.         *)
LoadAndPrepare(st, pkg, fail) ==
    LET loaded == LoadMemory(st, pkg, fail)
        prepared == Prepare(loaded, "host", "host", "none")
    IN  IF loaded.rc # 0 THEN loaded
        ELSE IF prepared.rc # 0 THEN Returns(Free(prepared), prepared.rc)
        ELSE prepared

BlobInit(st, prog, fail) ==
    IF st.ctx # <<>> THEN Returns(st, 0) ELSE LoadAndPrepare(st, prog.pkg, fail)

(***************************************************************************)
(* Reading the weights file; right is the one the generator wrote.         *)
(***************************************************************************)
WeightFiles == {"missing", "empty", "right"}

FileError(file, fail) ==
    CASE file = "missing"                     -> -20
      [] file = "empty"                       -> -21
      [] file = "right" /\ fail = "weights"   -> -22
      [] OTHER                                -> 0

(***************************************************************************)
(* The search for the weights section in the embedded package, as written: *)
(* header_size is read at byte 8, which holds the endianness, 0; the count *)
(* at byte 10, whose low half is header_size and whose high half is the    *)
(* count; entries are 24 bytes apart instead of 32.  The words it looks at *)
(* are those at multiples of 24: num_nodes at 24, then zero halves of the  *)
(* 64-bit fields and of the reserved ones up to the end of the directory,  *)
(* then the payload.  A word of 6 ends the search at a record that is not  *)
(* the weights' and whose size is another, so that nothing is copied;      *)
(* without one the search leaves the array.                                *)
(***************************************************************************)
PatchOutcomes(pkg) ==
    IF pkg.nodes = 6 THEN {"nothing"} ELSE {"nothing", "overrun"}

Patched(pkg, outcome) == pkg

BlobExternalInit(st, prog, file, fail, outcome) ==
    IF st.ctx # <<>> THEN Returns(st, 0)
    ELSE IF FileError(file, fail) # 0 THEN Returns(st, FileError(file, fail))
    ELSE IF outcome = "overrun" THEN Undefined(st)
    ELSE LoadAndPrepare(st, Patched(prog.pkg, outcome), fail)

(***************************************************************************)
(* _init of the inline program: the weights file, then the context and the *)
(* storage of every tensor.  Nothing is checked.                           *)
(***************************************************************************)
InlineInit(st, prog, file, fail) ==
    LET external == prog.way = "inlineExternal"
        statics == st.ctx[1]
        g == prog.pkg.graph
        read == IF external THEN Allocate(st, {"weights"}) ELSE st
        placed == [statics EXCEPT !.place = [t \in DOMAIN @ |-> Storage(g, t)]]
    IN  IF st.ready THEN Returns(st, 0)
        ELSE IF external /\ FileError(file, fail) # 0 THEN Returns(st, FileError(file, fail))
        ELSE Returns([With(read, placed) EXCEPT !.ready = TRUE], 0)

-----------------------------------------------------------------------------
(* The tensor behind an output index.                                      *)
Output(st, index) == OutputTensor(st.ctx[1], index)

(* multi_bind of the inline program: only the indices the model has.       *)
BindKnown(st, inputs, outputs) ==
    LET c == st.ctx[1]
        ins == {InputTensor(c, i) : i \in 1..inputs \cap DOMAIN InputsById(c.graph)}
        outs == {OutputTensor(c, i) : i \in 1..outputs \cap DOMAIN c.read.outputs}
        place == [t \in DOMAIN c.place |-> IF t \in ins \cup outs THEN "host" ELSE c.place[t]]
        content == [t \in DOMAIN c.place |-> IF t \in outs THEN "none"
                                             ELSE IF t \in ins THEN "fresh" ELSE c.content[t]]
    IN  With(st, [c EXCEPT !.place = place, !.content = content])

\* The calls of bind_input and bind_output in the wrapper, up to the first
\* index that the model does not have.
BindInputs(st, count) ==
    Returns(BindKnown(st, count, 0), IF HasInput(st.ctx[1], count) \/ count = 0 THEN 0 ELSE -3)

BindOutputs(st, count) ==
    Returns(BindKnown(st, 0, count), IF HasOutput(st.ctx[1], count) \/ count = 0 THEN 0 ELSE -3)

\* When the call returns, the buffers are the host's again.
Detached(st) ==
    LET c == st.ctx[1]
        place == [t \in DOMAIN c.place |-> IF c.place[t] = "host" THEN "gone" ELSE c.place[t]]
    IN  IF st.ctx = <<>> THEN st ELSE With(st, [c EXCEPT !.place = place])

(***************************************************************************)
(* run_multi of the wrapper: init (the external one insists on it), bind   *)
(* what is passed, run.  run and run_checked are the case of one input and *)
(* one output.                                                             *)
(***************************************************************************)
BlobRun(st, prog, inputs, outputs, fail) ==
    LET ready == IF prog.way = "blob" THEN BlobInit(st, prog, fail)
                 ELSE Returns(st, IF st.ctx = <<>> THEN -3 ELSE 0)
        fed == BindInputs(ready, inputs)
        bound == BindOutputs(fed, outputs)
    IN  IF ready.rc # 0 THEN ready
        ELSE IF fed.rc # 0 THEN fed
        ELSE IF bound.rc # 0 THEN bound
        ELSE Execute(bound)

(* run of the inline program: input 0, output 0, after init.  The nodes    *)
(* run without the checks of spkv2_run.                                    *)
InlineRun(st, prog) ==
    LET ready == IF prog.way = "inline" THEN InlineInit(st, prog, "right", "none")
                 ELSE Returns(st, IF st.ready THEN 0 ELSE -3)
    IN  IF ready.rc # 0 THEN ready ELSE RunNodes(BindKnown(ready, 1, 1))

(* run_multi of the inline program: no call of init.                       *)
InlineRunMulti(st, prog, inputs, outputs) ==
    IF prog.way = "inlineExternal" /\ ~st.ready THEN Returns(st, -3)
    ELSE RunNodes(BindKnown(st, inputs, outputs))

(* free of the inline program: only when ready; the tensors keep pointing. *)
InlineFree(st, prog) ==
    LET c == st.ctx[1]
        freed == (IF c.packed THEN {"packed"} ELSE {})
                   \cup (IF prog.way = "inlineExternal" THEN {"weights"} ELSE {})
    IN  IF ~st.ready THEN st
        ELSE [With(Release(st, freed), [c EXCEPT !.packed = FALSE]) EXCEPT !.ready = FALSE]

-----------------------------------------------------------------------------
(* The functions of the interface, by the way the program was generated.   *)
ModelInit(st, prog, file, fail, outcome) ==
    CASE prog.way = "blob"         -> BlobInit(st, prog, fail)
      [] prog.way = "blobExternal" -> BlobExternalInit(st, prog, file, fail, outcome)
      [] prog.way \in InlineWays   -> InlineInit(st, prog, file, fail)

ModelRun(st, prog, fail) ==
    IF prog.way \in BlobWays THEN BlobRun(st, prog, 1, 1, fail) ELSE InlineRun(st, prog)

ModelRunMulti(st, prog, inputs, outputs, fail) ==
    IF prog.way \in BlobWays THEN BlobRun(st, prog, inputs, outputs, fail)
    ELSE InlineRunMulti(st, prog, inputs, outputs)

ModelFree(st, prog) == IF prog.way \in BlobWays THEN Free(st) ELSE InlineFree(st, prog)

(***************************************************************************)
(* main_test.c: init where the generator thinks the weights are external   *)
(* (generate_c_from_spk never does), one run, free.  Its exit status is    *)
(* the rc of the result.                                                   *)
(***************************************************************************)
MainTest(st, prog, fail) ==
    LET ready == IF prog.way = "inlineExternal" THEN InlineInit(st, prog, "right", fail) ELSE st
        ran == ModelRun(ready, prog, fail)
    IN  IF ready.rc # 0 THEN Returns(ready, 1)
        ELSE IF ran.undefined THEN ran
        ELSE IF ran.rc # 0 THEN Returns(ran, 1)
        ELSE Returns(ModelFree(ran, prog), 0)
=============================================================================
