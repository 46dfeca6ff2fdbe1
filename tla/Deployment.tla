----------------------------- MODULE Deployment -----------------------------
(***************************************************************************)
(* A package from the compiler to the device: write_spk lays it out, the   *)
(* file may be damaged on its way, the code generator may turn it into a   *)
(* program, and a host calls the runtime library or the generated program  *)
(* in whatever order it likes.  The properties say what the writer, the    *)
(* loader, the generator and the library owe a host that keeps to the      *)
(* interface, and what they owe any host.                                  *)
(***************************************************************************)
EXTENDS SpkWriter, FiniteSets

Model == INSTANCE GeneratedModel

(***************************************************************************)
(* A deployment: the graph, the way it is deployed ("library" or one of    *)
(* the generator's), what happens to the file, the allocation that fails.  *)
(***************************************************************************)
CONSTANTS Deployments, MaxCalls

\* The outputs of a graph are its tensors of that role, each named once, as the
\* importer makes them (onnx_importer.py:87; transforms.py:282 may redirect an
\* output and leave the role behind: such graphs are left out).  Inputs and outputs
\* are the only tensors that memory_plan.py:220 calls EXTERNAL.
OutputsAgree(graph) ==
    /\ Len(graph.outputs) = Len(Model!OutputsById(graph))
    /\ \A t \in DOMAIN graph.tensors :
          /\ graph.tensors[t].role = "OUTPUT" <=> \E i \in DOMAIN graph.outputs : graph.outputs[i] = t
          /\ graph.tensors[t].class = "EXTERNAL" => graph.tensors[t].role \in {"INPUT", "OUTPUT"}
    /\ \A i \in DOMAIN graph.outputs : graph.outputs[i] \in DOMAIN graph.tensors

\* The memory plan calls the weights alone WEIGHT (memory_plan.py:218-232; nothing in
\* the compiler makes a tensor of the role "constant"), and the arena is the peak of
\* its loop, which no tensor placed in it exceeds (:75-109): that is what
\* PlannedExecution's TensorsWellPlaced says, a theorem there.
PlanFits(graph) ==
    \A t \in DOMAIN graph.tensors :
        /\ graph.tensors[t].class = "WEIGHT" => graph.tensors[t].role = "WEIGHT"
        /\ graph.tensors[t].class = "ARENA" =>
              graph.tensors[t].offset + graph.tensors[t].bytes <= graph.arena

ASSUME DeploymentsAssumption ==
    /\ MaxCalls \in Nat
    /\ \A d \in Deployments :
          /\ d.graph \in Model!CompiledGraph
          /\ OutputsAgree(d.graph)
          /\ PlanFits(d.graph)
          /\ Model!SectionsOf(d.graph) \in SectionLists
          /\ d.way \in {"library"} \cup Model!BlobWays \cup Model!InlineWays
          /\ d.damage \in Model!Damages
          /\ d.fail \in Model!HeapKinds \cup {"none"}

VARIABLES
    deployment,
    phase,       \* "writing", "shipped", "deployed" or "refused" (by the generator)
    pkg,         \* <<>>, or the file as it arrives
    prog,        \* <<>>, or the generated program
    st,          \* the runtime state (see SpkRuntime)
    host         \* what the host has done so far, and got for it

vars == <<writerVars, deployment, phase, pkg, prog, st, host>>

g == deployment.graph
way == deployment.way
fail == deployment.fail

Inputs == Model!InputsById(g)              \* tensor ids, by index
External(t) == g.tensors[t].class = "EXTERNAL"

(***************************************************************************)
(* What the host knows from its own calls.  `careful` is lost by a call    *)
(* out of order; supplied are the inputs given since the last run, bound   *)
(* the tensors it gave a buffer of its own.                                *)
(***************************************************************************)
NewHost ==
    [ calls |-> 0, careful |-> TRUE, prepared |-> FALSE, started |-> FALSE,
      supplied |-> {}, bound |-> {}, ran |-> FALSE, last |-> "", file |-> "",
      delivered |-> <<>> ]

Init ==
    /\ deployment \in Deployments
    /\ Start(Model!SectionsOf(deployment.graph))
    /\ phase = "writing"
    /\ pkg = <<>>
    /\ prog = <<>>
    /\ st = [ctx |-> <<>>, ready |-> FALSE, heap |-> Model!EmptyHeap, rc |-> 0,
             undefined |-> FALSE]
    /\ host = NewHost

Write ==
    /\ phase = "writing"
    /\ WriterNext
    /\ UNCHANGED <<deployment, phase, pkg, prog, st, host>>

(* The file reaches the place where it is used.                            *)
Ship ==
    /\ phase = "writing"
    /\ Written
    /\ \E p \in Model!Damaged(Model!Package(g, header[1], directory), deployment.damage) :
          pkg' = <<p>>
    /\ phase' = IF way = "library" THEN "deployed" ELSE "shipped"
    /\ UNCHANGED <<writerVars, deployment, prog, st, host>>

(* cli.py codegen: the wrapper or, with --inline, the direct calls.        *)
Generate ==
    /\ phase = "shipped"
    /\ LET external == way \in Model!ExternalWays
           inline   == way \in Model!InlineWays
           readable == IF inline THEN Model!ParseSpkFull(pkg[1]) ELSE Model!InspectSpk(pkg[1])
       IN  IF readable
           THEN /\ prog' = << IF inline THEN Model!GenerateInline(pkg[1], external)
                              ELSE Model!GenerateFromSpk(pkg[1], external) >>
                /\ st' = Model!InitialStatics(prog'[1])
                /\ phase' = "deployed"
           ELSE /\ phase' = "refused"
                /\ UNCHANGED <<prog, st>>
    /\ UNCHANGED <<writerVars, deployment, pkg, host>>

-----------------------------------------------------------------------------
Callable ==
    /\ phase = "deployed"
    /\ ~st.undefined
    /\ host.calls < MaxCalls

\* One call of the host: the state it leads to, and the host's view of it.
Call(op, after, view) ==
    /\ st' = after
    /\ host' = [view EXCEPT !.calls = @ + 1, !.last = op]
    /\ UNCHANGED <<writerVars, deployment, phase, pkg, prog>>

Library == Callable /\ way = "library"
Generated == Callable /\ way # "library"
HasContext == st.ctx # <<>>

(* The library's own interface: one context at a time.                     *)
Load ==
    /\ Library
    /\ ~HasContext
    /\ \E after \in {Model!LoadMemory(st, pkg[1], fail), Model!LoadFile(st, pkg[1], fail)} :
          Call("load", after, [NewHost EXCEPT !.calls = host.calls, !.careful = host.careful])

Prepare ==
    /\ Library
    /\ HasContext
    /\ \E arena, scratch \in {"host", "own", "small"} :
          LET after == Model!Prepare(st, arena, scratch, fail)
          IN  Call("prepare", after,
               [host EXCEPT !.careful = @ /\ host.last = "load",
                            !.prepared = after.rc = 0, !.supplied = {}, !.bound = {}, !.ran = FALSE])

SetInput ==
    /\ Library
    /\ HasContext
    /\ \E i \in 1..(Len(Inputs) + 1) :
          LET usable == host.prepared /\ i <= Len(Inputs)
                          /\ (External(Inputs[i]) => Inputs[i] \in host.bound)
          IN  Call("set_input", Model!SetInput(st, i),
                   [host EXCEPT !.careful = @ /\ usable,
                                !.supplied = IF usable THEN @ \cup {i} ELSE @])

BindInput ==
    /\ Library
    /\ HasContext
    /\ \E i \in 1..(Len(Inputs) + 1) :
          LET usable == host.prepared /\ i <= Len(Inputs)
          IN  Call("bind_input", Model!BindInput(st, i),
                   [host EXCEPT !.careful = @ /\ usable,
                                !.supplied = IF usable THEN @ \cup {i} ELSE @,
                                !.bound = IF usable THEN @ \cup {Inputs[i]} ELSE @])

BindOutput ==
    /\ Library
    /\ HasContext
    /\ \E i \in 1..(Len(g.outputs) + 1) :
          LET usable == host.prepared /\ i <= Len(g.outputs)
          IN  Call("bind_output", Model!BindOutput(st, i),
                   [host EXCEPT !.careful = @ /\ usable, !.ran = FALSE,
                                !.bound = IF usable THEN @ \cup {g.outputs[i]} ELSE @])

Run ==
    /\ Library
    /\ HasContext
    /\ LET usable == /\ host.prepared
                     /\ host.supplied = 1..Len(Inputs)
                     /\ \A t \in DOMAIN g.tensors : External(t) => t \in host.bound
       IN  Call("run", Model!Execute(st),
                [host EXCEPT !.careful = @ /\ usable, !.ran = usable,
                             !.supplied = {i \in @ : Inputs[i] \in host.bound}])

\* The output a host reads: its tensor, and what is found there.
Read(s, i) ==
    IF i \in DOMAIN s.ctx[1].read.outputs
    THEN LET t == s.ctx[1].read.outputs[i] IN <<t, s.ctx[1].content[t]>>
    ELSE <<0, "none">>

GetOutput ==
    /\ Library
    /\ HasContext
    /\ \E i \in 1..(Len(g.outputs) + 1) :
          Call("get_output", Model!GetOutput(st, i),
               [host EXCEPT !.careful = @ /\ host.ran /\ i <= Len(g.outputs),
                            !.delivered = <<i, Read(st, i)>>])

Free ==
    /\ Library
    /\ HasContext
    /\ Call("free", Model!Free(st), host)

-----------------------------------------------------------------------------
(* The interface of a generated program.  After a call that runs the       *)
(* model, the tensors still point to the buffers of that call.             *)
Files == IF Model!HasWeights(pkg[1]) THEN Model!WeightFiles ELSE {"missing", "empty"}

Outcomes == IF way = "blobExternal" THEN Model!PatchOutcomes(pkg[1]) ELSE {"nothing"}

ApiInit ==
    /\ Generated
    /\ \E file \in Files, outcome \in Outcomes :
          Call("init", Model!ModelInit(st, prog[1], file, fail, outcome),
               [host EXCEPT !.started = TRUE, !.file = file])

\* What a call that runs the model leaves in the buffers passed to it.
Deliver(after, outputs) ==
    IF after.rc = 0 /\ ~after.undefined /\ after.ctx # <<>>
    THEN [i \in 1..outputs |-> Read(after, i)] ELSE <<>>

ApiRun ==
    /\ Generated
    /\ LET after == Model!ModelRun(st, prog[1], fail)
           usable == Len(Inputs) = 1 /\ Len(g.outputs) = 1
       IN  Call("api_run", Model!Detached(after),
                [host EXCEPT !.careful = @ /\ usable, !.started = @ \/ after.rc = 0,
                             !.delivered = Deliver(after, 1)])

ApiRunMulti ==
    /\ Generated
    /\ \E inputs \in 0..(Len(Inputs) + 1), outputs \in 0..(Len(g.outputs) + 1) :
          LET after == Model!ModelRunMulti(st, prog[1], inputs, outputs, fail)
              usable == /\ inputs = Len(Inputs) /\ outputs = Len(g.outputs)
                        /\ way = "inline" => host.started
          IN  Call("api_run", Model!Detached(after),
                   [host EXCEPT !.careful = @ /\ usable, !.delivered = Deliver(after, outputs)])

ApiFree ==
    /\ Generated
    /\ Call("free", Model!ModelFree(st, prog[1]), [host EXCEPT !.started = FALSE])

(* The generated main_test.c, a process of its own.                        *)
TestProgram ==
    /\ Generated
    /\ host.calls = 0
    /\ Call("main_test", Model!MainTest(st, prog[1], fail),
            [host EXCEPT !.calls = MaxCalls - 1,
                         !.careful = @ /\ Len(Inputs) = 1 /\ Len(g.outputs) = 1])

Next ==
    \/ Write \/ Ship \/ Generate
    \/ Load \/ Prepare \/ SetInput \/ BindInput \/ BindOutput \/ Run \/ GetOutput \/ Free
    \/ ApiInit \/ ApiRun \/ ApiRunMulti \/ ApiFree \/ TestProgram

Spec == Init /\ [][Next]_vars

-----------------------------------------------------------------------------
TypeOK ==
    /\ deployment \in Deployments
    /\ phase \in {"writing", "shipped", "deployed", "refused"}
    /\ Len(pkg) <= 1 /\ Len(prog) <= 1
    /\ Len(st.ctx) <= 1
    /\ \A k \in Model!HeapKinds : st.heap[k] \in Nat
    /\ st.rc \in -23..1
    /\ host.calls \in 0..MaxCalls
    /\ host.supplied \subseteq DOMAIN Inputs
    /\ host.bound \subseteq DOMAIN g.tensors

(***************************************************************************)
(* Whatever is damaged in a file is noticed before a context exists, by    *)
(* the generator or by the loader, unless the damage is to checksum_type,  *)
(* which turns the check off (loader.c:182).  The inline generator leaves  *)
(* the checksum out and is not covered (c_codegen.py:602).                 *)
(***************************************************************************)
DamageRefused ==
    (deployment.damage \notin {"none", "checksum type"} /\ way \notin Model!InlineWays)
        => ~HasContext

(***************************************************************************)
(* The loader finds in an undamaged package what the compiler put there:   *)
(* as many specs, quantization and protection records, and the outputs in  *)
(* the order of the graph (loader.c: spkv2_load_memory, spk_writer.py).    *)
(***************************************************************************)
RecordsReadBack ==
    (HasContext /\ way \notin Model!InlineWays /\ deployment.damage = "none") =>
        LET read == st.ctx[1].read
        IN  /\ read.specs = g.specs
            /\ read.quants = Len(g.channels)
            /\ read.protected = (IF g.protected < 0 THEN 0 ELSE g.protected)
            /\ read.outputs = g.outputs

Undamaged == deployment.damage = "none" /\ fail = "none"

(***************************************************************************)
(* A package that arrives whole is usable: load succeeds, prepare succeeds *)
(* with buffers large enough, init of a generated program succeeds when it *)
(* gets its weights file, and its test program ends well (c_codegen.py).   *)
(* The wrapper with external weights is the finding of ExternalWeights, a  *)
(* graph without inputs or outputs is refused on purpose (:177).           *)
(***************************************************************************)
ModelStarts ==
    (Undamaged /\ ~st.undefined /\ way # "blobExternal") =>
        /\ phase = "refused" => Inputs = <<>> \/ Model!OutputsById(g) = <<>>
        /\ host.last = "load" => HasContext
        /\ host.last = "prepare" => st.rc \in {0, -2}
        /\ (host.last = "init" /\ (way \in Model!ExternalWays => host.file = "right"))
              => st.rc = 0
        /\ host.last = "main_test" /\ host.careful
              /\ (way \in Model!ExternalWays => Model!HasWeights(pkg[1])) => st.rc = 0

\* The order of the outputs is that of the ids, or the library knows it.
OrderKnown == way \notin Model!InlineWays \/ g.outputs = Model!OutputsById(g)

(***************************************************************************)
(* A host that keeps to the interface gets, at every index, the output     *)
(* that the graph names there, computed from the inputs it supplied for    *)
(* this run and from the compiled weights: binding, copying, stale         *)
(* pointers of earlier calls and the reuse of input storage do not show    *)
(* (executor.c:249-324, c_codegen.py:290-320, 742-758).                    *)
(***************************************************************************)
OutputsDelivered ==
    (host.careful /\ st.rc = 0 /\ ~st.undefined /\ OrderKnown /\ deployment.damage = "none") =>
        /\ host.last = "get_output" =>
              host.delivered = <<host.delivered[1], <<g.outputs[host.delivered[1]], "right">>>>
        /\ host.last = "api_run" =>
              host.delivered = [i \in DOMAIN g.outputs |-> <<g.outputs[i], "right">>]

(***************************************************************************)
(* Such a host never makes the program use a null or a dangling pointer,   *)
(* whatever the file and the allocations do (executor.c:257,               *)
(* c_codegen.py:936).  The patch of external weights is excepted.          *)
(***************************************************************************)
NoUndefinedAccess == st.undefined => (~host.careful \/ way = "blobExternal")

(***************************************************************************)
(* Once a host that prepares a context at most once has given it back, or  *)
(* never got it, nothing is left on the heap, whichever allocation failed: *)
(* except the output ids, when one of the last three of load_memory fails  *)
(* (loader.c:269-281).                                                     *)
(***************************************************************************)
NothingLeaked ==
    LET released == IF way \in Model!InlineWays
                    THEN host.last = "free" ELSE ~HasContext
        lost == IF fail \in {"node_cache", "counts", "observations"}
                THEN {"output_ids"} ELSE {}
    IN  (released /\ host.careful) =>
            \A k \in Model!HeapKinds \ lost : st.heap[k] = 0

(***************************************************************************)
(* What c_codegen.py:396 says of the wrapper with external weights, "Patch *)
(* weights into the SPK buffer (zeroed weight section)": after init with   *)
(* the file the generator wrote, the model is loaded.                      *)
(***************************************************************************)
ExternalWeightsLoad ==
    (way = "blobExternal" /\ Undamaged /\ host.last = "init" /\ host.file = "right"
        /\ ~st.undefined) => st.rc = 0
=============================================================================
