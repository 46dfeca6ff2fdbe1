------------------------- MODULE Deployment_proofs --------------------------
(***************************************************************************)
(* Theorems about a deployment: for every graph, file, way of deployment   *)
(* and sequence of calls, the invariant DeploymentInv holds, and with it   *)
(* what the Deployment module promises a host.  DeploymentParts_proofs has *)
(* the lemmas about the file and about the functions that the calls are    *)
(* made of.                                                                *)
(***************************************************************************)
EXTENDS DeploymentParts_proofs

-----------------------------------------------------------------------------
(* The package that a deployed program works on.                           *)

\* A finished file is laid out for a loader, and lists the sections of its graph.
LEMMA WrittenPackage ==
  ASSUME PackageInv, phase # "writing"
  PROVE  /\ LaidOut(header[1], directory)
         /\ Len(directory) = Len(Model!SectionsOf(g))
         /\ \A i \in 1..Len(directory) : /\ directory[i].kind = SectionAt(g, i).kind
                                         /\ directory[i].size = SectionAt(g, i).bytes
<1> DEFINE n == Len(sections)
<1>1. /\ next = n + 1 /\ n \in Nat /\ n > 0 /\ offset \in Nat
      /\ header = <<[size |-> HeaderSize, count |-> n, bytes |-> offset]>>
      /\ directory \in Seq(Entry) /\ Len(directory) = n
      /\ offset = End(directory[n])
      /\ \A i \in 1..n : directory[i].size = sections[i].bytes /\ directory[i].kind = sections[i].kind
  <2>1. n \in Nat /\ n > 0
    BY ListFacts DEF PackageInv, LayoutInv, TypeInv
  <2>2. next = n + 1 /\ header = <<[size |-> HeaderSize, count |-> n, bytes |-> offset]>>
    BY DEF PackageInv, LayoutInv, EndInv, Written
  <2>3. next - 1 = n /\ next > 1
    BY <2>1, <2>2
  <2>4. QED
    BY <2>1, <2>2, <2>3 DEF PackageInv, LayoutInv, TypeInv, EntriesInv, KindsInv
<1>2. sections = Model!SectionsOf(g) /\ \A i : SectionAt(g, i) = sections[i]
  BY DEF PackageInv, SectionAt
<1>3. directory[n].size = 4
  <2>1. SectionAt(g, n).bytes = 4
    BY <1>2, SectionsListed DEF SectionKinds
  <2>2. QED
    BY <1>1, <1>2, <2>1
<1>4. directory[n] \in Entry
  BY <1>1
<1> HIDE DEF n
<1>5. LaidOut(header[1], directory)
  BY <1>1, <1>3, <1>4 DEF LaidOut, HeaderSize, End, Entry
<1>6. QED
  BY <1>1, <1>2, <1>5 DEF n

\* What the generator made of the file, by the way of the deployment.
SourceOf(p, w) ==
    IF w = "library" THEN p
    ELSE IF w \in Model!InlineWays THEN Model!GenerateInline(p, w \in Model!ExternalWays).pkg
    ELSE Model!GenerateFromSpk(p, w \in Model!ExternalWays).pkg

ProgramMade ==
    /\ prog[1].pkg = Source
    /\ way \in Model!InlineWays => prog[1].way = way
    /\ way \in Model!BlobWays => prog[1].way \in Model!BlobWays
    /\ way = "blob" => prog[1].way = "blob"

\* The program is the one generated from the file that arrived, in the way asked for.
LEMMA DeployedProgram ==
  ASSUME PackageInv, phase = "deployed"
  PROVE  /\ Source = SourceOf(pkg[1], way)
         /\ way # "library" => ProgramMade
<1>1. CASE way = "library"
  BY <1>1 DEF Source, SourceOf
<1>2. CASE way # "library"
  <2>1. prog[1] = MadeProgram /\ Source = MadeProgram.pkg
    BY <1>2 DEF PackageInv, Source
  <2>2. way \in Model!BlobWays \cup Model!InlineWays
    BY <1>2, DeploymentFacts DEF PackageInv
  <2>3. Source = SourceOf(pkg[1], way)
    BY <1>2, <2>1 DEF SourceOf, MadeProgram
  <2>4. CASE way \in Model!InlineWays
    <3>1. MadeProgram.way = IF way \in Model!ExternalWays THEN "inlineExternal" ELSE "inline"
      BY <2>4 DEF MadeProgram, Model!GenerateInline
    <3>2. MadeProgram.way = way
      BY <2>4, <3>1 DEF Model!InlineWays, Model!ExternalWays
    <3>3. way \notin Model!BlobWays
      BY <2>4 DEF Model!InlineWays, Model!BlobWays
    <3>4. QED
      BY <2>1, <2>3, <3>2, <3>3 DEF ProgramMade, Model!BlobWays
  <2>5. CASE way \notin Model!InlineWays
    <3>1. /\ MadeProgram.way \in Model!BlobWays
          /\ way \notin Model!ExternalWays => MadeProgram.way = "blob"
      BY <2>5 DEF MadeProgram, Model!GenerateFromSpk, Model!BlobWays
    <3>2. way = "blob" => way \notin Model!ExternalWays
      BY DEF Model!ExternalWays
    <3>3. QED
      BY <2>1, <2>3, <2>5, <3>1, <3>2 DEF ProgramMade
  <2>6. QED
    BY <2>3, <2>4, <2>5
<1>3. QED
  BY <1>1, <1>2

\* The source has the graph of the deployment; only the weights may have been
\* taken out, or be the damaged ones of a file that nobody checked.
LEMMA SourceFacts ==
  ASSUME PackageInv, phase = "deployed"
  PROVE  /\ Source.graph = g
         /\ way \notin Model!InlineWays =>
               \/ Source = pkg[1]
               \/ Source = [pkg[1] EXCEPT !.weights = "zeroed"]
               \/ Source = [pkg[1] EXCEPT !.weights = "stored"]
         /\ way \in Model!InlineWays /\ deployment.damage = "none" => Source.weights = "stored"
<1> DEFINE p == pkg[1]
<1>1. p \in Model!Damaged(Model!Package(g, header[1], directory), deployment.damage)
  BY DEF PackageInv, Arrived
<1>2. deployment.damage \in Model!Damages
  BY DeploymentFacts DEF PackageInv
<1>3. p.graph = g /\ p.weights = "stored" /\ DOMAIN p = Fields
  BY <1>1, <1>2, DamagedGraph
<1>4. deployment.damage = "none" => p.intact
  BY <1>1, ToleratedPackage DEF Tolerated
<1>5. Source = SourceOf(p, way)
  BY DeployedProgram
<1> HIDE DEF p
<1>6. \A w : [p EXCEPT !.weights = w].graph = g /\ [p EXCEPT !.weights = w].weights = w
  BY <1>3 DEF Fields
<1>7. CASE way = "library"
  BY <1>3, <1>5, <1>7 DEF SourceOf, p, Model!InlineWays
<1>8. CASE way # "library" /\ way \in Model!InlineWays
  <2>1. Source = [p EXCEPT !.weights = IF p.intact THEN p.weights ELSE "damaged"]
    BY <1>5, <1>8 DEF SourceOf, Model!GenerateInline
  <2>2. QED
    BY <1>3, <1>4, <1>6, <1>8, <2>1
<1>9. CASE way # "library" /\ way \notin Model!InlineWays
  <2>1. Source = p \/ Source = Model!ExtractWeights(p)
    BY <1>5, <1>9 DEF SourceOf, Model!GenerateFromSpk
  <2>2. \/ Model!ExtractWeights(p) = [p EXCEPT !.weights = "zeroed"]
        \/ Model!ExtractWeights(p) = [p EXCEPT !.weights = p.weights]
    BY DEF Model!ExtractWeights
  <2>3. QED
    <3>1. \/ Source = p
          \/ Source = [p EXCEPT !.weights = "zeroed"]
          \/ Source = [p EXCEPT !.weights = "stored"]
      BY <1>3, <2>1, <2>2
    <3>2. Source.graph = g
      BY <1>3, <1>6, <3>1
    <3>3. QED
      BY <1>9, <3>1, <3>2, Zenon DEF p
<1>10. QED
  BY <1>7, <1>8, <1>9

\* What can be loaded has come unharmed, as far as its tables and weights go.
LEMMA LoadableSource ==
  ASSUME PackageInv, phase = "deployed", way \notin Model!InlineWays, Model!LoadError(Source) = 0
  PROVE  /\ deployment.damage \in Tolerated
         /\ Listed(Source, g)
         /\ deployment.damage = "none" => Source.weights = "stored"
<1> DEFINE p == pkg[1]
<1>1. p \in Model!Damaged(Model!Package(g, header[1], directory), deployment.damage)
  BY DEF PackageInv, Arrived
<1>2. deployment.damage \in Model!Damages
  BY DeploymentFacts DEF PackageInv
<1>3. p.graph = g /\ p.weights = "stored" /\ DOMAIN p = Fields
  BY <1>1, <1>2, DamagedGraph
<1>4. LaidOut(header[1], directory)
  BY WrittenPackage
<1>5. \/ Source = p
      \/ Source = [p EXCEPT !.weights = "zeroed"]
      \/ Source = [p EXCEPT !.weights = "stored"]
  BY SourceFacts
<1>6. deployment.damage \in Tolerated
  <2> SUFFICES ASSUME deployment.damage \in Model!Damages \ Tolerated PROVE FALSE
    BY <1>2
  <2>1. \A w \in {"stored", "zeroed"} :
           Model!LoadError([p EXCEPT !.weights = w]) # 0 /\ Model!LoadError(p) # 0
    BY <1>1, <1>4, DamagedNotLoaded
  <2>2. QED
    BY <1>5, <2>1
<1>7. p.dir = directory /\ (deployment.damage = "none" => p.checksum = 1)
  <2>1. p.dir = directory
    BY <1>1, <1>6, ToleratedPackage
  <2>2. ASSUME deployment.damage = "none" PROVE p.checksum = 1
    BY <1>1, <2>2 DEF Model!Damaged, Model!Package
  <2>3. QED
    BY <2>1, <2>2
<1> HIDE DEF p
<1>8. \A w : LET q == [p EXCEPT !.weights = w]
             IN  q.graph = g /\ q.dir = p.dir /\ q.checksum = p.checksum /\ q.weights = w
  BY <1>3 DEF Fields
<1>9. Source.graph = g /\ Source.dir = directory /\ Source.checksum = p.checksum
  BY <1>3, <1>5, <1>7, <1>8
<1>10. Listed(Source, g)
  BY <1>4, <1>9, WrittenPackage DEF Listed, LaidOut
<1>11. ASSUME deployment.damage = "none" PROVE Source.weights = "stored"
  <2>1. Source.checksum = 1
    BY <1>7, <1>9, <1>11
  <2>2. Source.weights # "zeroed"
    BY <2>1 DEF Model!LoadError
  <2>3. QED
    BY <1>3, <1>5, <1>8, <2>2
<1>12. QED
  BY <1>6, <1>10, <1>11

\* The indices of the interface name the inputs and outputs of the graph, each of
\* them, and only those are left without storage.
LEMMA GraphIsGood ==
  ASSUME PackageInv, phase = "deployed"
  PROVE  /\ GraphGood
         /\ Ins = Inputs /\ N = Len(g.tensors) /\ DOMAIN g.tensors = 1..N
         /\ Len(Outs) = Len(g.outputs) /\ DOMAIN g.outputs = DOMAIN Outs
         /\ Outs = Model!OutputsById(g) \/ Outs = g.outputs
         /\ way \in Model!InlineWays => Outs = Model!OutputsById(g)
         /\ \A t \in 1..N : External(t) <=> Source.graph.tensors[t].class = "EXTERNAL"
<1> DEFINE byId == Model!OutputsById(g)
<1>1. /\ g \in Model!CompiledGraph /\ OutputsAgree(g) /\ Source.graph = g
  BY DeploymentFacts, SourceFacts DEF PackageInv
<1>2. /\ g.tensors \in Seq(Model!Tensor) /\ g.outputs \in Seq(Nat)
      /\ N = Len(g.tensors) /\ DOMAIN g.tensors = 1..N /\ N \in Nat
  BY <1>1 DEF Model!CompiledGraph, N
<1>3. Ins = Inputs
  BY <1>1 DEF Ins, Inputs
<1>4. /\ Ins \in Seq(1..N)
      /\ \A i \in DOMAIN Ins : g.tensors[Ins[i]].role = "INPUT"
      /\ \A t \in 1..N : g.tensors[t].role = "INPUT" => \E i \in DOMAIN Ins : Ins[i] = t
  BY <1>1, <1>2, <1>3, IdsOfRoleCorrect DEF Inputs, Model!InputsById
<1>5. /\ byId \in Seq(1..N)
      /\ \A i \in DOMAIN byId : g.tensors[byId[i]].role = "OUTPUT"
      /\ \A t \in 1..N : g.tensors[t].role = "OUTPUT" => \E i \in DOMAIN byId : byId[i] = t
  BY <1>1, <1>2, IdsOfRoleCorrect DEF Model!OutputsById
<1>6. /\ Len(g.outputs) = Len(byId)
      /\ \A t \in 1..N : g.tensors[t].role = "OUTPUT" <=> \E i \in DOMAIN g.outputs : g.outputs[i] = t
      /\ \A i \in DOMAIN g.outputs : g.outputs[i] \in 1..N
      /\ \A t \in 1..N : g.tensors[t].class = "EXTERNAL" => g.tensors[t].role \in {"INPUT", "OUTPUT"}
  BY <1>1, <1>2 DEF OutputsAgree
<1>7. /\ Outs = byId \/ Outs = g.outputs
      /\ way \in Model!InlineWays => Outs = byId
  <2>1. Model!ReadBack(Source).outputs \in {byId, g.outputs}
    BY <1>1 DEF Model!ReadBack
  <2>2. [Model!ReadBack(Source) EXCEPT !.outputs = byId].outputs = byId
    BY DEF Model!ReadBack
  <2>3. QED
    BY <1>1, <2>1, <2>2 DEF Outs, Found
<1> HIDE DEF byId
<1>8. /\ Len(Outs) \in Nat /\ DOMAIN Outs = 1..Len(Outs) /\ Len(Outs) = Len(g.outputs)
      /\ DOMAIN g.outputs = DOMAIN Outs
      /\ \A i \in DOMAIN Outs : Outs[i] \in 1..N /\ g.tensors[Outs[i]].role = "OUTPUT"
      /\ \A t \in 1..N : g.tensors[t].role = "OUTPUT" => \E i \in DOMAIN Outs : Outs[i] = t
  <2>1. CASE Outs = byId
    BY <2>1, <1>2, <1>5, <1>6
  <2>2. CASE Outs = g.outputs
    BY <2>2, <1>2, <1>6
  <2>3. QED
    BY <1>7, <2>1, <2>2
<1>9. GraphGood
  <2>1. \A t : Role(t) = g.tensors[t].role
    BY <1>1 DEF Role
  <2>2. Len(Ins) \in Nat /\ DOMAIN Ins = 1..Len(Ins) /\ \A i \in DOMAIN Ins : Ins[i] \in 1..N
    <3> DEFINE T == 1..N
    <3>1. Ins \in Seq(T)
      BY <1>4
    <3> HIDE DEF T
    <3>2. Len(Ins) \in Nat /\ DOMAIN Ins = 1..Len(Ins)
      BY <3>1
    <3>3. \A i \in DOMAIN Ins : Ins[i] \in T
      BY <3>1, <3>2
    <3>4. QED
      BY <3>2, <3>3 DEF T
  <2>3. /\ \A i \in DOMAIN Ins : Role(Ins[i]) = "INPUT"
        /\ \A t \in 1..N : Role(t) = "INPUT" => \E i \in DOMAIN Ins : Ins[i] = t
        /\ \A i \in DOMAIN Outs : Role(Outs[i]) = "OUTPUT"
        /\ \A t \in 1..N : Role(t) = "OUTPUT" => \E i \in DOMAIN Outs : Outs[i] = t
        /\ \A t \in 1..N : Source.graph.tensors[t].class = "EXTERNAL" => Role(t) \in {"INPUT", "OUTPUT"}
    <3>1. /\ \A i \in DOMAIN Ins : Role(Ins[i]) = "INPUT"
          /\ \A t \in 1..N : Role(t) = "INPUT" => \E i \in DOMAIN Ins : Ins[i] = t
      BY <1>4, <2>1
    <3>2. /\ \A i \in DOMAIN Outs : Role(Outs[i]) = "OUTPUT"
          /\ \A t \in 1..N : Role(t) = "OUTPUT" => \E i \in DOMAIN Outs : Outs[i] = t
      BY <1>8, <2>1
    <3>3. \A t \in 1..N : Source.graph.tensors[t].class = "EXTERNAL" => Role(t) \in {"INPUT", "OUTPUT"}
      BY <1>1, <1>6, <2>1
    <3>4. QED
      BY <3>1, <3>2, <3>3
  <2>4. /\ Len(Outs) \in Nat /\ DOMAIN Outs = 1..Len(Outs)
        /\ \A i \in DOMAIN Outs : Outs[i] \in 1..N
    BY <1>8
  <2>5. QED
    BY <2>2, <2>3, <2>4, Zenon DEF GraphGood
<1>10. QED
  BY <1>1, <1>2, <1>3, <1>7, <1>8, <1>9 DEF byId, External

\* What the loader reads of a package that it takes is what the compiler wrote.
LEMMA LoadedReadsBack ==
  ASSUME PackageInv, phase = "deployed", way \notin Model!InlineWays, Model!LoadError(Source) = 0
  PROVE  /\ Found.specs = g.specs
         /\ Found.quants = Len(g.channels)
         /\ Found.protected = (IF g.protected < 0 THEN 0 ELSE g.protected)
         /\ Found.outputs = g.outputs
<1>1. Listed(Source, g) /\ g \in Model!CompiledGraph
  BY LoadableSource, DeploymentFacts DEF PackageInv
<1>2. Found = Model!ReadBack(Source)
  BY DEF Found
<1>3. QED
  BY <1>1, <1>2, ReadBackListed

-----------------------------------------------------------------------------
(* What holds of a deployed program and its host, before every call.       *)
HostFields == {"calls", "careful", "prepared", "started", "supplied", "bound", "ran",
               "last", "file", "delivered"}

HostInv(h) ==
    /\ DOMAIN h = HostFields
    /\ h.calls \in 0..MaxCalls
    /\ h.careful \in BOOLEAN /\ h.prepared \in BOOLEAN /\ h.started \in BOOLEAN /\ h.ran \in BOOLEAN
    /\ h.supplied \subseteq DOMAIN Ins
    /\ h.bound \subseteq 1..N

\* The heap is as good as the host's care, and so are the accesses.
StateInv(s, h) ==
    /\ s \in States /\ PackedInv(s)
    /\ Covered(s, Own(s))
    /\ h.careful => Exact(s, Own(s), Lost)
    /\ s.undefined => ~h.careful \/ way = "blobExternal"

\* Everything has storage of its own, or is the host's to bind.
Reachable(s, h) ==
    \A t \in 1..N : ~Dangling(s, t) \/ (External(t) /\ t \notin h.bound)

\* What the host has bound, it still is; what it has supplied is still there.
Supplied(s, h) ==
    /\ \A t \in h.bound : s.ctx[1].place[t] = "host"
    /\ \A i \in h.supplied : s.ctx[1].content[Ins[i]] = "fresh"

AllReachable(s) == \A t \in 1..N : ~Dangling(s, t)

\* A context of the library.
LibraryInv(s, h) ==
    s.ctx # <<>> =>
       /\ Model!LoadError(Source) = 0
       /\ h.last = "load" => ~s.ctx[1].ownsArena /\ ~s.ctx[1].ownsScratch
       /\ h.prepared => Reachable(s, h)
       /\ Supplied(s, h)
       /\ h.ran => AllReachable(s) /\ (Source.weights = "stored" => OutputsRight(s))

\* The statics of an inline program.
InlineHost(s, h) ==
    /\ InlineInv(s)
    /\ h.careful => PackedReady(s)
    /\ way = "inline" /\ h.started => s.ready
    /\ h.last = "free" => ~s.ready

\* OutputsDelivered, of any state and host.
Delivered(s, h) ==
    (h.careful /\ s.rc = 0 /\ ~s.undefined /\ OrderKnown /\ deployment.damage = "none") =>
        /\ h.last = "get_output" =>
              h.delivered = <<h.delivered[1], <<g.outputs[h.delivered[1]], "right">>>>
        /\ h.last = "api_run" =>
              h.delivered = [i \in DOMAIN g.outputs |-> <<g.outputs[i], "right">>]

DeployedInv(s, h) ==
    /\ HostInv(h) /\ StateInv(s, h) /\ Delivered(s, h)
    /\ way = "library" => LibraryInv(s, h)
    /\ way \in Model!BlobWays => BlobInv(s)
    /\ way \in Model!InlineWays => InlineHost(s, h)

\* What a call does to the host's view.
Viewed(h, calls, careful, prepared, started, supplied, bound, ran, last) ==
    /\ DOMAIN h = HostFields
    /\ h.calls = calls /\ h.careful = careful /\ h.prepared = prepared /\ h.started = started
    /\ h.supplied = supplied /\ h.bound = bound /\ h.ran = ran /\ h.last = last

\* A call that keeps the heap in order, and touches nothing it must not.
LEMMA StateStep ==
  ASSUME NEW s, NEW h, StateInv(s, h), ~s.undefined,
         NEW a, a \in States, PackedInv(a), NEW k,
         Covered(s, Own(s)) => Covered(a, Own(a)),
         k.careful => h.careful,
         k.careful => (Exact(s, Own(s), Lost) => Exact(a, Own(a), Lost)),
         k.careful => a.undefined = s.undefined \/ way = "blobExternal"
  PROVE  StateInv(a, k)
BY DEF StateInv

\* One more call, and the host's view stays well formed.
LEMMA HostStep ==
  ASSUME NEW h, HostInv(h), h.calls < MaxCalls, MaxCalls \in Nat,
         NEW k, DOMAIN k = HostFields, k.calls = h.calls + 1,
         k.careful \in BOOLEAN, k.prepared \in BOOLEAN, k.started \in BOOLEAN, k.ran \in BOOLEAN,
         k.supplied \subseteq DOMAIN Ins, k.bound \subseteq 1..N
  PROVE  HostInv(k)
<1>1. h.calls \in 0..MaxCalls
  BY DEF HostInv
<1>2. h.calls + 1 \in 0..MaxCalls
  BY <1>1
<1>3. QED
  BY <1>2 DEF HostInv

\* A call that returns no output delivers none.
LEMMA QuietCall ==
  ASSUME NEW s, NEW h, h.last # "get_output", h.last # "api_run"
  PROVE  Delivered(s, h)
BY DEF Delivered

-----------------------------------------------------------------------------
(* The calls of the library.                                               *)
\* spkv2_load_memory and spkv2_load_file keep the invariant, whatever fails.
LEMMA LoadKeeps ==
  ASSUME PackageInv, phase = "deployed", DeployedInv(st, host), Load
  PROVE  DeployedInv(st', host')
<1>1. /\ way = "library" /\ way \notin Model!InlineWays /\ way \notin Model!BlobWays
      /\ st.ctx = <<>> /\ ~st.undefined /\ host.calls < MaxCalls /\ MaxCalls \in Nat
  BY DeploymentFacts DEF Load, Library, Callable, HasContext, Model!InlineWays, Model!BlobWays, PackageInv
<1>2. Source = pkg[1]
  BY <1>1 DEF Source
<1>3. HostInv(host) /\ StateInv(st, host) /\ st \in States
  BY DEF DeployedInv, StateInv
<1>4. /\ st' \in {Model!LoadMemory(st, Source, fail), Model!LoadFile(st, Source, fail)}
      /\ host' = [[NewHost EXCEPT !.calls = host.calls, !.careful = host.careful]
                    EXCEPT !.calls = @ + 1, !.last = "load"]
  BY <1>2 DEF Load, Call
<1>5. Viewed(host', host.calls + 1, host.careful, FALSE, FALSE, {}, {}, FALSE, "load")
  BY <1>3, <1>4 DEF Viewed, HostFields, HostInv, NewHost
<1>6. Loaded(st', st)
  BY <1>1, <1>3, <1>4, LoadMemoryFacts, LoadFileFacts
<1>7. HostInv(host')
  BY <1>1, <1>3, <1>5, HostStep DEF Viewed, HostInv
<1>8. PackedInv(st')
  BY <1>6 DEF Loaded, Fresh, PackedInv
<1>9. StateInv(st', host')
  BY <1>1, <1>3, <1>5, <1>6, <1>8, StateStep DEF Loaded, Balance, Viewed
<1>10. LibraryInv(st', host')
  BY <1>5, <1>6 DEF LibraryInv, Loaded, Fresh, Viewed, Supplied
<1>11. Delivered(st', host')
  BY <1>5, QuietCall DEF Viewed
<1>12. QED
  BY <1>1, <1>7, <1>9, <1>10, <1>11 DEF DeployedInv

\* spkv2_prepare keeps the invariant, with whatever buffers it is called.
LEMMA PrepareKeeps ==
  ASSUME PackageInv, phase = "deployed", DeployedInv(st, host), Prepare
  PROVE  DeployedInv(st', host')
<1>1. /\ way = "library" /\ way \notin Model!InlineWays /\ way \notin Model!BlobWays
      /\ st.ctx # <<>> /\ ~st.undefined /\ host.calls < MaxCalls /\ MaxCalls \in Nat
  BY DeploymentFacts DEF Prepare, Library, Callable, HasContext, Model!InlineWays, Model!BlobWays, PackageInv
<1>2. HostInv(host) /\ StateInv(st, host) /\ st \in States /\ LibraryInv(st, host) /\ PackedInv(st)
  BY <1>1 DEF DeployedInv, StateInv
<1>3. PICK arena \in Buffers, scratch \in Buffers :
        /\ st' = Model!Prepare(st, arena, scratch, fail)
        /\ host' = [[host EXCEPT !.careful = @ /\ host.last = "load",
                                 !.prepared = (st'.rc = 0), !.supplied = {}, !.bound = {},
                                 !.ran = FALSE]
                      EXCEPT !.calls = @ + 1, !.last = "prepare"]
  BY DEF Prepare, Call, Buffers
<1> DEFINE ok == st'.rc = 0
           early == host.last = "load"
<1>4. Viewed(host', host.calls + 1, host.careful /\ early, ok, host.started, {}, {}, FALSE, "prepare")
  <2>1. ok \in BOOLEAN /\ early \in BOOLEAN /\ host.careful \in BOOLEAN /\ DOMAIN host = HostFields
    BY <1>2 DEF HostInv
  <2>2. host' = [[host EXCEPT !.careful = @ /\ early, !.prepared = ok, !.supplied = {},
                              !.bound = {}, !.ran = FALSE]
                   EXCEPT !.calls = @ + 1, !.last = "prepare"]
    BY <1>3
  <2> HIDE DEF ok, early
  <2>3. QED
    BY <2>1, <2>2 DEF Viewed, HostFields
<1>5. Prepared(st', st, arena, scratch)
  BY <1>1, <1>2, <1>3, PrepareFacts
<1>6. /\ Covered(st, Own(st)) => Covered(st', Own(st'))
      /\ early => Balance(st', st)
  BY <1>1, <1>2, <1>5, PreparedBalance DEF LibraryInv
<1>7. HostInv(host')
  BY <1>1, <1>2, <1>4, HostStep DEF Viewed, HostInv
<1>8. PackedInv(st')
  BY <1>1, <1>2, <1>5 DEF Prepared, PackedInv
<1>9. StateInv(st', host')
  BY <1>1, <1>2, <1>4, <1>5, <1>6, <1>8, StateStep DEF Prepared, Follows, Balance, Viewed
<1>10. LibraryInv(st', host')
  <2>1. ok => Reachable(st', host')
    <3> SUFFICES ASSUME ok, NEW t \in 1..N
                 PROVE  ~Dangling(st', t) \/ (External(t) /\ t \notin {})
      BY <1>4 DEF Reachable, Viewed
    <3>1. st'.ctx[1].place[t] = Stored[t]
      BY <1>5 DEF Prepared
    <3>2. QED
      BY <3>1, StoredPlaces, GraphIsGood DEF Dangling
  <2>2. Supplied(st', host')
    BY <1>4 DEF Supplied, Viewed
  <2>3. Model!LoadError(Source) = 0
    BY <1>1, <1>2 DEF LibraryInv
  <2>4. QED
    BY <1>4, <2>1, <2>2, <2>3 DEF LibraryInv, Viewed
<1>11. Delivered(st', host')
  BY <1>4, QuietCall DEF Viewed
<1>12. QED
  BY <1>1, <1>7, <1>9, <1>10, <1>11 DEF DeployedInv

\* What a call of the library can rely on.
LEMMA LibraryCall ==
  ASSUME PackageInv, phase = "deployed", DeployedInv(st, host), Library, HasContext
  PROVE  /\ way = "library" /\ way \notin Model!InlineWays /\ way \notin Model!BlobWays
         /\ st.ctx # <<>> /\ ~st.undefined /\ host.calls < MaxCalls /\ MaxCalls \in Nat
         /\ HostInv(host) /\ StateInv(st, host) /\ st \in States /\ LibraryInv(st, host)
         /\ PackedInv(st)
         /\ Model!LoadError(Source) = 0 /\ Outs = g.outputs
         /\ GraphGood /\ IndicesGood /\ Ins = Inputs
         /\ st.ctx[1].place \in [1..N -> Places] /\ st.ctx[1].content \in [1..N -> Contents]
         /\ st.ctx[1].read = Found
<1>1. /\ way = "library" /\ way \notin Model!InlineWays /\ way \notin Model!BlobWays
      /\ st.ctx # <<>> /\ ~st.undefined /\ host.calls < MaxCalls /\ MaxCalls \in Nat
  BY DeploymentFacts DEF Library, Callable, HasContext, Model!InlineWays, Model!BlobWays, PackageInv
<1>2. /\ HostInv(host) /\ StateInv(st, host) /\ st \in States /\ LibraryInv(st, host)
      /\ PackedInv(st)
  BY <1>1 DEF DeployedInv, StateInv
<1>3. Model!LoadError(Source) = 0
  BY <1>1, <1>2 DEF LibraryInv
<1>4. Outs = g.outputs
  BY <1>1, <1>3, LoadedReadsBack DEF Outs
<1>5. GraphGood /\ Ins = Inputs
  BY GraphIsGood
<1>6. IndicesGood
  BY <1>5 DEF GraphGood, IndicesGood
<1>7. /\ st.ctx[1].place \in [1..N -> Places] /\ st.ctx[1].content \in [1..N -> Contents]
      /\ st.ctx[1].read = Found
  BY <1>1, <1>2, StateFields, ContextFields
<1>8. QED
  BY <1>1, <1>2, <1>3, <1>4, <1>5, <1>6, <1>7

\* An index that the model does not have: nothing happens to the context.
LEMMA RefusedKeeps ==
  ASSUME way = "library", way \notin Model!InlineWays, way \notin Model!BlobWays,
         StateInv(st, host), ~st.undefined, LibraryInv(st, host), st \in States,
         NEW a, a = Model!Returns(st, -3), NEW k, HostInv(k), ~k.careful,
         k.last # "load", k.last # "get_output", k.last # "api_run",
         k.prepared = host.prepared, k.supplied = host.supplied, k.bound = host.bound,
         k.ran => host.ran
  PROVE  DeployedInv(a, k)
<1>1. -3 \in -23..1
  OBVIOUS
<1>2. Same(a, st, -3)
  BY <1>1, ReturnsSame, Zenon
<1>3. /\ a \in States /\ a.ctx = st.ctx /\ Balance(a, st)
  BY <1>2 DEF Same
<1>4. PackedInv(a)
  BY <1>3 DEF PackedInv, StateInv
<1>5. StateInv(a, k)
  BY <1>3, <1>4, StateStep DEF Balance
<1>6. LibraryInv(a, k)
  BY <1>3 DEF LibraryInv, Reachable, Supplied, AllReachable, OutputsRight, Dangling
<1>7. Delivered(a, k)
  BY QuietCall
<1>8. QED
  BY <1>5, <1>6, <1>7 DEF DeployedInv

\* spkv2_set_input keeps the invariant, also for an index or an input it should not get.
LEMMA SetInputKeeps ==
  ASSUME PackageInv, phase = "deployed", DeployedInv(st, host), SetInput
  PROVE  DeployedInv(st', host')
<1>1. Library /\ HasContext
  BY DEF SetInput
<1>2. /\ way = "library" /\ way \notin Model!InlineWays /\ way \notin Model!BlobWays
      /\ st.ctx # <<>> /\ ~st.undefined /\ host.calls < MaxCalls /\ MaxCalls \in Nat
      /\ HostInv(host) /\ StateInv(st, host) /\ st \in States /\ LibraryInv(st, host)
      /\ PackedInv(st)
      /\ GraphGood /\ IndicesGood /\ Ins = Inputs
      /\ st.ctx[1].place \in [1..N -> Places] /\ st.ctx[1].content \in [1..N -> Contents]
  BY <1>1, LibraryCall
<1> DEFINE fit(i) == host.prepared /\ i <= Len(Inputs) /\ (External(Inputs[i]) => Inputs[i] \in host.bound)
<1>3. PICK i \in 1..(Len(Ins) + 1) :
        /\ st' = Model!SetInput(st, i)
        /\ host' = [[host EXCEPT !.careful = @ /\ fit(i),
                                 !.supplied = IF fit(i) THEN @ \cup {i} ELSE @]
                      EXCEPT !.calls = @ + 1, !.last = "set_input"]
  BY <1>2 DEF SetInput, Call
<1> DEFINE usable == fit(i)
           supplied == IF usable THEN host.supplied \cup {i} ELSE host.supplied
<1>4. Viewed(host', host.calls + 1, host.careful /\ usable, host.prepared, host.started, supplied,
             host.bound, host.ran, "set_input")
  <2>1. usable \in BOOLEAN /\ host.careful \in BOOLEAN /\ DOMAIN host = HostFields
    BY <1>2 DEF HostInv
  <2>2. host' = [[host EXCEPT !.careful = @ /\ usable, !.supplied = IF usable THEN @ \cup {i} ELSE @]
                   EXCEPT !.calls = @ + 1, !.last = "set_input"]
    BY <1>3
  <2> HIDE DEF usable
  <2>3. QED
    BY <2>1, <2>2 DEF Viewed, HostFields
<1>5. /\ DOMAIN Ins = 1..Len(Ins) /\ Len(Ins) \in Nat
      /\ usable => i \in DOMAIN Ins /\ host.prepared /\ (External(Ins[i]) => Ins[i] \in host.bound)
  BY <1>2, <1>3 DEF GraphGood
<1> HIDE DEF usable
<1>6. HostInv(host')
  BY <1>2, <1>4, <1>5, HostStep DEF Viewed, HostInv
<1> HIDE DEF supplied
<1>7. CASE i \notin DOMAIN Ins
  <2>1. st' = Model!Returns(st, -3)
    BY <1>2, <1>3, <1>7, SetInputFacts
  <2>2. ~usable /\ supplied = host.supplied
    BY <1>5, <1>7 DEF supplied
  <2>3. QED
    BY <1>2, <1>4, <1>6, <2>1, <2>2, RefusedKeeps DEF Viewed
<1>8. CASE i \in DOMAIN Ins
  <2> DEFINE c == st.ctx[1]
             d == st'.ctx[1]
  <2>1. /\ Changed(st', st, c.place, [c.content EXCEPT ![Ins[i]] = "fresh"])
        /\ ~Dangling(st, Ins[i]) => st'.undefined = st.undefined
    BY <1>2, <1>3, <1>8, SetInputFacts
  <2>2. /\ st' \in States /\ st'.ctx # <<>> /\ d.place = c.place
        /\ d.content = [c.content EXCEPT ![Ins[i]] = "fresh"]
        /\ Balance(st', st) /\ d.packed = c.packed
    BY <1>2, <2>1, ChangedBalance DEF Changed
  <2>3. PackedInv(st')
    BY <1>2, <2>2 DEF PackedInv
  <2>4. Ins[i] \in 1..N /\ Role(Ins[i]) = "INPUT"
    BY <1>2, <1>8 DEF GraphGood
  <2>5. host'.careful => ~Dangling(st, Ins[i])
    BY <1>2, <1>4, <1>5, <2>4 DEF Viewed, LibraryInv, Reachable
  <2>6. StateInv(st', host')
    BY <1>2, <1>4, <2>1, <2>2, <2>3, <2>5, StateStep DEF Balance, Viewed
  <2>7. LibraryInv(st', host')
    <3>1. \A t \in 1..N : Dangling(st', t) <=> Dangling(st, t)
      BY <2>2 DEF Dangling
    <3>2. \A t \in 1..N : d.content[t] = IF t = Ins[i] THEN "fresh" ELSE c.content[t]
      BY <1>2, <2>2, <2>4
    <3>3. host.prepared => Reachable(st', host')
      BY <1>2, <1>4, <3>1 DEF LibraryInv, Reachable, Viewed
    <3>4. Supplied(st', host')
      <4>1. Supplied(st, host)
        BY <1>2 DEF LibraryInv
      <4>2. \A j \in supplied : j \in DOMAIN Ins /\ Ins[j] \in 1..N /\ (j = i \/ j \in host.supplied)
        BY <1>2, <1>8 DEF supplied, HostInv, GraphGood
      <4>3. \A j \in supplied : d.content[Ins[j]] = "fresh"
        BY <3>2, <4>1, <4>2 DEF Supplied
      <4>4. QED
        BY <1>4, <2>2, <4>1, <4>3 DEF Supplied, Viewed
    <3>5. host.ran => AllReachable(st') /\ (Source.weights = "stored" => OutputsRight(st'))
      BY <1>2, <2>4, <3>1, <3>2 DEF LibraryInv, AllReachable, OutputsRight
    <3>6. QED
      BY <1>2, <1>4, <3>3, <3>4, <3>5 DEF LibraryInv, Viewed
  <2>8. Delivered(st', host')
    BY <1>4, QuietCall DEF Viewed
  <2>9. QED
    BY <1>2, <1>6, <2>6, <2>7, <2>8 DEF DeployedInv
<1>9. QED
  BY <1>7, <1>8

\* spkv2_bind_input keeps the invariant.
LEMMA BindInputKeeps ==
  ASSUME PackageInv, phase = "deployed", DeployedInv(st, host), BindInput
  PROVE  DeployedInv(st', host')
<1>1. Library /\ HasContext
  BY DEF BindInput
<1>2. /\ way = "library" /\ way \notin Model!InlineWays /\ way \notin Model!BlobWays
      /\ st.ctx # <<>> /\ ~st.undefined /\ host.calls < MaxCalls /\ MaxCalls \in Nat
      /\ HostInv(host) /\ StateInv(st, host) /\ st \in States /\ LibraryInv(st, host)
      /\ PackedInv(st)
      /\ GraphGood /\ IndicesGood /\ Ins = Inputs
      /\ st.ctx[1].place \in [1..N -> Places] /\ st.ctx[1].content \in [1..N -> Contents]
  BY <1>1, LibraryCall
<1> DEFINE fit(i) == host.prepared /\ i <= Len(Inputs)
<1>3. PICK i \in 1..(Len(Ins) + 1) :
        /\ st' = Model!BindInput(st, i)
        /\ host' = [[host EXCEPT !.careful = @ /\ fit(i),
                                 !.supplied = IF fit(i) THEN @ \cup {i} ELSE @,
                                 !.bound = IF fit(i) THEN @ \cup {Inputs[i]} ELSE @]
                      EXCEPT !.calls = @ + 1, !.last = "bind_input"]
  BY <1>2 DEF BindInput, Call
<1> DEFINE usable == fit(i)
           supplied == IF usable THEN host.supplied \cup {i} ELSE host.supplied
           bound == IF usable THEN host.bound \cup {Ins[i]} ELSE host.bound
<1>4. Viewed(host', host.calls + 1, host.careful /\ usable, host.prepared, host.started, supplied,
             bound, host.ran, "bind_input")
  <2>1. usable \in BOOLEAN /\ host.careful \in BOOLEAN /\ DOMAIN host = HostFields
    BY <1>2 DEF HostInv
  <2>2. host' = [[host EXCEPT !.careful = @ /\ usable, !.supplied = IF usable THEN @ \cup {i} ELSE @,
                              !.bound = IF usable THEN @ \cup {Ins[i]} ELSE @]
                   EXCEPT !.calls = @ + 1, !.last = "bind_input"]
    BY <1>2, <1>3
  <2> HIDE DEF usable
  <2>3. QED
    BY <2>1, <2>2 DEF Viewed, HostFields
<1>5. /\ DOMAIN Ins = 1..Len(Ins) /\ Len(Ins) \in Nat
      /\ usable => i \in DOMAIN Ins /\ host.prepared
  BY <1>2, <1>3 DEF GraphGood
<1> HIDE DEF usable
<1>6. i \in DOMAIN Ins => Ins[i] \in 1..N /\ Role(Ins[i]) = "INPUT"
  BY <1>2 DEF GraphGood
<1>7. HostInv(host')
  BY <1>2, <1>4, <1>5, <1>6, HostStep DEF Viewed, HostInv
<1> HIDE DEF supplied, bound
<1>8. CASE i \notin DOMAIN Ins
  <2>1. st' = Model!Returns(st, -3)
    BY <1>2, <1>3, <1>8, BindInputFacts
  <2>2. ~usable /\ supplied = host.supplied /\ bound = host.bound
    BY <1>5, <1>8 DEF supplied, bound
  <2>3. QED
    BY <1>2, <1>4, <1>7, <2>1, <2>2, RefusedKeeps DEF Viewed
<1>9. CASE i \in DOMAIN Ins
  <2> DEFINE c == st.ctx[1]
             d == st'.ctx[1]
  <2>1. /\ Changed(st', st, [c.place EXCEPT ![Ins[i]] = "host"], [c.content EXCEPT ![Ins[i]] = "fresh"])
        /\ st'.undefined = st.undefined
    BY <1>2, <1>3, <1>9, BindInputFacts DEF Bound
  <2>2. /\ st' \in States /\ st'.ctx # <<>>
        /\ d.place = [c.place EXCEPT ![Ins[i]] = "host"]
        /\ d.content = [c.content EXCEPT ![Ins[i]] = "fresh"]
        /\ Balance(st', st) /\ d.packed = c.packed
    BY <1>2, <2>1, ChangedBalance DEF Changed
  <2>3. PackedInv(st')
    BY <1>2, <2>2 DEF PackedInv
  <2>4. StateInv(st', host')
    BY <1>2, <1>4, <2>1, <2>2, <2>3, StateStep DEF Balance, Viewed
  <2>5. LibraryInv(st', host')
    <3>1. \A t \in 1..N : /\ d.content[t] = IF t = Ins[i] THEN "fresh" ELSE c.content[t]
                          /\ d.place[t] = IF t = Ins[i] THEN "host" ELSE c.place[t]
      BY <1>2, <1>6, <1>9, <2>2
    <3>2. \A t \in 1..N : Dangling(st', t) => Dangling(st, t) /\ t # Ins[i]
      BY <3>1 DEF Dangling
    <3>3. \A t \in bound : t = Ins[i] \/ t \in host.bound
      BY DEF bound
    <3>4. host.prepared => Reachable(st', host')
      BY <1>2, <1>4, <3>2, <3>3 DEF LibraryInv, Reachable, Viewed
    <3>5. Supplied(st', host')
      <4>1. Supplied(st, host)
        BY <1>2 DEF LibraryInv
      <4>2. \A j \in supplied : j \in DOMAIN Ins /\ Ins[j] \in 1..N /\ (j = i \/ j \in host.supplied)
        BY <1>2, <1>9 DEF supplied, HostInv, GraphGood
      <4>3. \A j \in supplied : d.content[Ins[j]] = "fresh"
        BY <3>1, <4>1, <4>2 DEF Supplied
      <4>4. \A t \in bound : t \in 1..N /\ d.place[t] = "host"
        BY <1>2, <1>6, <1>9, <3>1, <3>3, <4>1 DEF Supplied, HostInv
      <4>5. QED
        BY <1>4, <4>3, <4>4 DEF Supplied, Viewed
    <3>6. host.ran => AllReachable(st') /\ (Source.weights = "stored" => OutputsRight(st'))
      BY <1>2, <1>6, <1>9, <3>1, <3>2 DEF LibraryInv, AllReachable, OutputsRight
    <3>7. QED
      BY <1>2, <1>4, <3>4, <3>5, <3>6 DEF LibraryInv, Viewed
  <2>6. Delivered(st', host')
    BY <1>4, QuietCall DEF Viewed
  <2>7. QED
    BY <1>2, <1>7, <2>4, <2>5, <2>6 DEF DeployedInv
<1>10. QED
  BY <1>8, <1>9

\* spkv2_bind_output keeps the invariant; what a run left there is no output any more.
LEMMA BindOutputKeeps ==
  ASSUME PackageInv, phase = "deployed", DeployedInv(st, host), BindOutput
  PROVE  DeployedInv(st', host')
<1>1. Library /\ HasContext
  BY DEF BindOutput
<1>2. /\ way = "library" /\ way \notin Model!InlineWays /\ way \notin Model!BlobWays
      /\ st.ctx # <<>> /\ ~st.undefined /\ host.calls < MaxCalls /\ MaxCalls \in Nat
      /\ HostInv(host) /\ StateInv(st, host) /\ st \in States /\ LibraryInv(st, host)
      /\ PackedInv(st) /\ Outs = g.outputs
      /\ GraphGood /\ IndicesGood
      /\ st.ctx[1].place \in [1..N -> Places] /\ st.ctx[1].content \in [1..N -> Contents]
  BY <1>1, LibraryCall
<1> DEFINE fit(i) == host.prepared /\ i <= Len(g.outputs)
<1>3. PICK i \in 1..(Len(Outs) + 1) :
        /\ st' = Model!BindOutput(st, i)
        /\ host' = [[host EXCEPT !.careful = @ /\ fit(i), !.ran = FALSE,
                                 !.bound = IF fit(i) THEN @ \cup {g.outputs[i]} ELSE @]
                      EXCEPT !.calls = @ + 1, !.last = "bind_output"]
  BY <1>2 DEF BindOutput, Call
<1> DEFINE usable == fit(i)
           bound == IF usable THEN host.bound \cup {Outs[i]} ELSE host.bound
<1>4. Viewed(host', host.calls + 1, host.careful /\ usable, host.prepared, host.started,
             host.supplied, bound, FALSE, "bind_output")
  <2>1. usable \in BOOLEAN /\ host.careful \in BOOLEAN /\ DOMAIN host = HostFields
    BY <1>2 DEF HostInv
  <2>2. host' = [[host EXCEPT !.careful = @ /\ usable, !.ran = FALSE,
                              !.bound = IF usable THEN @ \cup {Outs[i]} ELSE @]
                   EXCEPT !.calls = @ + 1, !.last = "bind_output"]
    BY <1>2, <1>3
  <2> HIDE DEF usable
  <2>3. QED
    BY <2>1, <2>2 DEF Viewed, HostFields
<1>5. /\ DOMAIN Outs = 1..Len(Outs) /\ Len(Outs) \in Nat
      /\ usable => i \in DOMAIN Outs /\ host.prepared
  BY <1>2, <1>3 DEF GraphGood
<1> HIDE DEF usable
<1>6. i \in DOMAIN Outs => Outs[i] \in 1..N /\ Role(Outs[i]) = "OUTPUT"
  BY <1>2 DEF GraphGood
<1>7. HostInv(host')
  BY <1>2, <1>4, <1>5, <1>6, HostStep DEF Viewed, HostInv
<1> HIDE DEF bound
<1>8. CASE i \notin DOMAIN Outs
  <2>1. st' = Model!Returns(st, -3)
    BY <1>2, <1>3, <1>8, BindOutputFacts
  <2>2. ~usable /\ bound = host.bound
    BY <1>5, <1>8 DEF bound
  <2>3. QED
    BY <1>2, <1>4, <1>7, <2>1, <2>2, RefusedKeeps DEF Viewed
<1>9. CASE i \in DOMAIN Outs
  <2> DEFINE c == st.ctx[1]
             d == st'.ctx[1]
  <2>1. /\ Changed(st', st, [c.place EXCEPT ![Outs[i]] = "host"], [c.content EXCEPT ![Outs[i]] = "none"])
        /\ st'.undefined = st.undefined
    BY <1>2, <1>3, <1>9, BindOutputFacts DEF Bound
  <2>2. /\ st' \in States /\ st'.ctx # <<>>
        /\ d.place = [c.place EXCEPT ![Outs[i]] = "host"]
        /\ d.content = [c.content EXCEPT ![Outs[i]] = "none"]
        /\ Balance(st', st) /\ d.packed = c.packed
    BY <1>2, <2>1, ChangedBalance DEF Changed
  <2>3. PackedInv(st')
    BY <1>2, <2>2 DEF PackedInv
  <2>4. StateInv(st', host')
    BY <1>2, <1>4, <2>1, <2>2, <2>3, StateStep DEF Balance, Viewed
  <2>5. LibraryInv(st', host')
    <3>1. \A t \in 1..N : /\ d.content[t] = IF t = Outs[i] THEN "none" ELSE c.content[t]
                          /\ d.place[t] = IF t = Outs[i] THEN "host" ELSE c.place[t]
      BY <1>2, <1>6, <1>9, <2>2
    <3>2. \A t \in 1..N : Dangling(st', t) => Dangling(st, t) /\ t # Outs[i]
      BY <3>1 DEF Dangling
    <3>3. \A t \in bound : t = Outs[i] \/ t \in host.bound
      BY DEF bound
    <3>4. host.prepared => Reachable(st', host')
      BY <1>2, <1>4, <3>2, <3>3 DEF LibraryInv, Reachable, Viewed
    <3>5. Supplied(st', host')
      <4>1. Supplied(st, host)
        BY <1>2 DEF LibraryInv
      <4>2. \A j \in host.supplied : j \in DOMAIN Ins /\ Ins[j] \in 1..N /\ Ins[j] # Outs[i]
        BY <1>2, <1>6, <1>9 DEF HostInv, GraphGood
      <4>3. \A j \in host.supplied : d.content[Ins[j]] = "fresh"
        BY <3>1, <4>1, <4>2 DEF Supplied
      <4>4. \A t \in bound : t \in 1..N /\ d.place[t] = "host"
        BY <1>2, <1>6, <1>9, <3>1, <3>3, <4>1 DEF Supplied, HostInv
      <4>5. QED
        BY <1>4, <4>3, <4>4 DEF Supplied, Viewed
    <3>6. QED
      BY <1>2, <1>4, <3>4, <3>5 DEF LibraryInv, Viewed
  <2>6. Delivered(st', host')
    BY <1>4, QuietCall DEF Viewed
  <2>7. QED
    BY <1>2, <1>7, <2>4, <2>5, <2>6 DEF DeployedInv
<1>10. QED
  BY <1>8, <1>9

\* spkv2_run keeps the invariant; with every input supplied the outputs are right.
LEMMA RunKeeps ==
  ASSUME PackageInv, phase = "deployed", DeployedInv(st, host), Run
  PROVE  DeployedInv(st', host')
<1>1. Library /\ HasContext
  BY DEF Run
<1>2. /\ way = "library" /\ way \notin Model!InlineWays /\ way \notin Model!BlobWays
      /\ st.ctx # <<>> /\ ~st.undefined /\ host.calls < MaxCalls /\ MaxCalls \in Nat
      /\ HostInv(host) /\ StateInv(st, host) /\ st \in States /\ LibraryInv(st, host)
      /\ PackedInv(st) /\ Model!LoadError(Source) = 0
      /\ GraphGood /\ IndicesGood /\ Ins = Inputs
      /\ st.ctx[1].place \in [1..N -> Places] /\ st.ctx[1].content \in [1..N -> Contents]
  BY <1>1, LibraryCall
<1> DEFINE usable == /\ host.prepared
                     /\ host.supplied = 1..Len(Inputs)
                     /\ \A t \in DOMAIN g.tensors : External(t) => t \in host.bound
           supplied == {i \in host.supplied : Inputs[i] \in host.bound}
           c == st.ctx[1]
           d == st'.ctx[1]
<1>3. /\ st' = Model!Execute(st)
      /\ host' = [[host EXCEPT !.careful = @ /\ usable, !.ran = usable,
                               !.supplied = {i \in @ : Inputs[i] \in host.bound}]
                    EXCEPT !.calls = @ + 1, !.last = "run"]
  BY DEF Run, Call
<1>4. Viewed(host', host.calls + 1, host.careful /\ usable, host.prepared, host.started, supplied,
             host.bound, usable, "run")
  <2>1. usable \in BOOLEAN /\ host.careful \in BOOLEAN /\ DOMAIN host = HostFields
    BY <1>2 DEF HostInv
  <2>2. host' = [[host EXCEPT !.careful = @ /\ usable, !.ran = usable, !.supplied = supplied]
                   EXCEPT !.calls = @ + 1, !.last = "run"]
    <3>1. "supplied" \in DOMAIN [host EXCEPT !.careful = @ /\ usable, !.ran = usable]
          /\ [host EXCEPT !.careful = @ /\ usable, !.ran = usable].supplied = host.supplied
      BY <2>1 DEF HostFields
    <3> HIDE DEF usable
    <3>2. QED
      BY <1>3, <3>1
  <2> HIDE DEF usable, supplied
  <2>3. QED
    BY <2>1, <2>2 DEF Viewed, HostFields
<1>5. usable => AllReachable(st) /\ host.supplied = DOMAIN Ins
  BY <1>2, GraphIsGood DEF LibraryInv, Reachable, AllReachable
<1>6. supplied \subseteq host.supplied /\ usable \in BOOLEAN
  OBVIOUS
<1>7. \A i \in supplied : Ins[i] \in host.bound
  BY <1>2
<1> HIDE DEF usable, supplied
<1>8. HostInv(host')
  BY <1>2, <1>4, <1>6, HostStep DEF Viewed, HostInv
<1>9. \/ (st' = Model!Returns(st, -5) \/ st' = Model!Undefined(st)) /\ ~AllReachable(st)
      \/ Executed(st', st) /\ AllReachable(st)
  BY <1>2, <1>3, ExecuteFacts DEF AllReachable
<1>10. Delivered(st', host')
  BY <1>4, QuietCall DEF Viewed
<1>11. CASE (st' = Model!Returns(st, -5) \/ st' = Model!Undefined(st)) /\ ~AllReachable(st)
  <2>1. st' \in States /\ st'.ctx = st.ctx /\ Balance(st', st)
    <3>1. -5 \in -23..1
      OBVIOUS
    <3>2. QED
      BY <1>2, <1>11, <3>1, UndefinedFacts, ReturnsFacts
  <2>2. ~usable
    BY <1>5, <1>11
  <2>3. PackedInv(st')
    BY <1>2, <2>1 DEF PackedInv
  <2>4. StateInv(st', host')
    BY <1>2, <1>4, <2>1, <2>2, <2>3, StateStep DEF Balance, Viewed
  <2>5. LibraryInv(st', host')
    BY <1>2, <1>4, <1>6, <2>1, <2>2 DEF LibraryInv, Reachable, Supplied, Dangling, Viewed
  <2>6. QED
    BY <1>2, <1>8, <1>10, <2>4, <2>5 DEF DeployedInv
<1>12. CASE Executed(st', st) /\ AllReachable(st)
  <2>1. /\ st' \in States /\ st'.ctx # <<>> /\ PackedInv(st') /\ Balance(st', st)
        /\ st'.undefined = st.undefined
        /\ d.place = c.place /\ d.content = Computed(c)
    BY <1>2, <1>12 DEF Executed
  <2>2. StateInv(st', host')
    BY <1>2, <1>4, <2>1, StateStep DEF Balance, Viewed
  <2>3. Supplied(st', host')
    <3>1. Supplied(st, host)
      BY <1>2 DEF LibraryInv
    <3>2. ASSUME NEW i \in supplied PROVE d.content[Ins[i]] = "fresh"
      <4>1. Ins[i] \in 1..N /\ Role(Ins[i]) = "INPUT"
        BY <1>2, <1>6 DEF GraphGood, HostInv
      <4>2. c.place[Ins[i]] = "host" /\ c.content[Ins[i]] = "fresh"
        BY <1>6, <1>7, <3>1 DEF Supplied
      <4>3. "INPUT" # "OUTPUT" /\ "host" # "arena"
        OBVIOUS
      <4>4. QED
        BY <2>1, <4>1, <4>2, <4>3 DEF Computed
    <3>3. QED
      BY <1>4, <2>1, <3>1, <3>2 DEF Supplied, Viewed
  <2>4. ASSUME usable, Source.weights = "stored" PROVE OutputsRight(st')
    <3>1. \A t \in 1..N : Role(t) = "INPUT" => c.content[t] = "fresh"
      BY <1>2, <1>5, <2>4 DEF LibraryInv, Supplied, GraphGood
    <3>2. c.weights = Source.weights
      BY <1>2, StateFields, ContextFields
    <3>3. Good(c)
      BY <2>4, <3>1, <3>2 DEF Good
    <3>4. QED
      BY <2>1, <3>3 DEF OutputsRight, Computed
  <2>5. LibraryInv(st', host')
    <3>1. \A t \in 1..N : ~Dangling(st', t)
      BY <1>12, <2>1 DEF AllReachable, Dangling
    <3>2. QED
      BY <1>2, <1>4, <2>3, <2>4, <3>1 DEF LibraryInv, Reachable, AllReachable, Viewed
  <2>6. QED
    BY <1>2, <1>8, <1>10, <2>2, <2>5 DEF DeployedInv
<1>13. QED
  BY <1>9, <1>11, <1>12

\* spkv2_get_output keeps the invariant, and gives the right output after such a run.
LEMMA GetOutputKeeps ==
  ASSUME PackageInv, phase = "deployed", DeployedInv(st, host), GetOutput
  PROVE  DeployedInv(st', host')
<1>1. Library /\ HasContext
  BY DEF GetOutput
<1>2. /\ way = "library" /\ way \notin Model!InlineWays /\ way \notin Model!BlobWays
      /\ st.ctx # <<>> /\ ~st.undefined /\ host.calls < MaxCalls /\ MaxCalls \in Nat
      /\ HostInv(host) /\ StateInv(st, host) /\ st \in States /\ LibraryInv(st, host)
      /\ PackedInv(st) /\ Model!LoadError(Source) = 0 /\ Outs = g.outputs
      /\ GraphGood
      /\ st.ctx[1].read = Found
  BY <1>1, LibraryCall
<1>3. PICK i \in 1..(Len(Outs) + 1) :
        /\ st' = Model!GetOutput(st, i)
        /\ host' = [[host EXCEPT !.careful = @ /\ host.ran /\ i <= Len(g.outputs),
                                 !.delivered = <<i, Read(st, i)>>]
                      EXCEPT !.calls = @ + 1, !.last = "get_output"]
  BY <1>2 DEF GetOutput, Call
<1> DEFINE careful == host.careful /\ host.ran /\ i <= Len(g.outputs)
<1>4. /\ Viewed(host', host.calls + 1, careful, host.prepared, host.started, host.supplied,
                host.bound, host.ran, "get_output")
      /\ host'.delivered = <<i, Read(st, i)>>
  <2>1. careful \in BOOLEAN /\ DOMAIN host = HostFields
    BY <1>2 DEF HostInv
  <2>2. host' = [[host EXCEPT !.careful = careful, !.delivered = <<i, Read(st, i)>>]
                   EXCEPT !.calls = @ + 1, !.last = "get_output"]
    BY <1>3, <2>1 DEF HostFields
  <2> DEFINE got == <<i, Read(st, i)>>
  <2> HIDE DEF careful, got
  <2>3. host' = [[host EXCEPT !.careful = careful, !.delivered = got]
                   EXCEPT !.calls = @ + 1, !.last = "get_output"]
    BY <2>2 DEF got
  <2>4. QED
    BY <2>1, <2>3 DEF Viewed, HostFields, got
<1>5. careful \in BOOLEAN /\ (careful => i \in DOMAIN Outs /\ host.careful /\ host.ran)
  BY <1>2, <1>3 DEF GraphGood
<1> HIDE DEF careful
<1>6. HostInv(host')
  BY <1>2, <1>4, <1>5, HostStep DEF Viewed, HostInv
<1>7. /\ st' \in States /\ st'.ctx = st.ctx /\ Balance(st', st)
      /\ (i \in DOMAIN Outs => ~Dangling(st, Outs[i])) => st'.undefined = st.undefined
  BY <1>2, <1>3, GetOutputFacts
<1>8. PackedInv(st')
  BY <1>2, <1>7 DEF PackedInv
<1>9. careful => ~Dangling(st, Outs[i]) /\ Outs[i] \in 1..N /\ Role(Outs[i]) = "OUTPUT"
  BY <1>2, <1>5 DEF LibraryInv, AllReachable, GraphGood
<1>10. StateInv(st', host')
  BY <1>2, <1>4, <1>5, <1>7, <1>8, <1>9, StateStep DEF Balance, Viewed
<1>11. LibraryInv(st', host')
  BY <1>2, <1>4, <1>7 DEF LibraryInv, Reachable, AllReachable, OutputsRight, Supplied, Dangling, Viewed
<1>12. Delivered(st', host')
  <2> SUFFICES ASSUME careful, deployment.damage = "none"
               PROVE  host'.delivered = <<i, <<g.outputs[i], "right">>>>
    BY <1>4 DEF Delivered, Viewed
  <2>1. Source.weights = "stored"
    BY <1>2, LoadableSource
  <2>2. st.ctx[1].content[Outs[i]] = "right"
    BY <1>2, <1>5, <1>9, <2>1 DEF LibraryInv, OutputsRight
  <2>3. Read(st, i) = <<Outs[i], "right">>
    BY <1>2, <1>5, <2>2 DEF Read, Outs
  <2>4. QED
    BY <1>2, <1>4, <2>3
<1>13. QED
  BY <1>2, <1>6, <1>10, <1>11, <1>12 DEF DeployedInv

\* spkv2_free keeps the invariant: what was owned is back.
LEMMA FreeKeeps ==
  ASSUME PackageInv, phase = "deployed", DeployedInv(st, host), Free
  PROVE  DeployedInv(st', host')
<1>1. Library /\ HasContext
  BY DEF Free
<1>2. /\ way = "library" /\ way \notin Model!InlineWays /\ way \notin Model!BlobWays
      /\ ~st.undefined /\ host.calls < MaxCalls /\ MaxCalls \in Nat
      /\ HostInv(host) /\ StateInv(st, host) /\ st \in States
  BY <1>1, LibraryCall
<1>3. st' = Model!Free(st) /\ host' = [host EXCEPT !.calls = @ + 1, !.last = "free"]
  BY DEF Free, Call
<1>4. Viewed(host', host.calls + 1, host.careful, host.prepared, host.started, host.supplied,
             host.bound, host.ran, "free")
  BY <1>2, <1>3 DEF Viewed, HostInv, HostFields
<1>5. HostInv(host')
  BY <1>2, <1>4, HostStep DEF Viewed, HostInv
<1>6. st' \in States /\ st'.ctx = <<>> /\ st'.undefined = st.undefined /\ Balance(st', st)
  BY <1>2, <1>3, FreeFacts
<1>7. PackedInv(st') /\ LibraryInv(st', host')
  BY <1>6 DEF PackedInv, LibraryInv
<1>8. StateInv(st', host')
  BY <1>2, <1>4, <1>6, <1>7, StateStep DEF Balance, Viewed
<1>9. Delivered(st', host')
  BY <1>4, QuietCall DEF Viewed
<1>10. QED
  BY <1>2, <1>5, <1>7, <1>8, <1>9 DEF DeployedInv

-----------------------------------------------------------------------------
(* The calls of a generated program.                                       *)

\* What such a call can rely on.
LEMMA GeneratedCall ==
  ASSUME PackageInv, phase = "deployed", DeployedInv(st, host), Generated
  PROVE  /\ way # "library" /\ way \in Model!BlobWays \cup Model!InlineWays
         /\ way \in Model!BlobWays <=> way \notin Model!InlineWays
         /\ ~st.undefined /\ host.calls < MaxCalls /\ MaxCalls \in Nat
         /\ HostInv(host) /\ StateInv(st, host)
         /\ way \in Model!BlobWays => BlobInv(st)
         /\ way \in Model!InlineWays => InlineHost(st, host) /\ InlineInv(st)
         /\ ProgramMade
         /\ GraphGood /\ Ins = Inputs /\ Len(Outs) = Len(g.outputs)
<1>1. /\ way # "library" /\ ~st.undefined /\ host.calls < MaxCalls /\ MaxCalls \in Nat
      /\ way \in Model!BlobWays \cup Model!InlineWays
  BY DeploymentFacts DEF Generated, Callable, PackageInv
<1>2. way \in Model!BlobWays <=> way \notin Model!InlineWays
  BY <1>1 DEF Model!BlobWays, Model!InlineWays
<1>3. /\ HostInv(host) /\ StateInv(st, host)
      /\ way \in Model!BlobWays => BlobInv(st)
      /\ way \in Model!InlineWays => InlineHost(st, host) /\ InlineInv(st)
  BY DEF DeployedInv, InlineHost
<1>4. ProgramMade
  BY <1>1, DeployedProgram
<1>5. GraphGood /\ Ins = Inputs /\ Len(Outs) = Len(g.outputs)
  BY GraphIsGood
<1>6. QED
  BY <1>1, <1>2, <1>3, <1>4, <1>5

\* model_init keeps the invariant, whatever the weights file does.
LEMMA ApiInitKeeps ==
  ASSUME PackageInv, phase = "deployed", DeployedInv(st, host), ApiInit
  PROVE  DeployedInv(st', host')
<1>1. /\ way # "library" /\ way \in Model!BlobWays \cup Model!InlineWays
      /\ way \in Model!BlobWays <=> way \notin Model!InlineWays
      /\ ~st.undefined /\ host.calls < MaxCalls /\ MaxCalls \in Nat
      /\ HostInv(host) /\ StateInv(st, host)
      /\ way \in Model!BlobWays => BlobInv(st)
      /\ way \in Model!InlineWays => InlineHost(st, host) /\ InlineInv(st)
      /\ ProgramMade
      /\ GraphGood
  BY GeneratedCall DEF ApiInit
<1>2. PICK file, outcome :
        /\ st' = Model!ModelInit(st, prog[1], file, fail, outcome)
        /\ host' = [[host EXCEPT !.started = TRUE, !.file = file]
                      EXCEPT !.calls = @ + 1, !.last = "init"]
  BY DEF ApiInit, Call
<1>3. Viewed(host', host.calls + 1, host.careful, host.prepared, TRUE, host.supplied,
             host.bound, host.ran, "init")
  BY <1>1, <1>2 DEF Viewed, HostInv, HostFields
<1>4. HostInv(host')
  BY <1>1, <1>3, HostStep DEF Viewed, HostInv
<1>5. Delivered(st', host')
  BY <1>3, QuietCall DEF Viewed
<1>6. CASE way \in Model!BlobWays
  <2>1. /\ way \notin Model!InlineWays /\ BlobInv(st) /\ st \in States /\ PackedInv(st)
        /\ prog[1].pkg = Source /\ prog[1].way \in {"blob", "blobExternal"}
        /\ prog[1].way = "blobExternal" => way = "blobExternal"
    BY <1>1, <1>6 DEF BlobInv, ProgramMade, Model!BlobWays
  <2>2. \/ BlobReady(st', st)
        \/ way = "blobExternal" /\ st' = Model!Undefined(st)
    <3>1. CASE prog[1].way = "blob"
      <4>1. st' = Model!BlobInit(st, prog[1], fail)
        BY <1>2, <3>1 DEF Model!ModelInit, Model!InlineWays
      <4>2. QED
        BY <2>1, <4>1, BlobInitFacts
    <3>2. CASE prog[1].way = "blobExternal"
      <4>1. st' = Model!BlobExternalInit(st, prog[1], file, fail, outcome)
        BY <1>2, <3>2 DEF Model!ModelInit, Model!InlineWays
      <4>2. QED
        BY <2>1, <3>2, <4>1, BlobExternalInitFacts
    <3>3. QED
      BY <2>1, <3>1, <3>2
  <2>3. /\ BlobInv(st') /\ Balance(st', st)
        /\ st'.undefined = st.undefined \/ way = "blobExternal"
    <3>1. CASE BlobReady(st', st)
      BY <1>1, <2>1, <3>1, BlobReadyInv DEF BlobReady
    <3>2. CASE way = "blobExternal" /\ st' = Model!Undefined(st)
      <4>1. st' \in States /\ st'.ctx = st.ctx /\ Balance(st', st)
        BY <2>1, <3>2, UndefinedFacts
      <4>2. QED
        BY <2>1, <3>2, <4>1 DEF BlobInv, PackedInv, Placement
    <3>3. QED
      BY <2>2, <3>1, <3>2
  <2>4. StateInv(st', host')
    BY <1>1, <1>3, <2>3, StateStep DEF Balance, Viewed, BlobInv
  <2>5. QED
    BY <1>1, <1>4, <1>5, <1>6, <2>3, <2>4 DEF DeployedInv
<1>7. CASE way \in Model!InlineWays
  <2>1. InlineInv(st) /\ InlineHost(st, host) /\ prog[1].pkg = Source /\ prog[1].way = way
    BY <1>1, <1>7 DEF ProgramMade
  <2>2. st' = Model!InlineInit(st, prog[1], file, fail)
    <3>1. prog[1].way # "blob" /\ prog[1].way # "blobExternal"
      BY <1>7, <2>1 DEF Model!InlineWays
    <3>2. QED
      BY <1>2, <1>7, <2>1, <3>1 DEF Model!ModelInit
  <2>3. InlineReady(st', st)
    BY <1>1, <1>7, <2>1, <2>2, InlineInitFacts
  <2>4. StateInv(st', host')
    BY <1>1, <1>3, <2>3, StateStep DEF Balance, Viewed, InlineReady, InlineInv
  <2>5. InlineHost(st', host')
    BY <1>3, <2>1, <2>3 DEF InlineHost, InlineReady, Viewed
  <2>6. QED
    BY <1>1, <1>4, <1>5, <1>7, <2>4, <2>5 DEF DeployedInv
<1>8. QED
  BY <1>1, <1>6, <1>7

\* A call that runs the model lets go of its buffers, and of nothing else.
LEMMA DetachedKeeps ==
  ASSUME NEW s, s \in States, PackedInv(s), NEW a, a = Model!Detached(s)
  PROVE  /\ a \in States /\ PackedInv(a) /\ Balance(a, s)
         /\ a.rc = s.rc /\ a.undefined = s.undefined /\ a.ready = s.ready
         /\ BlobInv(s) => BlobInv(a)
         /\ InlineInv(s) => InlineInv(a) /\ (PackedReady(s) => PackedReady(a))
<1>1. CASE s.ctx = <<>>
  <2>1. a = s
    BY <1>1, DetachedFacts
  <2>2. QED
    BY <2>1 DEF Balance
<1>2. CASE s.ctx # <<>>
  <2>1. /\ Changed(a, s, DetachedPlace(s.ctx[1]), s.ctx[1].content)
        /\ a.rc = s.rc /\ a.undefined = s.undefined
    BY <1>2, DetachedFacts
  <2>2. /\ a \in States /\ a.ctx # <<>> /\ a.ready = s.ready
        /\ Balance(a, s) /\ a.ctx[1].packed = s.ctx[1].packed
    BY <1>2, <2>1, ChangedBalance DEF Changed
  <2>3. Placement(s) => Placement(a)
    BY <2>1, DetachedPlacement
  <2>4. PackedInv(a)
    BY <1>2, <2>2 DEF PackedInv
  <2>5. QED
    BY <1>2, <2>1, <2>2, <2>3, <2>4 DEF BlobInv, InlineInv, PackedReady
<1>3. QED
  BY <1>1, <1>2

\* What the host finds in its buffers when all the outputs are right.
LEMMA DeliverRight ==
  ASSUME PackageInv, phase = "deployed", OrderKnown,
         NEW s \in States, s.ctx # <<>>, OutputsRight(s), s.rc = 0, ~s.undefined,
         way \notin Model!InlineWays => Model!LoadError(Source) = 0,
         NEW outputs, outputs = Len(g.outputs)
  PROVE  Deliver(s, outputs) = [i \in DOMAIN g.outputs |-> <<g.outputs[i], "right">>]
<1>1. Outs = g.outputs
  <2>1. CASE way \in Model!InlineWays
    BY <2>1, GraphIsGood DEF OrderKnown
  <2>2. CASE way \notin Model!InlineWays
    BY <2>2, LoadedReadsBack DEF Outs
  <2>3. QED
    BY <2>1, <2>2
<1>2. GraphGood
  BY GraphIsGood
<1>3. s.ctx[1].read = Found
  BY StateFields, ContextFields
<1>4. ASSUME NEW i \in DOMAIN Outs PROVE Read(s, i) = <<g.outputs[i], "right">>
  <2>1. s.ctx[1].content[Outs[i]] = "right"
    BY <1>2 DEF OutputsRight, GraphGood
  <2>2. Outs = s.ctx[1].read.outputs
    BY <1>3 DEF Outs
  <2>3. QED
    BY <1>1, <2>1, <2>2 DEF Read
<1>5. DOMAIN Outs = 1..outputs
  BY <1>1, <1>2 DEF GraphGood
<1>6. Deliver(s, outputs) = [i \in 1..outputs |-> Read(s, i)]
  BY DEF Deliver
<1>7. QED
  BY <1>1, <1>4, <1>5, <1>6

\* What a run is worth to its host: from the state it ends in, before the buffers
\* are the host's again.
LEMMA RanKeeps ==
  ASSUME PackageInv, phase = "deployed", DeployedInv(st, host), Generated,
         NEW s, Balance(s, st), NEW a, a = Model!Detached(s),
         NEW ins, NEW outs, NEW k, HostInv(k), k.last = "api_run", k.delivered = Deliver(s, outs),
         way \in Model!BlobWays => BlobInv(s),
         way \in Model!InlineWays => /\ InlineInv(s)
                                     /\ way = "inline" /\ k.started => s.ready
                                     /\ k.careful => (PackedReady(st) => PackedReady(s)),
         k.careful => /\ host.careful /\ ins = Len(Ins) /\ outs = Len(Outs)
                      /\ Ran(s, st, ins, outs)
  PROVE  DeployedInv(a, k)
<1>1. /\ way # "library" /\ way \in Model!BlobWays \cup Model!InlineWays
      /\ way \in Model!BlobWays <=> way \notin Model!InlineWays
      /\ ~st.undefined
      /\ StateInv(st, host)
      /\ way \in Model!InlineWays => InlineHost(st, host)
      /\ Len(Outs) = Len(g.outputs)
  BY GeneratedCall
<1>2. s \in States /\ PackedInv(s)
  BY <1>1 DEF BlobInv, InlineInv
<1>3. /\ a \in States /\ PackedInv(a) /\ Balance(a, s)
      /\ a.rc = s.rc /\ a.undefined = s.undefined /\ a.ready = s.ready
      /\ BlobInv(s) => BlobInv(a)
      /\ InlineInv(s) => InlineInv(a) /\ (PackedReady(s) => PackedReady(a))
  BY <1>2, DetachedKeeps
<1>4. Balance(a, st)
  BY <1>3, BalanceChain
<1>5. k.careful => a.undefined = st.undefined
  BY <1>3 DEF Ran
<1>6. StateInv(a, k)
  BY <1>1, <1>3, <1>4, <1>5, StateStep DEF Balance
<1>7. way \in Model!InlineWays => InlineHost(a, k)
  BY <1>1, <1>3 DEF InlineHost
<1>8. Delivered(a, k)
  <2> SUFFICES ASSUME k.careful, a.rc = 0, ~a.undefined, OrderKnown, deployment.damage = "none"
               PROVE  k.delivered = [i \in DOMAIN g.outputs |-> <<g.outputs[i], "right">>]
    BY DEF Delivered
  <2>1. s.rc = 0 /\ ~s.undefined /\ outs = Len(g.outputs)
    BY <1>1, <1>3
  <2>2. s.ctx # <<>> /\ (Source.weights = "stored" => OutputsRight(s))
    BY <2>1 DEF Ran
  <2>3. way \notin Model!InlineWays => Model!LoadError(Source) = 0
    BY <1>1, <2>2 DEF BlobInv
  <2>4. Source.weights = "stored"
    BY <2>3, LoadableSource, SourceFacts
  <2>5. QED
    BY <1>2, <2>1, <2>2, <2>3, <2>4, DeliverRight
<1>9. QED
  BY <1>1, <1>3, <1>6, <1>7, <1>8 DEF DeployedInv

\* model_run keeps the invariant, and fills the buffer it was given.
LEMMA ApiRunKeeps ==
  ASSUME PackageInv, phase = "deployed", DeployedInv(st, host), ApiRun
  PROVE  DeployedInv(st', host')
<1>1. /\ way # "library" /\ way \in Model!BlobWays \cup Model!InlineWays
      /\ way \in Model!BlobWays <=> way \notin Model!InlineWays
      /\ ~st.undefined /\ host.calls < MaxCalls /\ MaxCalls \in Nat
      /\ HostInv(host)
      /\ way \in Model!BlobWays => BlobInv(st)
      /\ way \in Model!InlineWays => InlineHost(st, host) /\ InlineInv(st)
      /\ ProgramMade
      /\ GraphGood /\ Ins = Inputs /\ Len(Outs) = Len(g.outputs)
  BY GeneratedCall DEF ApiRun
<1> DEFINE after == Model!ModelRun(st, prog[1], fail)
           usable == Len(Ins) = 1 /\ Len(Outs) = 1
           started == host.started \/ after.rc = 0
           got == Deliver(after, 1)
<1>2. /\ st' = Model!Detached(after)
      /\ host' = [[host EXCEPT !.careful = @ /\ usable, !.started = @ \/ after.rc = 0,
                               !.delivered = got]
                    EXCEPT !.calls = @ + 1, !.last = "api_run"]
  BY <1>1 DEF ApiRun, Call
<1>3. /\ Viewed(host', host.calls + 1, host.careful /\ usable, host.prepared, started,
                host.supplied, host.bound, host.ran, "api_run")
      /\ host'.delivered = got
  <2>1. usable \in BOOLEAN /\ host.careful \in BOOLEAN /\ DOMAIN host = HostFields
    BY <1>1 DEF HostInv
  <2>2. host' = [[host EXCEPT !.careful = @ /\ usable, !.started = started, !.delivered = got]
                   EXCEPT !.calls = @ + 1, !.last = "api_run"]
    <3> HIDE DEF usable, got, after
    <3>1. "started" \in DOMAIN [host EXCEPT !.careful = @ /\ usable]
          /\ [host EXCEPT !.careful = @ /\ usable].started = host.started
      BY <2>1 DEF HostFields
    <3>2. QED
      BY <1>2, <3>1
  <2> HIDE DEF usable, started, got
  <2>3. QED
    BY <2>1, <2>2 DEF Viewed, HostFields
<1>4. started \in BOOLEAN /\ usable \in BOOLEAN
  OBVIOUS
<1> HIDE DEF got
<1>5. HostInv(host')
  BY <1>1, <1>3, <1>4, HostStep DEF Viewed, HostInv
<1>6. CASE way \in Model!BlobWays
  <2>1. /\ way \notin Model!InlineWays /\ BlobInv(st)
        /\ prog[1].pkg = Source /\ prog[1].way \in Model!BlobWays
    BY <1>1, <1>6 DEF ProgramMade
  <2>2. after = Model!BlobRun(st, prog[1], 1, 1, fail)
    BY <2>1 DEF Model!ModelRun
  <2>3. 1 \in Nat
    OBVIOUS
  <2> HIDE DEF after
  <2>4. BlobInv(after) /\ Ran(after, st, 1, 1)
    BY <1>1, <2>1, <2>2, <2>3, BlobRunFacts
  <2>5. /\ host'.last = "api_run" /\ host'.delivered = Deliver(after, 1)
        /\ host'.careful => host.careful /\ Len(Ins) = 1 /\ Len(Outs) = 1
    BY <1>3 DEF Viewed, got
  <2>6. Balance(after, st) /\ Generated
    BY <2>4 DEF Ran, ApiRun
  <2>7. QED
    BY <1>2, <1>5, <2>1, <2>4, <2>5, <2>6, RanKeeps
<1>7. CASE way \in Model!InlineWays
  <2>1. /\ way \notin Model!BlobWays /\ InlineInv(st)
        /\ prog[1].pkg = Source /\ prog[1].way = way
    BY <1>1, <1>7 DEF ProgramMade
  <2>2. after = Model!InlineRun(st, prog[1])
    BY <2>1 DEF Model!ModelRun
  <2> HIDE DEF after
  <2>3. /\ InlineInv(after) /\ Ran(after, st, 1, 1)
        /\ way = "inline" => after.ready
        /\ PackedReady(st) => PackedReady(after)
    BY <1>1, <1>7, <2>1, <2>2, InlineRunFacts
  <2>4. /\ host'.last = "api_run" /\ host'.delivered = Deliver(after, 1)
        /\ host'.careful => host.careful /\ Len(Ins) = 1 /\ Len(Outs) = 1
    BY <1>3 DEF Viewed, got
  <2>5. Balance(after, st) /\ Generated
    BY <2>3 DEF Ran, ApiRun
  <2>6. QED
    BY <1>2, <1>5, <2>1, <2>3, <2>4, <2>5, RanKeeps
<1>8. QED
  BY <1>1, <1>6, <1>7

\* model_run_multi keeps the invariant, and with all buffers fills every output.
LEMMA ApiRunMultiKeeps ==
  ASSUME PackageInv, phase = "deployed", DeployedInv(st, host), ApiRunMulti
  PROVE  DeployedInv(st', host')
<1>1. /\ way # "library" /\ way \in Model!BlobWays \cup Model!InlineWays
      /\ way \in Model!BlobWays <=> way \notin Model!InlineWays
      /\ ~st.undefined /\ host.calls < MaxCalls /\ MaxCalls \in Nat
      /\ HostInv(host)
      /\ way \in Model!BlobWays => BlobInv(st)
      /\ way \in Model!InlineWays => InlineHost(st, host) /\ InlineInv(st)
      /\ ProgramMade
      /\ GraphGood /\ Ins = Inputs /\ Len(Outs) = Len(g.outputs)
  BY GeneratedCall DEF ApiRunMulti
<1> DEFINE fit(i, o) == /\ i = Len(Inputs) /\ o = Len(g.outputs)
                        /\ way = "inline" => host.started
<1>2. PICK ins \in Nat, outs \in Nat :
        /\ st' = Model!Detached(Model!ModelRunMulti(st, prog[1], ins, outs, fail))
        /\ host' = [[host EXCEPT !.careful = @ /\ fit(ins, outs),
                                 !.delivered = Deliver(Model!ModelRunMulti(st, prog[1], ins, outs, fail), outs)]
                      EXCEPT !.calls = @ + 1, !.last = "api_run"]
  <2>1. \A n \in Nat : 0..(n + 1) \subseteq Nat
    OBVIOUS
  <2>2. Len(Inputs) \in Nat /\ Len(g.outputs) \in Nat
    BY <1>1 DEF GraphGood
  <2>3. QED
    BY <2>1, <2>2 DEF ApiRunMulti, Call
<1> DEFINE after == Model!ModelRunMulti(st, prog[1], ins, outs, fail)
           usable == fit(ins, outs)
           got == Deliver(after, outs)
<1>3. /\ Viewed(host', host.calls + 1, host.careful /\ usable, host.prepared, host.started,
                host.supplied, host.bound, host.ran, "api_run")
      /\ host'.delivered = got
  <2>1. usable \in BOOLEAN /\ host.careful \in BOOLEAN /\ DOMAIN host = HostFields
    BY <1>1 DEF HostInv
  <2>2. host' = [[host EXCEPT !.careful = @ /\ usable, !.delivered = got]
                   EXCEPT !.calls = @ + 1, !.last = "api_run"]
    BY <1>2
  <2> HIDE DEF usable, got
  <2>3. QED
    BY <2>1, <2>2 DEF Viewed, HostFields
<1>4. /\ host'.careful \in BOOLEAN /\ host'.last = "api_run" /\ host'.delivered = Deliver(after, outs)
      /\ host'.started = host.started
      /\ host'.careful => /\ host.careful /\ ins = Len(Ins) /\ outs = Len(Outs)
                          /\ way = "inline" => host.started
  BY <1>1, <1>3 DEF Viewed
<1> HIDE DEF usable, got
<1>5. HostInv(host')
  BY <1>1, <1>3, <1>4, HostStep DEF Viewed, HostInv
<1>6. CASE way \in Model!BlobWays
  <2>1. /\ way \notin Model!InlineWays /\ BlobInv(st)
        /\ prog[1].pkg = Source /\ prog[1].way \in Model!BlobWays
    BY <1>1, <1>6 DEF ProgramMade
  <2>2. after = Model!BlobRun(st, prog[1], ins, outs, fail)
    BY <2>1 DEF Model!ModelRunMulti
  <2>3. st' = Model!Detached(after)
    BY <1>2
  <2> HIDE DEF after
  <2>4. BlobInv(after) /\ Ran(after, st, ins, outs)
    BY <1>1, <2>1, <2>2, BlobRunFacts
  <2>5. Balance(after, st) /\ Generated
    BY <2>4 DEF Ran, ApiRunMulti
  <2>6. QED
    BY <1>4, <1>5, <2>1, <2>3, <2>4, <2>5, RanKeeps
<1>7. CASE way \in Model!InlineWays
  <2>1. /\ way \notin Model!BlobWays /\ InlineInv(st) /\ InlineHost(st, host)
        /\ prog[1].pkg = Source /\ prog[1].way = way
    BY <1>1, <1>7 DEF ProgramMade
  <2>2. after = Model!InlineRunMulti(st, prog[1], ins, outs)
    BY <1>7, <2>1 DEF Model!ModelRunMulti
  <2>3. st' = Model!Detached(after)
    BY <1>2
  <2> HIDE DEF after
  <2>4. /\ InlineInv(after) /\ after.ready = st.ready /\ Balance(after, st)
        /\ (way = "inline" => st.ready) =>
              Ran(after, st, ins, outs) /\ (PackedReady(st) => PackedReady(after))
    BY <1>1, <1>7, <2>1, <2>2, InlineRunMultiFacts
  <2>5. way = "inline" /\ host.started => st.ready
    BY <2>1 DEF InlineHost
  <2>6. Generated
    BY DEF ApiRunMulti
  <2>7. QED
    BY <1>4, <1>5, <2>1, <2>3, <2>4, <2>5, <2>6, RanKeeps
<1>8. QED
  BY <1>1, <1>6, <1>7

\* model_free keeps the invariant.
LEMMA ApiFreeKeeps ==
  ASSUME PackageInv, phase = "deployed", DeployedInv(st, host), ApiFree
  PROVE  DeployedInv(st', host')
<1>1. /\ way # "library" /\ way \in Model!BlobWays \cup Model!InlineWays
      /\ way \in Model!BlobWays <=> way \notin Model!InlineWays
      /\ ~st.undefined /\ host.calls < MaxCalls /\ MaxCalls \in Nat
      /\ HostInv(host) /\ StateInv(st, host)
      /\ way \in Model!BlobWays => BlobInv(st)
      /\ way \in Model!InlineWays => InlineHost(st, host) /\ InlineInv(st)
      /\ ProgramMade
  BY GeneratedCall DEF ApiFree
<1>2. /\ st' = Model!ModelFree(st, prog[1])
      /\ host' = [[host EXCEPT !.started = FALSE] EXCEPT !.calls = @ + 1, !.last = "free"]
  BY DEF ApiFree, Call
<1>3. Viewed(host', host.calls + 1, host.careful, host.prepared, FALSE, host.supplied,
             host.bound, host.ran, "free")
  BY <1>1, <1>2 DEF Viewed, HostInv, HostFields
<1>4. HostInv(host')
  BY <1>1, <1>3, HostStep DEF Viewed, HostInv
<1>5. Delivered(st', host')
  BY <1>3, QuietCall DEF Viewed
<1>6. CASE way \in Model!BlobWays
  <2>1. way \notin Model!InlineWays /\ st \in States /\ prog[1].way \in Model!BlobWays
    BY <1>1, <1>6 DEF BlobInv, ProgramMade
  <2>2. st' = Model!Free(st)
    BY <1>2, <2>1 DEF Model!ModelFree
  <2>3. st' \in States /\ st'.ctx = <<>> /\ st'.undefined = st.undefined /\ Balance(st', st)
    BY <2>1, <2>2, FreeFacts
  <2>4. BlobInv(st') /\ PackedInv(st')
    BY <2>3 DEF BlobInv, PackedInv
  <2>5. StateInv(st', host')
    BY <1>1, <1>3, <2>3, <2>4, StateStep DEF Balance, Viewed
  <2>6. QED
    BY <1>1, <1>4, <1>5, <1>6, <2>4, <2>5 DEF DeployedInv
<1>7. CASE way \in Model!InlineWays
  <2>1. /\ way \notin Model!BlobWays /\ InlineInv(st) /\ InlineHost(st, host)
        /\ prog[1].pkg = Source /\ prog[1].way = way
    BY <1>1, <1>7 DEF ProgramMade
  <2>2. st' = Model!InlineFree(st, prog[1])
    BY <1>2, <2>1 DEF Model!ModelFree
  <2>3. /\ InlineInv(st') /\ Balance(st', st) /\ ~st'.ready /\ st'.undefined = st.undefined
        /\ PackedReady(st) => PackedReady(st')
    BY <1>7, <2>1, <2>2, InlineFreeFacts
  <2>4. StateInv(st', host')
    BY <1>1, <1>3, <2>3, StateStep DEF Balance, Viewed, InlineInv
  <2>5. InlineHost(st', host')
    BY <1>3, <2>1, <2>3 DEF InlineHost, Viewed
  <2>6. QED
    BY <1>1, <1>4, <1>5, <1>7, <2>4, <2>5 DEF DeployedInv
<1>8. QED
  BY <1>1, <1>6, <1>7

\* The test program keeps the invariant.
LEMMA TestProgramKeeps ==
  ASSUME PackageInv, phase = "deployed", DeployedInv(st, host), host.started = FALSE, TestProgram
  PROVE  DeployedInv(st', host')
<1>1. /\ way # "library" /\ way \in Model!BlobWays \cup Model!InlineWays
      /\ way \in Model!BlobWays <=> way \notin Model!InlineWays
      /\ ~st.undefined /\ host.calls < MaxCalls /\ MaxCalls \in Nat
      /\ HostInv(host) /\ StateInv(st, host)
      /\ way \in Model!BlobWays => BlobInv(st)
      /\ way \in Model!InlineWays => InlineHost(st, host) /\ InlineInv(st)
      /\ ProgramMade
      /\ GraphGood /\ Ins = Inputs /\ Len(Outs) = Len(g.outputs)
  BY GeneratedCall DEF TestProgram
<1> DEFINE single == Len(Ins) = 1 /\ Len(Outs) = 1
<1>2. /\ st' = Model!MainTest(st, prog[1], fail)
      /\ host' = [[host EXCEPT !.calls = MaxCalls - 1, !.careful = @ /\ single]
                    EXCEPT !.calls = @ + 1, !.last = "main_test"]
  BY <1>1 DEF TestProgram, Call
<1>3. Viewed(host', (MaxCalls - 1) + 1, host.careful /\ single, host.prepared, host.started,
             host.supplied, host.bound, host.ran, "main_test")
  <2>1. single \in BOOLEAN /\ host.careful \in BOOLEAN /\ DOMAIN host = HostFields
    BY <1>1 DEF HostInv
  <2> HIDE DEF single
  <2>2. QED
    BY <1>2, <2>1 DEF Viewed, HostFields
<1>4. single \in BOOLEAN /\ (MaxCalls - 1) + 1 = MaxCalls /\ MaxCalls \in 0..MaxCalls
  BY <1>1
<1>5. HostInv(host')
  <2>1. host'.careful \in BOOLEAN /\ host'.calls = MaxCalls
    BY <1>1, <1>3, <1>4 DEF Viewed, HostInv
  <2>2. QED
    BY <1>1, <1>3, <1>4, <2>1 DEF Viewed, HostInv
<1>6. Delivered(st', host')
  BY <1>3, QuietCall DEF Viewed
<1>7. CASE way \in Model!BlobWays
  <2>1. /\ way \notin Model!InlineWays /\ BlobInv(st)
        /\ prog[1].pkg = Source /\ prog[1].way \in Model!BlobWays
    BY <1>1, <1>7 DEF ProgramMade
  <2>2. /\ BlobInv(st') /\ Balance(st', st)
        /\ single => st'.undefined = st.undefined
    BY <1>1, <1>2, <2>1, MainTestBlob
  <2>3. StateInv(st', host')
    BY <1>1, <1>3, <2>2, StateStep DEF Balance, Viewed, BlobInv
  <2>4. QED
    BY <1>1, <1>5, <1>6, <1>7, <2>2, <2>3 DEF DeployedInv
<1>8. CASE way \in Model!InlineWays
  <2>1. /\ way \notin Model!BlobWays /\ InlineInv(st) /\ InlineHost(st, host)
        /\ prog[1].pkg = Source /\ prog[1].way = way
    BY <1>1, <1>8 DEF ProgramMade
  <2>2. /\ InlineInv(st') /\ Balance(st', st)
        /\ PackedReady(st) => PackedReady(st')
        /\ single => st'.undefined = st.undefined
    BY <1>1, <1>2, <1>8, <2>1, MainTestInline
  <2>3. StateInv(st', host')
    BY <1>1, <1>3, <2>2, StateStep DEF Balance, Viewed, InlineInv
  <2>4. InlineHost(st', host')
    BY <1>3, <2>1, <2>2 DEF InlineHost, Viewed
  <2>5. QED
    BY <1>1, <1>5, <1>6, <1>8, <2>3, <2>4 DEF DeployedInv
<1>9. QED
  BY <1>1, <1>7, <1>8

-----------------------------------------------------------------------------
(* The invariant of a deployment.                                          *)

\* No call yet: the statics are as the program starts, if there is one.
NothingCalled ==
    /\ host = NewHost
    /\ st = IF phase = "deployed" /\ way # "library" THEN Model!InitialStatics(prog[1])
            ELSE [ctx |-> <<>>, ready |-> FALSE, heap |-> Model!EmptyHeap, rc |-> 0,
                  undefined |-> FALSE]

\* From the first call on the program is deployed, and in order.
RuntimeInv ==
    IF host.calls = 0 THEN NothingCalled
    ELSE phase = "deployed" /\ DeployedInv(st, host)

DeploymentInv == PackageInv /\ RuntimeInv

\* The statics of a program before its first call.
LEMMA InlineStart ==
  ASSUME PackageInv, phase = "deployed", way \in Model!InlineWays, ProgramMade
  PROVE  LET c == Model!InlineStatics(prog[1]) IN c \in Contexts /\ ~c.packed
<1>1. Source.graph.tensors = g.tensors /\ N \in Nat
  BY SourceFacts, DeploymentFacts DEF PackageInv, Model!CompiledGraph, N
<1> DEFINE byId == Model!OutputsById(Source.graph)
           read == [Model!ReadBack(Source) EXCEPT !.outputs = byId]
<1>2. Found = read /\ prog[1].pkg = Source
  BY DEF Found, ProgramMade
<1>3. Model!InlineStatics(prog[1]) = [Model!Context(Source) EXCEPT !.read = read]
  BY <1>2 DEF Model!InlineStatics, Model!Context
<1> DEFINE c == [Model!Context(Source) EXCEPT !.read = read]
<1>4. /\ [t \in 1..N |-> "null"] \in [1..N -> Places]
      /\ [t \in 1..N |-> "none"] \in [1..N -> Contents]
      /\ FALSE \in BOOLEAN /\ TRUE \in BOOLEAN
  BY DEF Places, Contents
<1> HIDE DEF read
<1>5. c \in Contexts /\ ~c.packed
  BY <1>2, <1>4 DEF Model!Context, Contexts, N
<1>6. QED
  BY <1>3, <1>5

\* Before the first call, everything is in order.
LEMMA NothingCalledGood ==
  ASSUME PackageInv, phase = "deployed", NothingCalled
  PROVE  DeployedInv(st, host)
<1>1. /\ way \in {"library"} \cup Model!BlobWays \cup Model!InlineWays /\ MaxCalls \in Nat
      /\ (way \in Model!BlobWays => way \notin Model!InlineWays)
      /\ "library" \notin Model!InlineWays
  BY DeploymentFacts DEF PackageInv, Model!BlobWays, Model!InlineWays
<1>2. HostInv(host) /\ host.careful /\ ~host.started /\ host.last = ""
  <2>1. host = NewHost
    BY DEF NothingCalled
  <2>2. /\ DOMAIN NewHost = HostFields /\ NewHost.calls = 0 /\ NewHost.careful = TRUE
        /\ NewHost.prepared = FALSE /\ NewHost.started = FALSE /\ NewHost.ran = FALSE
        /\ NewHost.supplied = {} /\ NewHost.bound = {} /\ NewHost.last = ""
    BY DEF NewHost, HostFields
  <2>3. 0 \in 0..MaxCalls
    BY <1>1
  <2>4. QED
    BY <2>1, <2>2, <2>3 DEF HostInv
<1>3. /\ Model!EmptyHeap \in [Model!HeapKinds -> Int]
      /\ \A k \in Model!HeapKinds : Model!EmptyHeap[k] = 0
  BY DEF Model!EmptyHeap
<1>4. 0 \in -23..1 /\ FALSE \in BOOLEAN
  OBVIOUS
<1>5. CASE way \notin Model!InlineWays
  <2>1. st = [ctx |-> <<>>, ready |-> FALSE, heap |-> Model!EmptyHeap, rc |-> 0, undefined |-> FALSE]
    <3>1. CASE way = "library"
      BY <3>1 DEF NothingCalled
    <3>2. CASE way # "library"
      <4>1. way \in Model!BlobWays
        BY <1>1, <1>5, <3>2
      <4>2. prog[1].way \in Model!BlobWays
        BY <3>2, <4>1, DeployedProgram DEF ProgramMade
      <4>3. prog[1].way \notin Model!InlineWays
        BY <4>2 DEF Model!BlobWays, Model!InlineWays
      <4>4. QED
        BY <3>2, <4>3 DEF NothingCalled, Model!InitialStatics
    <3>3. QED
      BY <3>1, <3>2
  <2>2. st.ctx = <<>> /\ st.heap = Model!EmptyHeap /\ ~st.undefined
    BY <2>1
  <2>3. st \in States
    BY <1>3, <1>4, <2>1 DEF States
  <2>4. Own(st) = {}
    BY <1>5, <2>2 DEF Own
  <2>5. StateInv(st, host)
    BY <1>3, <2>2, <2>3, <2>4 DEF StateInv, PackedInv, Covered, Exact
  <2>6. BlobInv(st) /\ LibraryInv(st, host)
    BY <2>2, <2>3 DEF BlobInv, PackedInv, LibraryInv
  <2>7. Delivered(st, host)
    BY <1>2, QuietCall
  <2>8. QED
    BY <1>2, <1>5, <2>5, <2>6, <2>7 DEF DeployedInv
<1>6. CASE way \in Model!InlineWays
  <2>1. way # "library" /\ way \notin Model!BlobWays /\ ProgramMade
    BY <1>1, <1>6, DeployedProgram
  <2> DEFINE c == Model!InlineStatics(prog[1])
  <2>2. c \in Contexts /\ ~c.packed
    BY <1>6, <2>1, InlineStart
  <2> HIDE DEF c
  <2>3. st = [ctx |-> <<c>>, ready |-> FALSE, heap |-> Model!EmptyHeap, rc |-> 0, undefined |-> FALSE]
    BY <1>6, <2>1 DEF NothingCalled, Model!InitialStatics, ProgramMade, c
  <2>4. st.ctx = <<c>> /\ st.ctx # <<>> /\ st.ctx[1] = c /\ ~st.ready /\ st.heap = Model!EmptyHeap
        /\ ~st.undefined
    BY <2>3
  <2>5. st \in States
    BY <1>3, <1>4, <2>2, <2>3 DEF States
  <2>6. Own(st) = {}
    BY <1>6, <2>2, <2>4 DEF Own
  <2>7. StateInv(st, host) /\ InlineHost(st, host)
    <3>1. ~st.ctx[1].packed
      BY <2>2, <2>4
    <3>2. PackedInv(st) /\ PackedReady(st)
      BY <2>4, <3>1 DEF PackedInv, PackedReady
    <3>3. Covered(st, Own(st)) /\ Exact(st, Own(st), Lost)
      BY <1>3, <2>4, <2>6 DEF Covered, Exact
    <3>4. StateInv(st, host)
      BY <2>4, <2>5, <3>2, <3>3 DEF StateInv
    <3>5. InlineInv(st)
      BY <2>4, <2>5, <3>2 DEF InlineInv
    <3>6. QED
      BY <1>2, <2>4, <3>2, <3>4, <3>5 DEF InlineHost
  <2>8. Delivered(st, host)
    BY <1>2, QuietCall
  <2>9. QED
    BY <1>2, <1>6, <2>1, <2>7, <2>8 DEF DeployedInv
<1>7. QED
  BY <1>5, <1>6

-----------------------------------------------------------------------------
(* The steps.  A call of the host is described from the state and the host *)
(* that it leads to; nothing else that the invariant speaks of changes.    *)
LEMMA SurroundingsKept ==
  ASSUME UNCHANGED <<deployment, pkg, prog>>
  PROVE  /\ Source' = Source /\ Found' = Found /\ N' = N /\ Ins' = Ins /\ Inputs' = Inputs
         /\ Contexts' = Contexts /\ States' = States /\ Lost' = Lost
         /\ HasPacked' = HasPacked /\ OrderKnown' = OrderKnown
         /\ way' = way /\ g' = g
<1>1. way' = way /\ g' = g /\ fail' = fail
  BY DEF way, g, fail
<1>2. Source' = Source
  BY <1>1 DEF Source
<1>3. Found' = Found
  BY <1>1, <1>2 DEF Found
<1>4. N' = N
  BY <1>2 DEF N
<1>5. Ins' = Ins
  BY <1>2 DEF Ins
<1>6. Inputs' = Inputs
  BY <1>1 DEF Inputs
<1>7. Lost' = Lost
  BY <1>1 DEF Lost
<1>8. Contexts' = Contexts
  BY <1>2, <1>3, Zenon DEF Contexts
<1>9. States' = States
  BY <1>8, Zenon DEF States
<1>10. HasPacked' = HasPacked
  BY <1>2, <1>4, Zenon DEF HasPacked
<1>11. OrderKnown' = OrderKnown
  BY <1>1 DEF OrderKnown
<1>12. QED
  BY <1>1, <1>2, <1>3, <1>4, <1>5, <1>6, <1>7, <1>8, <1>9, <1>10, <1>11

\* The invariant of a state and a host does not depend on anything that a call changes.
LEMMA DeployedKept ==
  ASSUME UNCHANGED <<deployment, pkg, prog>>, DeployedInv(st', host')
  PROVE  DeployedInv(st, host)'
<1> USE SurroundingsKept
<1>1. HostInv(host)'
  BY DEF DeployedInv, HostInv
<1>2. PackedInv(st)'
  BY DEF DeployedInv, StateInv, PackedInv
<1>3. Own(st)' = Own(st')
  BY DEF Own
<1>4. StateInv(st, host)'
  <2>1. Covered(st, Own(st))'
    BY <1>3 DEF DeployedInv, StateInv, Covered
  <2>2. host'.careful => Exact(st, Own(st), Lost)'
    BY <1>3 DEF DeployedInv, StateInv, Exact
  <2>3. st' \in States' /\ (st'.undefined => ~host'.careful \/ way' = "blobExternal")
    BY DEF DeployedInv, StateInv
  <2>4. QED
    BY <1>2, <2>1, <2>2, <2>3 DEF StateInv
<1>5. Delivered(st, host)'
  BY DEF DeployedInv, Delivered
<1>6. \A t : External(t)' <=> External(t)
  BY DEF External
<1>7. way' = "library" => LibraryInv(st, host)'
  <2>1. Reachable(st', host') => Reachable(st, host)'
    BY <1>6 DEF Reachable, Dangling
  <2>2. Supplied(st', host') => Supplied(st, host)'
    BY DEF Supplied
  <2>3. AllReachable(st') => AllReachable(st)'
    BY DEF AllReachable, Dangling
  <2>4. OutputsRight(st') => OutputsRight(st)'
    BY DEF OutputsRight, Role
  <2>5. QED
    BY <2>1, <2>2, <2>3, <2>4 DEF DeployedInv, LibraryInv
<1>8. Placement(st') => Placement(st)'
  BY DEF Placement, Role
<1>9. way' \in Model!BlobWays => BlobInv(st)'
  BY <1>2, <1>8 DEF DeployedInv, BlobInv
<1>10. way' \in Model!InlineWays => InlineHost(st, host)'
  BY <1>2, <1>8 DEF DeployedInv, InlineHost, InlineInv, PackedReady
<1>11. QED
  BY <1>1, <1>4, <1>5, <1>7, <1>9, <1>10 DEF DeployedInv

\* Whichever call the host makes, the invariant is kept, and it has made a call.
LEMMA HostCallKeeps ==
  ASSUME DeploymentInv, HostCall
  PROVE  RuntimeInv'
<1>1. PackageInv /\ phase = "deployed" /\ UNCHANGED <<deployment, phase, pkg, prog>>
  BY HostCallsKeepPackage DEF DeploymentInv
<1>2. DeployedInv(st, host)
  BY <1>1, NothingCalledGood DEF DeploymentInv, RuntimeInv
<1>3. host.calls \in 0..MaxCalls /\ MaxCalls \in Nat
  BY <1>1, <1>2, DeploymentFacts DEF DeployedInv, HostInv, PackageInv
<1>4. host.calls = 0 => host.started = FALSE
  <2>1. host.calls = 0 => host = NewHost
    BY DEF DeploymentInv, RuntimeInv, NothingCalled
  <2>2. NewHost.started = FALSE
    BY DEF NewHost
  <2>3. QED
    BY <2>1, <2>2
<1>5. DeployedInv(st', host')
  <2>1. CASE Load
    BY <1>1, <1>2, <2>1, LoadKeeps
  <2>2. CASE Prepare
    BY <1>1, <1>2, <2>2, PrepareKeeps
  <2>3. CASE SetInput
    BY <1>1, <1>2, <2>3, SetInputKeeps
  <2>4. CASE BindInput
    BY <1>1, <1>2, <2>4, BindInputKeeps
  <2>5. CASE BindOutput
    BY <1>1, <1>2, <2>5, BindOutputKeeps
  <2>6. CASE Run
    BY <1>1, <1>2, <2>6, RunKeeps
  <2>7. CASE GetOutput
    BY <1>1, <1>2, <2>7, GetOutputKeeps
  <2>8. CASE Free
    BY <1>1, <1>2, <2>8, FreeKeeps
  <2>9. CASE ApiInit
    BY <1>1, <1>2, <2>9, ApiInitKeeps
  <2>10. CASE ApiRun
    BY <1>1, <1>2, <2>10, ApiRunKeeps
  <2>11. CASE ApiRunMulti
    BY <1>1, <1>2, <2>11, ApiRunMultiKeeps
  <2>12. CASE ApiFree
    BY <1>1, <1>2, <2>12, ApiFreeKeeps
  <2>13. CASE TestProgram
    <3>1. host.started = FALSE
      BY <1>4, <2>13 DEF TestProgram
    <3>2. QED
      BY <1>1, <1>2, <2>13, <3>1, TestProgramKeeps
  <2>14. QED
    BY <2>1, <2>2, <2>3, <2>4, <2>5, <2>6, <2>7, <2>8, <2>9, <2>10, <2>11, <2>12, <2>13
       DEF HostCall
<1>6. host'.calls # 0
  <2>1. CASE TestProgram
    <3>1. host'.calls = (MaxCalls - 1) + 1 /\ host.calls < MaxCalls
      BY <1>2, <2>1 DEF TestProgram, Call, Generated, Callable, DeployedInv, HostInv, HostFields
    <3>2. QED
      BY <1>3, <3>1
  <2>2. CASE ~TestProgram
    <3>1. host'.calls = host.calls + 1
      <4> USE DEF Call
      <4>0. DOMAIN host = HostFields
        BY <1>2 DEF DeployedInv, HostInv
      <4>1. CASE Load
        BY <4>1 DEF Load, NewHost
      <4>2. CASE Prepare
        BY <4>0, <4>2 DEF Prepare, HostFields
      <4>3. CASE SetInput
        BY <4>0, <4>3 DEF SetInput, HostFields
      <4>4. CASE BindInput
        BY <4>0, <4>4 DEF BindInput, HostFields
      <4>5. CASE BindOutput
        BY <4>0, <4>5 DEF BindOutput, HostFields
      <4>6. CASE Run
        BY <4>0, <4>6 DEF Run, HostFields
      <4>7. CASE GetOutput
        BY <4>0, <4>7 DEF GetOutput, HostFields
      <4>8. CASE Free
        BY <4>0, <4>8 DEF Free, HostFields
      <4>9. CASE ApiInit
        BY <4>0, <4>9 DEF ApiInit, HostFields
      <4>10. CASE ApiRun
        BY <4>0, <4>10 DEF ApiRun, HostFields
      <4>11. CASE ApiRunMulti
        BY <4>0, <4>11 DEF ApiRunMulti, HostFields
      <4>12. CASE ApiFree
        BY <4>0, <4>12 DEF ApiFree, HostFields
      <4>13. QED
        BY <2>2, <4>1, <4>2, <4>3, <4>4, <4>5, <4>6, <4>7, <4>8, <4>9, <4>10, <4>11, <4>12
           DEF HostCall
    <3>2. QED
      BY <1>3, <3>1
  <2>3. QED
    BY <2>1, <2>2
<1>7. DeployedInv(st, host)'
  BY <1>1, <1>5, DeployedKept
<1>8. QED
  BY <1>1, <1>6, <1>7 DEF RuntimeInv

\* Writing, shipping and generating come before the first call.
LEMMA RuntimeStep ==
  ASSUME DeploymentInv, [Next]_vars
  PROVE  RuntimeInv'
<1>1. CASE HostCall
  BY <1>1, HostCallKeeps
<1>2. CASE Write \/ Ship \/ Generate
  <2>1. phase # "deployed" /\ host' = host
    BY <1>2 DEF Write, Ship, Generate
  <2>2. host.calls = 0 /\ NothingCalled
    BY <2>1 DEF DeploymentInv, RuntimeInv
  <2>3. host' = NewHost /\ host'.calls = 0
    BY <2>1, <2>2 DEF NothingCalled
  <2>4. deployment' = deployment /\ way' = way
    BY <1>2 DEF Write, Ship, Generate, way
  <2> DEFINE unstarted == [ctx |-> <<>>, ready |-> FALSE, heap |-> Model!EmptyHeap, rc |-> 0,
                           undefined |-> FALSE]
  <2>5. st = unstarted
    BY <2>1, <2>2 DEF NothingCalled
  <2> HIDE DEF unstarted
  <2>6. st' = IF phase' = "deployed" /\ way' # "library" THEN Model!InitialStatics(prog'[1])
              ELSE unstarted
    <3>1. CASE Write
      <4>1. st' = st /\ phase' # "deployed"
        BY <3>1 DEF Write
      <4>2. QED
        BY <2>5, <4>1
    <3>2. CASE Ship
      <4>1. st' = st /\ (phase' = "deployed" => way = "library")
        BY <3>2 DEF Ship
      <4>2. QED
        BY <2>4, <2>5, <4>1
    <3>3. CASE Generate
      <4>1. phase = "shipped" /\ way # "library"
        BY <3>3 DEF Generate, DeploymentInv, PackageInv
      <4>2. \/ st' = Model!InitialStatics(prog'[1]) /\ phase' = "deployed"
            \/ st' = st /\ phase' = "refused"
        BY <3>3 DEF Generate
      <4>3. QED
        BY <2>4, <2>5, <4>1, <4>2
    <3>4. QED
      BY <1>2, <3>1, <3>2, <3>3
  <2>7. NothingCalled'
    BY <2>3, <2>6 DEF NothingCalled, unstarted, NewHost
  <2>8. QED
    BY <2>3, <2>7 DEF RuntimeInv
<1>3. CASE UNCHANGED vars
  <2>1. UNCHANGED <<deployment, phase, pkg, prog, st, host>>
    BY <1>3 DEF vars
  <2>2. CASE host.calls = 0
    BY <2>1, <2>2 DEF DeploymentInv, RuntimeInv, NothingCalled, NewHost, way
  <2>3. CASE host.calls # 0
    <3>1. DeployedInv(st', host') /\ phase = "deployed"
      BY <2>1, <2>3 DEF DeploymentInv, RuntimeInv
    <3>2. DeployedInv(st, host)'
      BY <2>1, <3>1, DeployedKept
    <3>3. QED
      BY <2>1, <2>3, <3>1, <3>2 DEF RuntimeInv
  <2>4. QED
    BY <2>2, <2>3
<1>4. QED
  BY <1>1, <1>2, <1>3 DEF Next, HostCall

\* The file arrives, the program is generated and the host calls it as the
\* properties below require: the invariant of a deployment holds of every behaviour.
THEOREM DeploymentInvariant == Spec => []DeploymentInv
<1>1. Init => DeploymentInv
  <2> SUFFICES ASSUME Init PROVE DeploymentInv
    OBVIOUS
  <2>1. PackageInv
    BY PackageStart
  <2>2. NothingCalled /\ host.calls = 0
    BY DEF Init, NothingCalled, NewHost
  <2>3. QED
    BY <2>1, <2>2 DEF DeploymentInv, RuntimeInv
<1>2. DeploymentInv /\ [Next]_vars => DeploymentInv'
  <2> SUFFICES ASSUME DeploymentInv, [Next]_vars PROVE DeploymentInv'
    OBVIOUS
  <2>1. PackageInv'
    BY PackageStep DEF DeploymentInv
  <2>2. RuntimeInv'
    BY RuntimeStep
  <2>3. QED
    BY <2>1, <2>2 DEF DeploymentInv
<1>3. QED
  BY <1>1, <1>2, PTL DEF Spec

-----------------------------------------------------------------------------
(* What a deployment promises follows from its invariant.                  *)

\* Before the program is there, nothing has happened to it.
LEMMA DeployedOrNot ==
  ASSUME DeploymentInv
  PROVE  /\ PackageInv
         /\ \/ phase = "deployed" /\ DeployedInv(st, host)
            \/ /\ phase # "deployed" /\ host = NewHost
               /\ st = [ctx |-> <<>>, ready |-> FALSE, heap |-> Model!EmptyHeap, rc |-> 0,
                        undefined |-> FALSE]
<1>1. PackageInv
  BY DEF DeploymentInv
<1>2. CASE host.calls # 0
  BY <1>1, <1>2 DEF DeploymentInv, RuntimeInv
<1>3. CASE host.calls = 0 /\ phase = "deployed"
  BY <1>1, <1>3, NothingCalledGood DEF DeploymentInv, RuntimeInv
<1>4. CASE host.calls = 0 /\ phase # "deployed"
  BY <1>1, <1>4 DEF DeploymentInv, RuntimeInv, NothingCalled
<1>5. QED
  BY <1>2, <1>3, <1>4

\* The file that write_spk finishes for a device is laid out the way the loader
\* relies on (SectionsLaidOut of SpkWriter), whatever happens to it afterwards.
THEOREM DeployedFilesLaidOut == Spec => []SectionsLaidOut
<1>1. DeploymentInv => SectionsLaidOut
  BY FinishedLayout DEF DeploymentInv, PackageInv
<1>2. QED
  BY DeploymentInvariant, <1>1, PTL

\* The state of a deployment is always of its type: at most one context, no block
\* freed twice, only results that the library defines (executor.c, loader.c).
THEOREM DeploymentTyped == Spec => []TypeOK
<1>1. ASSUME DeploymentInv PROVE TypeOK
  <2>0. Len(<<>>) <= 1 /\ \A x : Len(<<x>>) <= 1
    OBVIOUS
  <2>1. /\ PackageInv /\ deployment \in Deployments
        /\ phase \in {"writing", "shipped", "deployed", "refused"}
    BY <1>1, DeployedOrNot DEF PackageInv
  <2>2. Len(pkg) <= 1 /\ Len(prog) <= 1
    <3>1. /\ pkg = <<>> \/ pkg = <<pkg[1]>>
          /\ prog = <<>> \/ prog = <<MadeProgram>>
      BY <2>1 DEF PackageInv
    <3>2. QED
      BY <2>0, <3>1
  <2>3. MaxCalls \in Nat /\ g.tensors \in Seq(Model!Tensor)
    BY <2>1, DeploymentFacts DEF Model!CompiledGraph
  <2>4. CASE phase = "deployed" /\ DeployedInv(st, host)
    <3>1. /\ HostInv(host) /\ StateInv(st, host) /\ st \in States /\ Covered(st, Own(st))
      BY <2>4 DEF DeployedInv, StateInv
    <3>2. Ins = Inputs /\ DOMAIN g.tensors = 1..N
      BY <2>1, <2>4, GraphIsGood
    <3>3. /\ st.ctx # <<>> => st.ctx = <<st.ctx[1]>>
          /\ st.heap \in [Model!HeapKinds -> Int] /\ st.rc \in -23..1
      BY <3>1, StateFields
    <3>4. \A k \in Model!HeapKinds : st.heap[k] \in Nat
      BY <3>1, <3>3 DEF Covered
    <3>5. Len(st.ctx) <= 1
      BY <2>0, <3>3
    <3>6. /\ host.calls \in 0..MaxCalls /\ host.supplied \subseteq DOMAIN Inputs
          /\ host.bound \subseteq DOMAIN g.tensors
      BY <3>1, <3>2 DEF HostInv
    <3>7. QED
      BY <2>1, <2>2, <3>3, <3>4, <3>5, <3>6 DEF TypeOK
  <2>5. CASE /\ phase # "deployed" /\ host = NewHost
             /\ st = [ctx |-> <<>>, ready |-> FALSE, heap |-> Model!EmptyHeap, rc |-> 0,
                      undefined |-> FALSE]
    <3>1. st.ctx = <<>> /\ st.heap = Model!EmptyHeap /\ st.rc = 0
      BY <2>5
    <3>2. 0 \in -23..1 /\ Len(<<>>) <= 1
      OBVIOUS
    <3>3. \A k \in Model!HeapKinds : Model!EmptyHeap[k] \in Nat
      BY DEF Model!EmptyHeap
    <3>4. NewHost.calls = 0 /\ NewHost.supplied = {} /\ NewHost.bound = {}
      BY DEF NewHost
    <3>5. 0 \in 0..MaxCalls
      BY <2>3
    <3>6. QED
      BY <2>1, <2>2, <2>5, <3>1, <3>2, <3>3, <3>4, <3>5 DEF TypeOK
  <2>6. QED
    BY <1>1, <2>4, <2>5, DeployedOrNot
<1>2. QED
  BY DeploymentInvariant, <1>1, PTL

\* No damage but that to checksum_type reaches a context: the header, directory and
\* section checks of spkv2_load_memory and of the generator refuse the file first.
THEOREM DamageIsRefused == Spec => []DamageRefused
<1>1. ASSUME DeploymentInv PROVE DamageRefused
  <2> SUFFICES ASSUME way \notin Model!InlineWays, HasContext
               PROVE  deployment.damage \in {"none", "checksum type"}
    BY DEF DamageRefused
  <2>1. PackageInv
    BY <1>1, DeployedOrNot
  <2>2. phase = "deployed" /\ DeployedInv(st, host)
    BY <1>1, DeployedOrNot DEF HasContext
  <2>3. way \in {"library"} \cup Model!BlobWays
    BY <2>1, DeploymentFacts DEF PackageInv
  <2>4. Model!LoadError(Source) = 0
    BY <2>2, <2>3 DEF DeployedInv, LibraryInv, BlobInv, HasContext
  <2>5. QED
    BY <2>1, <2>2, <2>4, LoadableSource DEF Tolerated
<1>2. QED
  BY DeploymentInvariant, <1>1, PTL

\* The loader reads of an undamaged package the records that the writer put there,
\* and the outputs in the order of the graph (spk_writer.py, loader.c).
THEOREM RecordsAreReadBack == Spec => []RecordsReadBack
<1>1. ASSUME DeploymentInv PROVE RecordsReadBack
  <2> SUFFICES ASSUME way \notin Model!InlineWays, HasContext
               PROVE  LET read == st.ctx[1].read
                      IN  /\ read.specs = g.specs
                          /\ read.quants = Len(g.channels)
                          /\ read.protected = (IF g.protected < 0 THEN 0 ELSE g.protected)
                          /\ read.outputs = g.outputs
    BY DEF RecordsReadBack
  <2>1. PackageInv
    BY <1>1, DeployedOrNot
  <2>2. phase = "deployed" /\ DeployedInv(st, host)
    BY <1>1, DeployedOrNot DEF HasContext
  <2>3. way \in {"library"} \cup Model!BlobWays
    BY <2>1, DeploymentFacts DEF PackageInv
  <2>4. Model!LoadError(Source) = 0
    BY <2>2, <2>3 DEF DeployedInv, LibraryInv, BlobInv, HasContext
  <2>5. st.ctx[1].read = Found
    <3>1. st \in States
      BY <2>2 DEF DeployedInv, StateInv
    <3>2. st.ctx[1] \in Contexts
      BY <3>1, StateFields DEF HasContext
    <3>3. QED
      BY <3>2 DEF Contexts
  <2>6. QED
    BY <2>1, <2>2, <2>4, <2>5, LoadedReadsBack
<1>2. QED
  BY DeploymentInvariant, <1>1, PTL

\* A host that keeps to the interface reads at every index the output that the graph
\* names there, computed from its inputs (executor.c:249-324, c_codegen.py:290-320).
THEOREM OutputsAreDelivered == Spec => []OutputsDelivered
<1>1. ASSUME DeploymentInv PROVE OutputsDelivered
  <2>1. CASE phase = "deployed" /\ DeployedInv(st, host)
    BY <2>1 DEF DeployedInv, Delivered, OutputsDelivered
  <2>2. CASE host = NewHost
    BY <2>2 DEF NewHost, OutputsDelivered
  <2>3. QED
    BY <1>1, <2>1, <2>2, DeployedOrNot
<1>2. QED
  BY DeploymentInvariant, <1>1, PTL

\* A host that keeps to the interface never makes the program use a null or a dangling
\* pointer, whatever the file and the allocations do (executor.c:257, c_codegen.py:936).
THEOREM AccessesDefined == Spec => []NoUndefinedAccess
<1>1. ASSUME DeploymentInv PROVE NoUndefinedAccess
  <2>1. CASE phase = "deployed" /\ DeployedInv(st, host)
    BY <2>1 DEF DeployedInv, StateInv, NoUndefinedAccess
  <2>2. CASE phase # "deployed" /\ ~st.undefined
    BY <2>2 DEF NoUndefinedAccess
  <2>3. QED
    BY <1>1, <2>1, <2>2, DeployedOrNot
<1>2. QED
  BY DeploymentInvariant, <1>1, PTL

\* What was allocated is freed, whichever allocation failed, but for the output ids
\* that spkv2_load_memory forgets (loader.c:269-281).
THEOREM HeapGivenBack == Spec => []NothingLeaked
<1>1. ASSUME DeploymentInv PROVE NothingLeaked
  <2>1. CASE phase = "deployed" /\ DeployedInv(st, host)
    <3> SUFFICES ASSUME host.careful,
                        IF way \in Model!InlineWays THEN host.last = "free" ELSE ~HasContext
                 PROVE  \A k \in Model!HeapKinds \ Lost : st.heap[k] = 0
      BY DEF NothingLeaked, Lost, Model!Forgotten
    <3>1. Exact(st, Own(st), Lost)
      BY <2>1 DEF DeployedInv, StateInv
    <3>2. Own(st) = {}
      <4>1. CASE way \in Model!InlineWays
        <5>1. ~st.ready /\ ~st.ctx[1].packed
          BY <2>1, <4>1 DEF DeployedInv, InlineHost, PackedReady
        <5>2. QED
          BY <4>1, <5>1 DEF Own
      <4>2. CASE way \notin Model!InlineWays
        BY <4>2 DEF Own, HasContext
      <4>3. QED
        BY <4>1, <4>2
    <3>3. QED
      BY <3>1, <3>2 DEF Exact
  <2>2. CASE st.heap = Model!EmptyHeap
    BY <2>2 DEF NothingLeaked, Model!EmptyHeap
  <2>3. QED
    BY <1>1, <2>1, <2>2, DeployedOrNot
<1>2. QED
  BY DeploymentInvariant, <1>1, PTL

-----------------------------------------------------------------------------
(* What a package that arrives whole loads, and that its tensors fit.      *)

\* _build_weights: every weight lies inside the section that it is appended to.
LEMMA WeightsInside ==
  ASSUME NEW gr \in Model!CompiledGraph, NEW w \in DOMAIN gr.tensors, Model!IsWeight(gr, w)
  PROVE  Model!WeightOffset(gr, w) + gr.tensors[w].bytes <= Model!WeightsEnd(gr)[Len(gr.tensors)]
<1> DEFINE ts == gr.tensors
           Body(f, n) == [t \in 0..n |-> IF t = 0 THEN 0
                                          ELSE IF Model!IsWeight(gr, t)
                                               THEN Model!Align(f[t - 1], 16) + ts[t].bytes
                                          ELSE f[t - 1]]
           Done == {n \in Nat : \E f : f = Body(f, n)}
           end == CHOOSE f : f = Body(f, Len(ts))
           Lengths == {t \in Nat : t <= Len(ts) => end[t] \in Nat}
           Behind == {k \in Nat : w + k <= Len(ts) => end[w] <= end[w + k]}
<1>1. /\ Len(ts) \in Nat /\ DOMAIN ts = 1..Len(ts)
      /\ \A t \in 1..Len(ts) : ts[t].bytes \in Nat
  <2>1. ts \in Seq(Model!Tensor)
    BY DEF Model!CompiledGraph
  <2>2. \A t \in 1..Len(ts) : ts[t] \in Model!Tensor
    BY <2>1
  <2>3. \A r \in Model!Tensor : r.bytes \in Nat
    BY DEF Model!Tensor
  <2>4. QED
    BY <2>1, <2>2, <2>3
<1> HIDE DEF ts
<1>2. \A n \in Nat : n \in Done
  <2>1. 0 \in Done
    <3> DEFINE f == [t \in 0..0 |-> 0]
    <3>1. f = Body(f, 0)
      OBVIOUS
    <3>2. QED
      BY <3>1
  <2>2. ASSUME NEW n \in Nat, n \in Done PROVE n + 1 \in Done
    <3>1. PICK f : f = Body(f, n)
      BY <2>2
    <3> DEFINE last == IF Model!IsWeight(gr, n + 1)
                       THEN Model!Align(f[n], 16) + ts[n + 1].bytes ELSE f[n]
               h == [t \in 0..(n + 1) |-> IF t <= n THEN f[t] ELSE last]
    <3>2. \A t \in 0..(n + 1) : h[t] = Body(h, n + 1)[t]
      <4>1. \A t \in 1..(n + 1) : t - 1 \in 0..n /\ h[t - 1] = f[t - 1]
        OBVIOUS
      <4>2. \A t \in 0..n : f[t] = IF t = 0 THEN 0
                                    ELSE IF Model!IsWeight(gr, t)
                                         THEN Model!Align(f[t - 1], 16) + ts[t].bytes
                                    ELSE f[t - 1]
        BY <3>1
      <4>3. QED
        BY <4>1, <4>2
    <3>3. h = Body(h, n + 1)
      <4>1. h = [t \in 0..(n + 1) |-> h[t]]
        OBVIOUS
      <4>2. \A t \in 0..(n + 1) : h[t] = IF t = 0 THEN 0
                                         ELSE IF Model!IsWeight(gr, t)
                                              THEN Model!Align(h[t - 1], 16) + ts[t].bytes
                                         ELSE h[t - 1]
        BY <3>2
      <4> HIDE DEF h
      <4>3. QED
        BY <4>1, <4>2
    <3> HIDE DEF h
    <3>4. QED
      BY <3>3
  <2> HIDE DEF Done
  <2>3. QED
    BY <2>1, <2>2, NaturalInduction
<1>3. end = Body(end, Len(ts))
  <2>1. \E f : f = Body(f, Len(ts))
    BY <1>1, <1>2
  <2> HIDE DEF Body
  <2>2. QED
    BY <2>1
<1>4. Model!WeightsEnd(gr) = end
  BY Zenon DEF Model!WeightsEnd, ts
<1> HIDE DEF end
<1>5. /\ end[0] = 0
      /\ \A t \in 1..Len(ts) : end[t] = IF Model!IsWeight(gr, t)
                                         THEN Model!Align(end[t - 1], 16) + ts[t].bytes
                                         ELSE end[t - 1]
  <2>1. 0 \in 0..Len(ts) /\ \A t \in 1..Len(ts) : t \in 0..Len(ts) /\ t # 0
    BY <1>1
  <2>2. QED
    BY <1>3, <2>1
<1>6. \A v \in Nat : Model!Align(v, 16) \in Nat /\ Model!Align(v, 16) >= v
  BY SMT DEF Model!Align
<1>7. \A t \in Nat : t \in Lengths
  <2>1. 0 \in Lengths
    BY <1>5
  <2>2. ASSUME NEW t \in Nat, t \in Lengths PROVE t + 1 \in Lengths
    <3> SUFFICES ASSUME t + 1 <= Len(ts) PROVE end[t + 1] \in Nat
      OBVIOUS
    <3>2. t + 1 \in 1..Len(ts) /\ (t + 1) - 1 = t /\ end[t] \in Nat
      BY <1>1, <2>2
    <3>3. ts[t + 1].bytes \in Nat /\ Model!Align(end[t], 16) \in Nat
      BY <1>1, <1>6, <3>2
    <3>4. \/ end[t + 1] = Model!Align(end[t], 16) + ts[t + 1].bytes
          \/ end[t + 1] = end[t]
      BY <1>5, <3>2
    <3>5. QED
      BY <3>2, <3>3, <3>4
  <2> HIDE DEF Lengths
  <2>3. QED
    BY <2>1, <2>2, NaturalInduction
<1>8. \A t \in 0..Len(ts) : end[t] \in Nat
  BY <1>1, <1>7
<1>9. w \in 1..Len(ts) /\ ts[w].bytes \in Nat
  BY <1>1 DEF ts
<1>10. \A k \in Nat : k \in Behind
  <2>1. 0 \in Behind
    BY <1>8, <1>9
  <2>2. ASSUME NEW k \in Nat, k \in Behind PROVE k + 1 \in Behind
    <3> SUFFICES ASSUME w + (k + 1) <= Len(ts) PROVE end[w] <= end[w + (k + 1)]
      OBVIOUS
    <3> DEFINE u == w + (k + 1)
    <3>2. u \in 1..Len(ts) /\ u - 1 = w + k /\ u - 1 \in 0..Len(ts) /\ end[w] <= end[u - 1]
      BY <1>1, <1>9, <2>2
    <3> HIDE DEF u
    <3>3. end[u - 1] \in Nat /\ end[w] \in Nat /\ ts[u].bytes \in Nat
      BY <1>1, <1>8, <1>9, <3>2
    <3>4. end[u - 1] <= end[u]
      <4>1. \/ end[u] = Model!Align(end[u - 1], 16) + ts[u].bytes
            \/ end[u] = end[u - 1]
        BY <1>5, <3>2
      <4>2. Model!Align(end[u - 1], 16) \in Nat /\ Model!Align(end[u - 1], 16) >= end[u - 1]
        BY <1>6, <3>3
      <4>3. QED
        BY <3>3, <4>1, <4>2
    <3>5. end[u] \in Nat
      BY <1>1, <1>8, <3>2
    <3>6. QED
      BY <3>2, <3>3, <3>4, <3>5 DEF u
  <2> HIDE DEF Behind
  <2>3. QED
    BY <2>1, <2>2, NaturalInduction
<1>11. end[w] <= end[Len(ts)]
  <2>1. Len(ts) - w \in Nat /\ w + (Len(ts) - w) = Len(ts)
    BY <1>1, <1>9
  <2>2. Len(ts) - w \in Behind
    BY <1>10, <2>1
  <2>3. QED
    BY <2>1, <2>2
<1>12. end[w] = Model!WeightOffset(gr, w) + ts[w].bytes
  BY <1>4, <1>5, <1>9 DEF Model!WeightOffset
<1>13. QED
  BY <1>4, <1>11, <1>12 DEF ts

\* write_spk: header and directory, and then every section, lie in the file.
LEMMA EntriesInside ==
  ASSUME PackageInv, phase # "writing"
  PROVE  /\ header[1].size = 68 /\ header[1].bytes \in Nat /\ header[1].bytes >= 68
         /\ header[1].size + 32 * header[1].count <= header[1].bytes
         /\ \A i \in DOMAIN directory : /\ directory[i].offset \in Nat /\ directory[i].size \in Nat
                                        /\ directory[i].offset + directory[i].size <= header[1].bytes
<1> DEFINE n == Len(sections)
           Inside == {k \in Nat : k < n => End(directory[n - k]) <= offset}
<1>1. /\ n \in Nat /\ n > 0 /\ next = n + 1
      /\ directory \in Seq(Entry) /\ Len(directory) = n /\ offset \in Nat
      /\ header = <<[size |-> HeaderSize, count |-> n, bytes |-> offset]>>
      /\ offset = End(directory[n])
  <2>1. LayoutInv /\ Written
    BY DEF PackageInv
  <2>2. n \in Nat /\ n > 0
    BY <2>1, ListFacts DEF LayoutInv, TypeInv
  <2>3. next = n + 1 /\ header = <<[size |-> HeaderSize, count |-> n, bytes |-> offset]>>
    BY <2>1 DEF LayoutInv, EndInv, Written
  <2>4. next > 1 /\ next - 1 = n
    BY <2>2, <2>3
  <2>5. QED
    BY <2>1, <2>2, <2>3, <2>4 DEF LayoutInv, TypeInv, EntriesInv
<1>2. \A i \in 1..n : /\ directory[i].offset \in Nat /\ directory[i].size \in Nat
                      /\ directory[i].offset >= 68 + 32 * n
                      /\ i > 1 => End(directory[i - 1]) <= directory[i].offset
  <2>1. \A i \in 1..n : directory[i] \in Entry
    BY <1>1
  <2>2. \A i \in 1..n : i \in 1..(next - 1)
    BY <1>1
  <2>3. QED
    BY <2>1, <2>2 DEF PackageInv, LayoutInv, EntriesInv, Entry, Base, HeaderSize, EntrySize
<1> HIDE DEF n
<1>3. \A k \in Nat : k \in Inside
  <2>1. 0 \in Inside
    BY <1>1, <1>2 DEF End
  <2>2. ASSUME NEW k \in Nat, k \in Inside PROVE k + 1 \in Inside
    <3> SUFFICES ASSUME k + 1 < n PROVE End(directory[n - (k + 1)]) <= offset
      OBVIOUS
    <3> DEFINE i == n - k
    <3>2. i \in 1..n /\ i > 1 /\ i - 1 = n - (k + 1) /\ i - 1 \in 1..n /\ End(directory[i]) <= offset
      BY <1>1, <2>2
    <3> HIDE DEF i
    <3>3. End(directory[i - 1]) \in Nat /\ End(directory[i]) \in Nat /\ directory[i].offset \in Nat
      BY <1>2, <3>2 DEF End
    <3>4. directory[i].offset <= End(directory[i])
      BY <1>2, <3>2 DEF End
    <3>5. End(directory[i - 1]) <= directory[i].offset
      BY <1>2, <3>2
    <3>6. QED
      BY <1>1, <3>2, <3>3, <3>4, <3>5
  <2> HIDE DEF Inside
  <2>3. QED
    BY <2>1, <2>2, NaturalInduction
<1>4. \A i \in 1..n : directory[i].offset + directory[i].size <= offset
  <2> TAKE i \in 1..n
  <2>1. n - i \in Nat /\ n - i < n /\ n - (n - i) = i
    BY <1>1
  <2>2. n - i \in Inside
    BY <1>3, <2>1
  <2>3. QED
    BY <2>1, <2>2 DEF End
<1>5. header[1].size = 68 /\ header[1].count = n /\ header[1].bytes = offset
  BY <1>1 DEF HeaderSize
<1>6. 68 + 32 * n <= offset
  <2>1. n \in 1..n
    BY <1>1
  <2>2. QED
    BY <1>1, <1>2, <2>1 DEF End
<1>7. DOMAIN directory = 1..n
  BY <1>1
<1>8. QED
  BY <1>1, <1>2, <1>4, <1>5, <1>6, <1>7

\* The tables that spkv2_load_memory insists on, in a directory that lists them all:
\* each is there once and as long as its records.
LEMMA TablesListed ==
  ASSUME NEW gr \in Model!CompiledGraph, NEW p, Listed(p, gr)
  PROVE  /\ \A kind \in {3, 4, 5, 6, 12} : ~Model!Missing(p, kind)
         /\ Model!SectionSize(p, 3) = 68 * Len(gr.tensors)
         /\ Model!SectionSize(p, 4) = 76 * gr.nodes
         /\ Model!SectionSize(p, 12) = 4
<1> DEFINE n == Len(p.dir)
           K(i) == p.dir[i].kind
<1>1. gr.protected \in Int
  BY DEF Model!CompiledGraph
<1>2. /\ n \in Nat /\ DOMAIN p.dir = 1..n /\ p.dir \in Seq(Entry) /\ SectionKinds(gr, n)
      /\ \A i \in 1..n : K(i) = SectionAt(gr, i).kind /\ p.dir[i].size = SectionAt(gr, i).bytes
  BY SectionsListed DEF Listed
<1>3. n = 10 + (IF gr.channels = <<>> THEN 0 ELSE 1) + (IF gr.protected < 0 THEN 0 ELSE 1)
  BY <1>2 DEF SectionKinds
<1> HIDE DEF n
<1>4. {1, 2, 3, 4, 5, 6, 7, 8, n - 2, n - 1, n} \subseteq 1..n
      /\ (gr.channels # <<>> => 9 \in 1..n)
  BY <1>3
<1>5. /\ K(1) = 1 /\ K(2) = 2 /\ K(3) = 3 /\ K(4) = 4 /\ K(5) = 5 /\ K(6) = 6 /\ K(7) = 7
      /\ K(8) = 8
      /\ gr.channels # <<>> => K(9) = 9
      /\ ~(gr.protected < 0) => K(n - 2) = 13
      /\ K(n - 1) = 10 /\ K(n) = 12
  BY <1>2, <1>4 DEF SectionKinds
<1>6. p.dir[3].size = 68 * Len(gr.tensors) /\ p.dir[4].size = 76 * gr.nodes /\ p.dir[n].size = 4
  BY <1>2, <1>4 DEF SectionKinds, Model!TensorTableBytes, Model!NodeTableBytes, Model!TENSOR, Model!NODE
<1> HIDE DEF K
<1>7. ASSUME NEW i \in 1..n
      PROVE  /\ K(i) = 3 <=> i = 3
             /\ K(i) = 4 <=> i = 4
             /\ K(i) = 12 <=> i = n
  <2>1. CASE i \in 1..8
    <3>1. i = 1 \/ i = 2 \/ i = 3 \/ i = 4 \/ i = 5 \/ i = 6 \/ i = 7 \/ i = 8
      BY <2>1
    <3>2. K(i) = i
      BY <3>1, <1>5
    <3>3. QED
      BY <1>3, <3>1, <3>2
  <2>2. CASE i \notin 1..8
    <3>1. \/ i = 9 /\ gr.channels # <<>>
          \/ i = n - 2 /\ ~(gr.protected < 0)
          \/ i = n - 1
          \/ i = n
      BY <1>1, <1>3, <2>2
    <3>2. i # 3 /\ i # 4
      BY <2>2
    <3>3. \/ K(i) \in {9, 10, 13} /\ i # n
          \/ K(i) = 12 /\ i = n
      BY <1>3, <1>5, <3>1
    <3>4. QED
      BY <3>2, <3>3
  <2>3. QED
    BY <2>1, <2>2
<1>8. /\ 3 \in DOMAIN p.dir /\ \A j \in DOMAIN p.dir : p.dir[j].kind = 3 <=> j = 3
      /\ 4 \in DOMAIN p.dir /\ \A j \in DOMAIN p.dir : p.dir[j].kind = 4 <=> j = 4
      /\ n \in DOMAIN p.dir /\ \A j \in DOMAIN p.dir : p.dir[j].kind = 12 <=> j = n
  BY <1>2, <1>4, <1>7 DEF K
<1>9. /\ ~Model!Missing(p, 3) /\ Model!SectionSize(p, 3) = p.dir[3].size
      /\ ~Model!Missing(p, 4) /\ Model!SectionSize(p, 4) = p.dir[4].size
      /\ ~Model!Missing(p, 12) /\ Model!SectionSize(p, 12) = p.dir[n].size
  <2>1. p.dir \in Seq(Entry)
    BY <1>2
  <2>2. ~Model!Missing(p, 3) /\ Model!SectionSize(p, 3) = p.dir[3].size
    BY <2>1, <1>8, SectionFound
  <2>3. ~Model!Missing(p, 4) /\ Model!SectionSize(p, 4) = p.dir[4].size
    BY <2>1, <1>8, SectionFound
  <2>4. ~Model!Missing(p, 12) /\ Model!SectionSize(p, 12) = p.dir[n].size
    BY <2>1, <1>8, SectionFound
  <2>5. QED
    BY <2>2, <2>3, <2>4
<1>10. ~Model!Missing(p, 5) /\ ~Model!Missing(p, 6)
  BY <1>2, <1>4, <1>5 DEF Model!Missing, K
<1>11. QED
  BY <1>6, <1>9, <1>10

\* The package of a file that nothing happened to, whatever is known of it.
LEMMA WholePackage ==
  ASSUME PackageInv, phase # "writing", deployment.damage = "none"
  PROVE  /\ Listed(pkg[1], g) /\ g \in Model!CompiledGraph
         /\ pkg[1] = Model!Package(g, header[1], directory)
         /\ pkg[1].dir = directory /\ pkg[1].size = header[1].bytes
         /\ pkg[1].dirEnd = header[1].size + 32 * header[1].count
         /\ pkg[1].graph = g /\ pkg[1].arena = g.arena /\ pkg[1].weights = "stored"
         /\ pkg[1].magic /\ pkg[1].major /\ pkg[1].intact
         /\ pkg[1].tensors = Len(g.tensors) /\ pkg[1].nodes = g.nodes
<1>1. pkg[1] = Model!Package(g, header[1], directory)
  <2>1. pkg[1] \in Arrived
    BY DEF PackageInv
  <2>2. QED
    BY <2>1 DEF Arrived, Model!Damaged
<1>2. g \in Model!CompiledGraph
  BY DeploymentFacts DEF PackageInv
<1>3. /\ pkg[1].dir = directory /\ pkg[1].size = header[1].bytes
      /\ pkg[1].dirEnd = header[1].size + 32 * header[1].count
      /\ pkg[1].graph = g /\ pkg[1].arena = g.arena /\ pkg[1].weights = "stored"
      /\ pkg[1].magic /\ pkg[1].major /\ pkg[1].intact
      /\ pkg[1].tensors = Len(g.tensors) /\ pkg[1].nodes = g.nodes
  BY <1>1 DEF Model!Package
<1>4. Listed(pkg[1], g)
  <2>1. /\ LaidOut(header[1], directory)
        /\ Len(directory) = Len(Model!SectionsOf(g))
        /\ \A i \in 1..Len(directory) : /\ directory[i].kind = SectionAt(g, i).kind
                                        /\ directory[i].size = SectionAt(g, i).bytes
    BY WrittenPackage
  <2>2. QED
    BY <1>3, <2>1 DEF Listed, LaidOut
<1>5. QED
  BY <1>1, <1>2, <1>3, <1>4

\* Such a file passes every check of spkv2_load_memory, and the generator's.
LEMMA WholeLoads ==
  ASSUME PackageInv, phase # "writing", deployment.damage = "none"
  PROVE  /\ Model!LoadError(pkg[1]) = 0
         /\ Inputs # <<>> /\ Model!OutputsById(g) # <<>> =>
               Model!InspectSpk(pkg[1]) /\ Model!ParseSpkFull(pkg[1])
<1> DEFINE p == pkg[1]
<1>1. /\ Listed(p, g) /\ g \in Model!CompiledGraph
      /\ p.dir = directory /\ p.size = header[1].bytes
      /\ p.dirEnd = header[1].size + 32 * header[1].count
      /\ p.graph = g /\ p.weights = "stored" /\ p.magic /\ p.major /\ p.intact
      /\ p.tensors = Len(g.tensors) /\ p.nodes = g.nodes
  BY WholePackage
<1> HIDE DEF p
<1>2. /\ \A kind \in {3, 4, 5, 6, 12} : ~Model!Missing(p, kind)
      /\ Model!SectionSize(p, 3) = 68 * Len(g.tensors)
      /\ Model!SectionSize(p, 4) = 76 * g.nodes
      /\ Model!SectionSize(p, 12) = 4
  BY <1>1, TablesListed
<1>3. /\ p.size \in Nat /\ p.size >= 68 /\ p.dirEnd <= p.size
      /\ \A i \in DOMAIN p.dir : /\ p.dir[i].offset \in Nat /\ p.dir[i].size \in Nat
                                 /\ p.dir[i].offset + p.dir[i].size <= p.size
      /\ header[1].size = 68
  BY <1>1, EntriesInside
<1>4. header[1].count \in Nat
  BY WrittenPackage DEF LaidOut
<1>5. p.dirEnd \in Nat
  BY <1>1, <1>3, <1>4
<1>6. \A i \in DOMAIN p.dir : Model!InFile(p, p.dir[i])
  BY <1>3 DEF Model!InFile
<1>7. Len(g.tensors) \in Nat /\ g.nodes \in Nat
  BY <1>1 DEF Model!CompiledGraph
<1>8. ~Model!TableLost(p)
  <2>1. ~(Model!SectionSize(p, 3) < 68 * p.tensors) /\ ~(Model!SectionSize(p, 4) < 76 * p.nodes)
    BY <1>1, <1>2, <1>7
  <2>2. QED
    BY <1>2, <2>1 DEF Model!TableLost, Model!TENSOR_TABLE, Model!NODE_TABLE, Model!ATTRIBUTES,
       Model!WEIGHTS, Model!TENSOR, Model!NODE
<1>9. Model!LoadError(p) = 0
  <2>1. ~(p.size < 68) /\ ~(p.dirEnd > p.size) /\ ~(Model!SectionSize(p, Model!CHECKSUM_SECTION) < 4)
    BY <1>2, <1>3, <1>5 DEF Model!CHECKSUM_SECTION
  <2>2. p.weights # "zeroed"
    BY <1>1
  <2>3. QED
    BY <1>1, <1>6, <1>8, <2>1, <2>2 DEF Model!LoadError
<1>10. ASSUME Inputs # <<>>, Model!OutputsById(g) # <<>>
       PROVE  Model!InspectSpk(p) /\ Model!ParseSpkFull(p)
  <2>1. Model!SectionSize(p, 3) >= 68 * p.tensors
    BY <1>1, <1>2, <1>7
  <2>2. ~Model!Missing(p, 3)
    BY <1>2
  <2>3. QED
    BY <1>1, <1>3, <1>10, <2>1, <2>2 DEF Inputs, Model!InspectSpk, Model!ParseSpkFull,
       Model!DirectoryReadable, Model!TENSOR_TABLE, Model!TENSOR
<1>11. QED
  BY <1>9, <1>10 DEF p

\* Every tensor has its place: the weights in their section, the others in the arena.
Fitting(c) == Model!WeightsFit(c) /\ Model!ActivationsFit(c)

\* What the library loads of a file that arrived whole, and that its tensors fit.
LEMMA WholeSource ==
  ASSUME PackageInv, phase = "deployed", deployment.damage = "none", way \in {"library", "blob"}
  PROVE  /\ Model!LoadError(Source) = 0
         /\ \A c \in Contexts : Fitting(c)
<1>1. Source = pkg[1]
  <2>1. Source = SourceOf(pkg[1], way)
    BY DeployedProgram
  <2>2. QED
    BY <2>1 DEF SourceOf, Model!InlineWays, Model!ExternalWays, Model!GenerateFromSpk
<1>2. /\ Model!LoadError(pkg[1]) = 0 /\ pkg[1].graph = g /\ pkg[1].arena = g.arena
      /\ g \in Model!CompiledGraph
  BY WholeLoads, WholePackage
<1>3. PlanFits(g)
  BY DeploymentFacts DEF PackageInv
<1>4. ASSUME NEW c \in Contexts PROVE Fitting(c)
  <2>1. c.graph = g /\ c.arena = g.arena
    BY <1>1, <1>2 DEF Contexts
  <2>2. Model!WeightsFit(c)
    BY <1>2, <2>1, WeightsInside DEF Model!WeightsFit
  <2>3. Model!ActivationsFit(c)
    <3>1. \A t \in DOMAIN g.tensors : g.tensors[t].class \in {"WEIGHT", "ARENA", "EXTERNAL"}
      <4>1. g.tensors \in Seq(Model!Tensor)
        BY <1>2 DEF Model!CompiledGraph
      <4>2. \A t \in DOMAIN g.tensors : g.tensors[t] \in Model!Tensor
        BY <4>1
      <4>3. \A r \in Model!Tensor : r.class \in {"WEIGHT", "ARENA", "EXTERNAL"}
        BY DEF Model!Tensor
      <4>4. QED
        BY <4>2, <4>3
    <3>2. QED
      BY <1>3, <2>1, <3>1 DEF PlanFits, Model!ActivationsFit, Model!IsWeight
  <2>4. QED
    BY <2>2, <2>3 DEF Fitting
<1>5. QED
  BY <1>1, <1>2, <1>4

-----------------------------------------------------------------------------
(* What the functions answer then.                                         *)

\* What the functions answer when the package is whole and no allocation fails.
Sound ==
    /\ fail = "none"
    /\ Model!LoadError(Source) = 0
    /\ \A c \in Contexts : Fitting(c)

\* An answer is the one that was returned, whatever else is changed.
LEMMA ReturnedAnswer ==
  ASSUME NEW s \in States, NEW rc
  PROVE  Model!Returns(s, rc).rc = rc
BY DEF States, Model!Returns

\* Also next to another context.
LEMMA AnswerWith ==
  ASSUME NEW s \in States, NEW c, NEW rc
  PROVE  Model!Returns(Model!With(s, c), rc).rc = rc
BY DEF States, Model!Returns, Model!With

\* spkv2_prepare with nothing to fail: it succeeds unless a buffer is too small.
LEMMA PrepareAnswers ==
  ASSUME \A c \in Contexts : Fitting(c), NEW s \in States, s.ctx # <<>>,
         NEW arena \in Buffers, NEW scratch \in Buffers,
         NEW a, a = Model!Prepare(s, arena, scratch, "none")
  PROVE  /\ a.rc \in {0, -2}
         /\ arena = "host" /\ scratch = "host" => a.rc = 0
<1> DEFINE x == Model!TakeArena(s, arena, "none")
           y == Model!TakeScratch(x, scratch, "none")
           z == Model!PlaceTensors(y)
<1>1. a = IF x.rc # 0 THEN x ELSE IF y.rc # 0 THEN y ELSE z
  BY DEF Model!Prepare
<1>2. Provided(x, s) /\ ArenaTaken(x, s, arena)
  BY TakeArenaFacts
<1>3. x \in States /\ x.ctx # <<>>
  BY <1>2 DEF Provided, Follows
<1>4. x.rc \in {0, -2}
  <2> DEFINE c == s.ctx[1]
             given == [c EXCEPT !.ownsArena = FALSE]
             taken == [c EXCEPT !.ownsArena = TRUE]
             t == Model!Allocate(s, {"arena"})
  <2>1. \/ x = Model!Returns(s, -2)
        \/ x = Model!Returns(Model!With(t, taken), 0)
        \/ x = Model!Returns(Model!With(s, given), 0)
    BY Zenon DEF Model!TakeArena
  <2>2. t \in States
    BY StateAllocate
  <2> HIDE DEF t, given, taken
  <2>3. /\ Model!Returns(s, -2).rc = -2
        /\ Model!Returns(Model!With(t, taken), 0).rc = 0
        /\ Model!Returns(Model!With(s, given), 0).rc = 0
    BY <2>2, ReturnedAnswer, AnswerWith
  <2> HIDE DEF x
  <2>4. QED
    BY <2>1, <2>3
<1> HIDE DEF x
<1>5. Provided(y, x) /\ ScratchTaken(y, x, scratch)
  BY <1>3, TakeScratchFacts
<1>6. y \in States /\ y.ctx # <<>>
  BY <1>5 DEF Provided, Follows
<1>7. x.rc = 0 => y.rc \in {0, -2}
  <2> DEFINE c == x.ctx[1]
             given == [c EXCEPT !.ownsScratch = FALSE]
             taken == [c EXCEPT !.ownsScratch = TRUE]
             t == Model!Allocate(x, {"scratch"})
  <2>1. \/ y = Model!Returns(x, 0)
        \/ y = Model!Returns(x, -2)
        \/ y = Model!Returns(Model!With(t, taken), 0)
        \/ y = Model!Returns(Model!With(x, given), 0)
    BY DEF Model!TakeScratch, Buffers
  <2>2. t \in States
    BY <1>3, StateAllocate
  <2> HIDE DEF t, given, taken
  <2>3. /\ Model!Returns(x, 0).rc = 0
        /\ Model!Returns(x, -2).rc = -2
        /\ Model!Returns(Model!With(t, taken), 0).rc = 0
        /\ Model!Returns(Model!With(x, given), 0).rc = 0
    BY <1>3, <2>2, ReturnedAnswer, AnswerWith
  <2> HIDE DEF y
  <2>4. QED
    BY <2>1, <2>3
<1> HIDE DEF y
<1>8. z.rc = 0
  <2> DEFINE c == y.ctx[1]
             d == [c EXCEPT !.place = [t \in DOMAIN @ |-> Model!Storage(c.graph, t)],
                            !.content = [t \in DOMAIN @ |-> "none"]]
  <2>1. c \in Contexts
    BY <1>6, StateFields
  <2>2. Model!WeightsFit(c) /\ Model!ActivationsFit(c)
    BY <2>1 DEF Fitting
  <2>3. z = Model!Returns(Model!With(y, d), 0)
    BY <2>2, Zenon DEF Model!PlaceTensors
  <2> HIDE DEF d
  <2>4. QED
    BY <1>6, <2>3, AnswerWith
<1> HIDE DEF z
<1>9. arena = "host" /\ scratch = "host" => x.rc = 0 /\ y.rc = 0
  BY <1>2, <1>5 DEF ArenaTaken, ScratchTaken
<1>10. QED
  BY <1>1, <1>4, <1>7, <1>8, <1>9

\* spkv2_load_memory and spkv2_load_file of a sound package make a context.
LEMMA LoadAnswers ==
  ASSUME Sound, way \notin Model!InlineWays, NEW s \in States, s.ctx = <<>>,
         NEW a, a \in {Model!LoadMemory(s, Source, fail), Model!LoadFile(s, Source, fail)}
  PROVE  a.rc = 0 /\ a.ctx # <<>> /\ a \in States
<1> DEFINE b == Model!LoadMemory(s, Source, fail)
           l == Model!LoadFile(s, Source, fail)
           t == Model!Allocate(s, Model!LoadBlocks \ {fail})
           c == [Model!Context(Source) EXCEPT !.dtors = fail # "dtors"]
           u == Model!Allocate(b, {"model"})
           d == [b.ctx[1] EXCEPT !.ownsModel = TRUE]
<1>1. fail = "none" /\ Model!LoadError(Source) = 0
  BY DEF Sound
<1>2. fail \notin Model!LoadBlocks \ {"dtors"} /\ fail # "model"
  BY <1>1 DEF Model!LoadBlocks
<1>3. b = Model!Returns(Model!With(t, c), 0)
  BY <1>1, <1>2, Zenon DEF Model!LoadMemory
<1>4. b.rc = 0
  <2>1. t \in States
    BY StateAllocate
  <2> HIDE DEF b, t, c
  <2>2. QED
    BY <1>3, <2>1, AnswerWith
<1>5. Loaded(b, s)
  BY LoadMemoryFacts
<1>6. l = Model!With(u, d)
  BY <1>2, <1>4, Zenon DEF Model!LoadFile
<1>7. Loaded(l, s)
  BY LoadFileFacts
<1> HIDE DEF b, l, c, d
<1>8. l.rc = 0
  <2>1. u \in States /\ u.rc = b.rc
    BY <1>5, StateAllocate DEF Loaded
  <2> HIDE DEF u
  <2>2. Model!With(u, d).rc = u.rc
    BY <2>1 DEF States, Model!With
  <2>3. QED
    BY <1>4, <1>6, <2>1, <2>2
<1>9. a = b \/ a = l
  BY DEF b, l
<1>10. QED
  BY <1>4, <1>5, <1>7, <1>8, <1>9 DEF Loaded

\* init of the wrapper succeeds, and leaves a context.
LEMMA BlobInitAnswers ==
  ASSUME Sound, way \notin Model!InlineWays, NEW s \in States, NEW p, p.pkg = Source,
         NEW a, a = Model!BlobInit(s, p, fail)
  PROVE  a.rc = 0
<1>1. CASE s.ctx # <<>>
  BY <1>1, ReturnedAnswer DEF Model!BlobInit
<1>2. CASE s.ctx = <<>>
  <2> DEFINE x == Model!LoadMemory(s, Source, fail)
             y == Model!Prepare(x, "host", "host", "none")
  <2>1. x.rc = 0 /\ x.ctx # <<>> /\ x \in States
    BY <1>2, LoadAnswers
  <2>2. a = IF y.rc # 0 THEN Model!Returns(Model!Free(y), y.rc) ELSE y
    BY <1>2, <2>1, Zenon DEF Model!BlobInit, Model!LoadAndPrepare
  <2> HIDE DEF x
  <2>3. y.rc = 0
    BY <2>1, PrepareAnswers DEF Sound, Buffers
  <2> HIDE DEF y
  <2>4. QED
    BY <2>2, <2>3
<1>3. QED
  BY <1>1, <1>2

\* init of the inline program succeeds when it gets its weights file, if it needs one.
LEMMA InlineInitAnswers ==
  ASSUME fail = "none", NEW s \in States, NEW p, NEW f \in {fail, "none"},
         NEW file, p.way = "inlineExternal" => file = "right",
         NEW a, a = Model!InlineInit(s, p, file, f)
  PROVE  a.rc = 0
<1> DEFINE read == IF p.way = "inlineExternal" THEN Model!Allocate(s, {"weights"}) ELSE s
           placed == [s.ctx[1] EXCEPT !.place = [t \in DOMAIN @ |-> Model!Storage(p.pkg.graph, t)]]
<1>1. p.way = "inlineExternal" => Model!FileError(file, f) = 0
  BY DEF Model!FileError
<1>2. \/ a = Model!Returns(s, 0)
      \/ a = Model!Returns([Model!With(read, placed) EXCEPT !.ready = TRUE], 0)
  BY <1>1, Zenon DEF Model!InlineInit
<1>3. read \in States
  BY StateAllocate
<1> HIDE DEF read, placed
<1>4. Model!Returns([Model!With(read, placed) EXCEPT !.ready = TRUE], 0).rc = 0
  BY <1>3 DEF States, Model!With, Model!Returns
<1>5. QED
  BY <1>2, <1>4, ReturnedAnswer

\* Nodes that use no null or dangling pointer succeed.
LEMMA RunNodesAnswers ==
  ASSUME NEW s \in States, s.ctx # <<>>, NEW a, a = Model!RunNodes(s), ~a.undefined
  PROVE  a.rc = 0
BY RunNodesFacts, UndefinedFacts DEF Executed

\* main_test.c of the wrapper, for a model with one input and one output, ends well.
LEMMA MainTestBlobAnswers ==
  ASSUME GraphGood, Sound, way \notin Model!InlineWays, NEW s, BlobInv(s), ~s.undefined, s.rc = 0,
         NEW p, p.pkg = Source, p.way = "blob", Len(Ins) = 1, Len(Outs) = 1,
         NEW a, a = Model!MainTest(s, p, fail)
  PROVE  a.rc = 0
<1> DEFINE x == Model!BlobRun(s, p, 1, 1, fail)
           b == Model!BlobInit(s, p, fail)
           fed == Model!BindInputs(b, 1)
           bound == Model!BindOutputs(fed, 1)
           e == Model!Execute(bound)
<1>1. x = IF b.rc # 0 THEN b ELSE IF fed.rc # 0 THEN fed ELSE IF bound.rc # 0 THEN bound ELSE e
  BY Zenon DEF Model!BlobRun
<1>2. BlobInv(x) /\ Ran(x, s, 1, 1)
  <2>1. 1 \in Nat
    OBVIOUS
  <2>2. QED
    BY <2>1, BlobRunFacts
<1>3. x.undefined = FALSE /\ x \in States
  BY <1>2, StateFields DEF Ran, BlobInv
<1>4. a = IF x.rc # 0 THEN Model!Returns(x, 1) ELSE Model!Returns(Model!Free(x), 0)
  <2>1. p.way \in Model!BlobWays /\ p.way # "inlineExternal"
    BY DEF Model!BlobWays
  <2>2. a = IF s.rc # 0 THEN Model!Returns(s, 1)
            ELSE IF x.undefined THEN x
            ELSE IF x.rc # 0 THEN Model!Returns(x, 1)
            ELSE Model!Returns(Model!Free(x), 0)
    BY <2>1, Zenon DEF Model!MainTest, Model!ModelRun, Model!ModelFree
  <2> HIDE DEF x
  <2>3. QED
    BY <1>3, <2>2
<1> HIDE DEF x
<1>5. b.rc = 0 /\ BlobReady(b, s)
  BY BlobInitAnswers, BlobInitFacts DEF BlobInv
<1>6. b \in States /\ b.ctx # <<>> /\ Placement(b)
  BY <1>5, BlobReadyInv DEF BlobReady, BlobInv
<1> HIDE DEF b
<1>7. fed.rc = 0 /\ fed \in States /\ fed.ctx # <<>> /\ KnownBound(fed, b, 1, 0)
  <2>1. b.ctx[1].graph = Source.graph
    BY <1>6, StateFields, ContextFields
  <2>2. Model!HasInput(b.ctx[1], 1)
    BY <2>1 DEF Model!HasInput, GraphGood, Ins
  <2>3. fed = Model!Returns(Model!BindKnown(b, 1, 0), 0)
    BY <2>2, Zenon DEF Model!BindInputs
  <2> HIDE DEF fed
  <2>4. KnownBound(fed, b, 1, 0) /\ fed.rc = 0
    BY <1>6, <2>3, BoundReturns
  <2>5. QED
    BY <2>4 DEF KnownBound, Changed
<1> HIDE DEF fed
<1>8. bound.rc = 0 /\ bound \in States /\ bound.ctx # <<>> /\ KnownBound(bound, fed, 0, 1)
  <2>1. fed.ctx[1].read = Found
    BY <1>7, StateFields, ContextFields
  <2>2. Model!HasOutput(fed.ctx[1], 1)
    BY <2>1 DEF Model!HasOutput, GraphGood, Outs
  <2>3. bound = Model!Returns(Model!BindKnown(fed, 0, 1), 0)
    BY <2>2, Zenon DEF Model!BindOutputs
  <2> HIDE DEF bound
  <2>4. KnownBound(bound, fed, 0, 1) /\ bound.rc = 0
    BY <1>7, <2>3, BoundReturns
  <2>5. QED
    BY <2>4 DEF KnownBound, Changed
<1> HIDE DEF bound
<1>9. x.rc = 0
  <2>1. x = e
    BY <1>1, <1>5, <1>7, <1>8
  <2>2. AllBound(bound)
    BY <1>6, <1>7, <1>8, TwoBinds
  <2>3. Executed(e, bound)
    BY <1>8, <2>2, BoundRun
  <2>4. QED
    BY <2>1, <2>3 DEF Executed
<1>10. Model!Free(x) \in States
  BY <1>3, FreeFacts
<1>11. QED
  BY <1>4, <1>9, <1>10, ReturnedAnswer

\* So does the one of the inline program, which reads its weights file itself.
LEMMA MainTestInlineAnswers ==
  ASSUME GraphGood, fail = "none", way \in Model!InlineWays, NEW s, InlineInv(s), ~s.undefined, s.rc = 0,
         NEW p, p.pkg = Source, p.way = way, Len(Ins) = 1, Len(Outs) = 1,
         NEW a, a = Model!MainTest(s, p, fail)
  PROVE  a.rc = 0
<1> DEFINE w == IF p.way = "inlineExternal" THEN Model!InlineInit(s, p, "right", fail) ELSE s
           x == Model!InlineRun(w, p)
           r == IF p.way = "inline" THEN Model!InlineInit(w, p, "right", "none")
                ELSE Model!Returns(w, IF w.ready THEN 0 ELSE -3)
           b == Model!BindKnown(r, 1, 1)
<1>1. /\ InlineInv(w) /\ w.undefined = s.undefined
      /\ w.rc = 0
      /\ p.way = "inlineExternal" => w.ready
  <2>1. CASE p.way = "inlineExternal"
    <3>1. w = Model!InlineInit(s, p, "right", fail)
      BY <2>1
    <3> HIDE DEF w
    <3>2. InlineReady(w, s)
      BY <3>1, InlineInitFacts
    <3>3. w.rc = 0
      BY <3>1, InlineInitAnswers DEF InlineInv
    <3>4. QED
      BY <3>2, <3>3 DEF InlineReady
  <2>2. CASE p.way # "inlineExternal"
    BY <2>2
  <2>3. QED
    BY <2>1, <2>2
<1>2. x = IF r.rc # 0 THEN r ELSE Model!RunNodes(b)
  BY Zenon DEF Model!InlineRun
<1>3. a = IF w.rc # 0 THEN Model!Returns(w, 1)
          ELSE IF x.undefined THEN x
          ELSE IF x.rc # 0 THEN Model!Returns(x, 1)
          ELSE Model!Returns(Model!InlineFree(x, p), 0)
  <2>1. p.way \notin Model!BlobWays
    BY DEF Model!BlobWays, Model!InlineWays
  <2>2. QED
    BY <2>1, Zenon DEF Model!MainTest, Model!ModelRun, Model!ModelFree
<1> HIDE DEF w
<1>4. InlineInv(x) /\ Ran(x, w, 1, 1)
  BY <1>1, InlineRunFacts
<1>5. x.undefined = FALSE /\ x \in States
  BY <1>1, <1>4, StateFields DEF Ran, InlineInv
<1>6. r.rc = 0 /\ InlineInv(r)
  <2>1. CASE p.way = "inline"
    <3>1. r = Model!InlineInit(w, p, "right", "none")
      BY <2>1
    <3> HIDE DEF r
    <3>2. r.rc = 0
      BY <1>1, <2>1, <3>1, InlineInitAnswers DEF InlineInv
    <3>3. InlineReady(r, w)
      BY <1>1, <3>1, InlineInitFacts
    <3>4. QED
      BY <3>2, <3>3 DEF InlineReady
  <2>2. CASE p.way # "inline"
    <3>1. p.way = "inlineExternal"
      BY <2>2 DEF Model!InlineWays
    <3>2. r = Model!Returns(w, 0)
      BY <1>1, <2>2, <3>1
    <3> HIDE DEF r
    <3>3. w \in States
      BY <1>1 DEF InlineInv
    <3>4. r \in States /\ r.rc = 0 /\ r.ctx = w.ctx /\ r.ready = w.ready
      BY <3>2, <3>3, ReturnsFacts
    <3>5. QED
      BY <1>1, <3>4 DEF InlineInv, PackedInv, Placement
  <2>3. QED
    BY <2>1, <2>2
<1> HIDE DEF r
<1>7. b \in States /\ b.ctx # <<>>
  BY <1>6, BindKnownFacts DEF InlineInv, KnownBound, Changed
<1> HIDE DEF b
<1>8. x.rc = 0
  <2>1. x = Model!RunNodes(b)
    BY <1>2, <1>6
  <2> HIDE DEF x
  <2>2. QED
    BY <1>5, <1>7, <2>1, RunNodesAnswers
<1> HIDE DEF x
<1>9. Model!InlineFree(x, p) \in States
  BY <1>4, InlineFreeFacts DEF InlineInv
<1>10. w.rc = 0
  BY <1>1
<1>11. QED
  BY <1>3, <1>5, <1>8, <1>9, <1>10, ReturnedAnswer

-----------------------------------------------------------------------------
(* The calls of a deployment, and ModelStarts.                             *)

\* ModelStarts, of any state and host of a deployed program.
Started(s, h) ==
    (Undamaged /\ ~s.undefined /\ way # "blobExternal") =>
        /\ h.last = "load" => s.ctx # <<>>
        /\ h.last = "prepare" => s.rc \in {0, -2}
        /\ (h.last = "init" /\ (way \in Model!ExternalWays => h.file = "right"))
              => s.rc = 0
        /\ h.last = "main_test" /\ h.careful
              /\ (way \in Model!ExternalWays => Model!HasWeights(pkg[1])) => s.rc = 0

\* The calls that ModelStarts promises nothing of.
LEMMA OtherCalls ==
  ASSUME NEW s, NEW h, h.last \notin {"load", "prepare", "init", "main_test"}
  PROVE  Started(s, h)
BY DEF Started

\* Whatever is compiled in whole is sound.
LEMMA UndamagedSound ==
  ASSUME PackageInv, phase = "deployed", Undamaged, way # "blobExternal"
  PROVE  /\ way \in {"library", "blob"} \cup Model!InlineWays
         /\ way \notin Model!InlineWays => Sound
<1>1. way \in {"library"} \cup Model!BlobWays \cup Model!InlineWays
  BY DeploymentFacts DEF PackageInv
<1>2. way \in {"library", "blob"} \cup Model!InlineWays
  BY <1>1 DEF Model!BlobWays
<1>3. ASSUME way \notin Model!InlineWays PROVE Sound
  <2>1. way \in {"library", "blob"}
    BY <1>2, <1>3
  <2>2. Model!LoadError(Source) = 0 /\ \A c \in Contexts : Fitting(c)
    BY <2>1, WholeSource DEF Undamaged
  <2>3. QED
    BY <2>2 DEF Sound, Undamaged
<1>4. QED
  BY <1>2, <1>3

\* spkv2_load_memory and spkv2_load_file make a context of a whole package.
LEMMA LoadStarts ==
  ASSUME PackageInv, phase = "deployed", DeployedInv(st, host), Load
  PROVE  Started(st', host')
<1>1. /\ way = "library" /\ way \notin Model!InlineWays /\ st.ctx = <<>> /\ st \in States
  BY DEF Load, Library, HasContext, Model!InlineWays, DeployedInv, StateInv
<1>2. Source = pkg[1]
  BY <1>1 DEF Source
<1>3. /\ st' \in {Model!LoadMemory(st, Source, fail), Model!LoadFile(st, Source, fail)}
      /\ host'.last = "load"
  BY <1>2 DEF Load, Call, NewHost
<1>4. ASSUME Undamaged PROVE st'.ctx # <<>>
  <2>1. way # "blobExternal"
    BY <1>1
  <2>2. Sound
    BY <1>1, <1>4, <2>1, UndamagedSound
  <2>3. QED
    BY <1>1, <1>3, <2>2, LoadAnswers
<1>5. QED
  BY <1>3, <1>4 DEF Started

\* spkv2_prepare refuses nothing but a buffer that is too small.
LEMMA PrepareStarts ==
  ASSUME PackageInv, phase = "deployed", DeployedInv(st, host), Prepare
  PROVE  Started(st', host')
<1>1. /\ way = "library" /\ way \notin Model!InlineWays /\ st.ctx # <<>> /\ st \in States
      /\ DOMAIN host = HostFields
  BY DEF Prepare, Library, HasContext, Model!InlineWays, DeployedInv, StateInv, HostInv
<1>2. PICK arena \in Buffers, scratch \in Buffers :
        /\ st' = Model!Prepare(st, arena, scratch, fail)
        /\ host' = [[host EXCEPT !.careful = @ /\ host.last = "load",
                                 !.prepared = (st'.rc = 0), !.supplied = {}, !.bound = {},
                                 !.ran = FALSE]
                      EXCEPT !.calls = @ + 1, !.last = "prepare"]
  BY DEF Prepare, Call, Buffers
<1>3. host'.last = "prepare"
  BY <1>1, <1>2 DEF HostFields
<1>4. ASSUME Undamaged PROVE st'.rc \in {0, -2}
  <2>1. way # "blobExternal"
    BY <1>1
  <2>2. fail = "none" /\ \A c \in Contexts : Fitting(c)
    BY <1>1, <1>4, <2>1, UndamagedSound DEF Sound
  <2>3. QED
    BY <1>1, <1>2, <2>2, PrepareAnswers
<1>5. QED
  BY <1>3, <1>4 DEF Started

\* model_init succeeds, of the inline program if its weights file is the right one.
LEMMA InitStarts ==
  ASSUME PackageInv, phase = "deployed", DeployedInv(st, host), ApiInit
  PROVE  Started(st', host')
<1>1. /\ way \in Model!BlobWays \cup Model!InlineWays
      /\ way \in Model!BlobWays <=> way \notin Model!InlineWays
      /\ st \in States /\ DOMAIN host = HostFields
      /\ ProgramMade
  BY GeneratedCall DEF ApiInit, StateInv, HostInv
<1>2. PICK file, outcome :
        /\ st' = Model!ModelInit(st, prog[1], file, fail, outcome)
        /\ host' = [[host EXCEPT !.started = TRUE, !.file = file]
                      EXCEPT !.calls = @ + 1, !.last = "init"]
  BY DEF ApiInit, Call
<1>3. host'.last = "init" /\ host'.file = file
  BY <1>1, <1>2 DEF HostFields
<1>4. ASSUME Undamaged, way # "blobExternal", way \in Model!ExternalWays => file = "right"
      PROVE  st'.rc = 0
  <2>1. CASE way \in Model!BlobWays
    <3>1. way = "blob" /\ way \notin Model!InlineWays
      BY <1>1, <1>4, <2>1 DEF Model!BlobWays
    <3>2. Sound
      BY <1>4, <3>1, UndamagedSound
    <3>3. prog[1].pkg = Source /\ prog[1].way = "blob"
      BY <1>1, <3>1 DEF ProgramMade
    <3>4. st' = Model!BlobInit(st, prog[1], fail)
      BY <1>2, <3>3 DEF Model!ModelInit, Model!InlineWays
    <3>5. QED
      BY <1>1, <3>1, <3>2, <3>3, <3>4, BlobInitAnswers
  <2>2. CASE way \in Model!InlineWays
    <3>1. prog[1].pkg = Source /\ prog[1].way = way
      BY <1>1, <2>2 DEF ProgramMade
    <3>2. prog[1].way # "blob" /\ prog[1].way # "blobExternal"
      BY <2>2, <3>1 DEF Model!InlineWays
    <3>3. st' = Model!InlineInit(st, prog[1], file, fail)
      BY <1>2, <2>2, <3>1, <3>2 DEF Model!ModelInit
    <3>4. prog[1].way = "inlineExternal" => file = "right"
      BY <1>4, <3>1 DEF Model!ExternalWays
    <3>5. fail = "none" /\ fail \in {fail, "none"}
      BY <1>4 DEF Undamaged
    <3>6. QED
      BY <1>1, <3>3, <3>4, <3>5, InlineInitAnswers
  <2>3. QED
    BY <1>1, <2>1, <2>2
<1>5. QED
  BY <1>3, <1>4 DEF Started

\* The test program of a model with one input and one output ends well.
LEMMA TestStarts ==
  ASSUME PackageInv, phase = "deployed", DeployedInv(st, host), st.rc = 0, TestProgram
  PROVE  Started(st', host')
<1>1. /\ way \in Model!BlobWays \cup Model!InlineWays
      /\ way \in Model!BlobWays <=> way \notin Model!InlineWays
      /\ ~st.undefined /\ DOMAIN host = HostFields /\ host.careful \in BOOLEAN
      /\ way \in Model!BlobWays => BlobInv(st)
      /\ way \in Model!InlineWays => InlineInv(st)
      /\ ProgramMade
      /\ GraphGood /\ Ins = Inputs /\ Len(Outs) = Len(g.outputs)
  BY GeneratedCall DEF TestProgram, HostInv
<1> DEFINE single == Len(Ins) = 1 /\ Len(Outs) = 1
<1>2. /\ st' = Model!MainTest(st, prog[1], fail)
      /\ host' = [[host EXCEPT !.calls = MaxCalls - 1, !.careful = @ /\ single]
                    EXCEPT !.calls = @ + 1, !.last = "main_test"]
  BY <1>1 DEF TestProgram, Call
<1>3. host'.last = "main_test" /\ (host'.careful => single)
  <2>1. single \in BOOLEAN
    OBVIOUS
  <2> HIDE DEF single
  <2>2. QED
    BY <1>1, <1>2, <2>1 DEF HostFields
<1>4. ASSUME Undamaged, way # "blobExternal", single
      PROVE  st'.rc = 0
  <2>1. CASE way \in Model!BlobWays
    <3>1. way = "blob" /\ way \notin Model!InlineWays
      BY <1>1, <1>4, <2>1 DEF Model!BlobWays
    <3>2. Sound
      BY <1>4, <3>1, UndamagedSound
    <3>3. prog[1].pkg = Source /\ prog[1].way = "blob"
      BY <1>1, <3>1 DEF ProgramMade
    <3>4. QED
      BY <1>1, <1>2, <1>4, <2>1, <3>1, <3>2, <3>3, MainTestBlobAnswers
  <2>2. CASE way \in Model!InlineWays
    <3>1. prog[1].pkg = Source /\ prog[1].way = way
      BY <1>1, <2>2 DEF ProgramMade
    <3>2. fail = "none"
      BY <1>4 DEF Undamaged
    <3>3. QED
      BY <1>1, <1>2, <1>4, <2>2, <3>1, <3>2, MainTestInlineAnswers
  <2>3. QED
    BY <1>1, <2>1, <2>2
<1>5. QED
  BY <1>3, <1>4 DEF Started

\* Whichever call the host makes of a whole package, it gets what it was promised.
LEMMA CallStarts ==
  ASSUME DeploymentInv, HostCall
  PROVE  Started(st', host')
<1>1. PackageInv /\ phase = "deployed"
  BY HostCallsKeepPackage DEF DeploymentInv
<1>2. DeployedInv(st, host)
  BY <1>1, NothingCalledGood DEF DeploymentInv, RuntimeInv
<1>3. DOMAIN host = HostFields
  BY <1>2 DEF DeployedInv, HostInv
<1>4. CASE Load
  BY <1>1, <1>2, <1>4, LoadStarts
<1>5. CASE Prepare
  BY <1>1, <1>2, <1>5, PrepareStarts
<1>6. CASE ApiInit
  BY <1>1, <1>2, <1>6, InitStarts
<1>7. CASE TestProgram
  <2>1. host.calls = 0
    BY <1>7 DEF TestProgram
  <2>2. st.rc = 0
    BY <2>1 DEF DeploymentInv, RuntimeInv, NothingCalled, Model!InitialStatics
  <2>3. QED
    BY <1>1, <1>2, <1>7, <2>2, TestStarts
<1>8. CASE \/ SetInput \/ BindInput \/ BindOutput \/ Run \/ GetOutput \/ Free
           \/ ApiRun \/ ApiRunMulti \/ ApiFree
  <2> USE DEF Call
  <2>1. host'.last \in {"set_input", "bind_input", "bind_output", "run", "get_output", "free", "api_run"}
    <3>1. CASE SetInput
      BY <1>3, <3>1 DEF SetInput, HostFields
    <3>2. CASE BindInput
      BY <1>3, <3>2 DEF BindInput, HostFields
    <3>3. CASE BindOutput
      BY <1>3, <3>3 DEF BindOutput, HostFields
    <3>4. CASE Run
      BY <1>3, <3>4 DEF Run, HostFields
    <3>5. CASE GetOutput
      BY <1>3, <3>5 DEF GetOutput, HostFields
    <3>6. CASE Free
      BY <1>3, <3>6 DEF Free, HostFields
    <3>7. CASE ApiRun
      BY <1>3, <3>7 DEF ApiRun, HostFields
    <3>8. CASE ApiRunMulti
      BY <1>3, <3>8 DEF ApiRunMulti, HostFields
    <3>9. CASE ApiFree
      BY <1>3, <3>9 DEF ApiFree, HostFields
    <3>10. QED
      BY <1>8, <3>1, <3>2, <3>3, <3>4, <3>5, <3>6, <3>7, <3>8, <3>9
  <2>2. QED
    BY <2>1, OtherCalls
<1>9. QED
  BY <1>4, <1>5, <1>6, <1>7, <1>8 DEF HostCall

\* The generator refuses a whole package only for want of inputs or outputs.
LEMMA GenerateAccepts ==
  ASSUME PackageInv, Generate, Undamaged, phase' = "refused"
  PROVE  Inputs = <<>> \/ Model!OutputsById(g) = <<>>
<1>1. phase = "shipped" /\ deployment.damage = "none"
  BY DEF Generate, Undamaged
<1>2. ~Model!InspectSpk(pkg[1]) \/ ~Model!ParseSpkFull(pkg[1])
  BY DEF Generate
<1>3. QED
  BY <1>1, <1>2, WholeLoads

\* Each step keeps the promise, the calls of the host and what comes before them.
LEMMA StartsKept ==
  ASSUME DeploymentInv, ModelStarts, [Next]_vars
  PROVE  ModelStarts'
<1>1. CASE HostCall
  <2>1. Started(st', host')
    BY <1>1, CallStarts
  <2>2. phase = "deployed" /\ UNCHANGED <<deployment, phase, pkg>>
    BY <1>1, HostCallsKeepPackage
  <2>3. phase' # "refused" /\ way' = way /\ (Undamaged' <=> Undamaged)
    BY <2>2 DEF way, Undamaged, fail
  <2>4. QED
    BY <2>1, <2>2, <2>3 DEF Started, ModelStarts, HasContext
<1>2. CASE Write \/ Ship \/ Generate
  <2>1. phase # "deployed" /\ host' = host /\ deployment' = deployment
    BY <1>2 DEF Write, Ship, Generate
  <2>2. host.last = ""
    <3>1. host = NewHost
      BY <2>1 DEF DeploymentInv, RuntimeInv, NothingCalled
    <3>2. NewHost.last = ""
      BY DEF NewHost
    <3>3. QED
      BY <3>1, <3>2
  <2>3. phase' = "refused" => Generate \/ (phase = "refused" /\ UNCHANGED <<deployment, phase>>)
    BY <1>2 DEF Write, Ship
  <2>4. phase # "refused"
    BY <1>2 DEF Write, Ship, Generate
  <2>5. Undamaged /\ phase' = "refused" => Inputs = <<>> \/ Model!OutputsById(g) = <<>>
    BY <2>3, <2>4, GenerateAccepts DEF DeploymentInv
  <2>6. Inputs' = Inputs /\ g' = g /\ (Undamaged' <=> Undamaged)
    BY <2>1 DEF Inputs, g, Undamaged, fail
  <2>7. QED
    BY <2>1, <2>2, <2>5, <2>6 DEF ModelStarts
<1>3. CASE UNCHANGED vars
  BY <1>3 DEF vars, ModelStarts, Undamaged, HasContext, Inputs, g, way, fail
<1>4. QED
  BY <1>1, <1>2, <1>3 DEF Next, HostCall

\* A package that arrives whole is usable: the generator and spkv2_load_memory take it,
\* spkv2_prepare and init succeed, and main_test.c ends well (loader.c, c_codegen.py).
THEOREM PackagesStart == Spec => []ModelStarts
<1>1. ASSUME Init PROVE ModelStarts
  <2>1. phase = "writing" /\ host = NewHost
    BY <1>1 DEF Init
  <2>2. NewHost.last = ""
    BY DEF NewHost
  <2>3. QED
    BY <2>1, <2>2 DEF ModelStarts
<1>2. DeploymentInv /\ ModelStarts /\ [Next]_vars => ModelStarts'
  BY StartsKept
<1>3. QED
  BY <1>1, <1>2, DeploymentInvariant, PTL DEF Spec
=============================================================================
