----------------------- MODULE DeploymentParts_proofs -----------------------
(***************************************************************************)
(* Lemmas for the proofs about deployments, in two parts.                  *)
(*                                                                         *)
(* Packages: first the layout, for any sections of any length (the file    *)
(* that write_spk lays out is one the loader can take apart); then the     *)
(* package of a deployment, for every graph: what write_spk's list says of *)
(* it, what the loader finds in a directory laid out from that list, what  *)
(* damage does to a file, and what is known of package and program while   *)
(* the host calls them.                                                    *)
(*                                                                         *)
(* Functions: what the functions of the runtime library and of a generated *)
(* program do to a state, for any package.                                 *)
(***************************************************************************)
EXTENDS Deployment, NaturalOrder

-----------------------------------------------------------------------------
(* The layout of a file.                                                   *)

Entry == [kind : Nat, offset : Nat, size : Nat]

TypeInv ==
    /\ sections \in SectionLists
    /\ next \in 1..(Len(sections) + 1)
    /\ offset \in Nat
    /\ directory \in Seq(Entry)
    /\ checksumOffset \in Nat

EntriesInv ==
    /\ Len(directory) = next - 1
    /\ \A i \in 1..(next - 1) :
          /\ directory[i].offset >= Base(sections)
          /\ directory[i].offset % sections[i].align = 0
          /\ directory[i].size = sections[i].bytes
          /\ i > 1 => End(directory[i - 1]) <= directory[i].offset
    /\ next = 1 => offset = Base(sections)
    /\ next > 1 => offset = End(directory[next - 1])

EndInv ==
    /\ next = Len(sections) + 1 => checksumOffset = directory[Len(sections)].offset
    /\ header # <<>> =>
          /\ next = Len(sections) + 1
          /\ header = <<[size |-> HeaderSize, count |-> Len(sections), bytes |-> offset]>>

LayoutInv == TypeInv /\ EntriesInv /\ EndInv

-----------------------------------------------------------------------------
\* _align: the next multiple of the alignment, not below the value.
LEMMA AlignUpCorrect ==
  ASSUME NEW v \in Nat, NEW a \in Alignments
  PROVE  /\ AlignUp(v, a) \in Nat
         /\ AlignUp(v, a) >= v
         /\ AlignUp(v, a) % a = 0
<1>1. CASE a = 1
  BY <1>1, SMT DEF AlignUp
<1>2. CASE a = 4
  BY <1>2, SMT DEF AlignUp
<1>3. CASE a = 8
  BY <1>3, SMT DEF AlignUp
<1>4. CASE a = 4096
  BY <1>4, SMT DEF AlignUp
<1>5. QED
  BY <1>1, <1>2, <1>3, <1>4 DEF Alignments

\* The facts about a list of sections that the proofs use.
LEMMA ListFacts ==
  ASSUME NEW s \in SectionLists
  PROVE  /\ s \in Seq(Section)
         /\ Len(s) \in Nat /\ Len(s) > 0
         /\ Base(s) \in Nat
         /\ \A i \in 1..Len(s) : /\ s[i].bytes \in Nat
                                 /\ s[i].kind \in Nat
                                 /\ s[i].align \in Alignments
                                 /\ s[i].kind = CHECKSUM <=> i = Len(s)
<1>1. s \in Seq(Section) /\ Len(s) > 0
      /\ \A i \in 1..Len(s) : s[i].kind = CHECKSUM <=> i = Len(s)
  BY SectionListsAssumption
<1>2. \A i \in 1..Len(s) : s[i] \in Section
  BY <1>1
<1>3. QED
  BY <1>1, <1>2 DEF Section, Base, HeaderSize, EntrySize

\* The loop starts with an empty directory, right behind where it will be.
LEMMA InitLayout == WriterInit => LayoutInv
<1> SUFFICES ASSUME NEW s \in SectionLists, Start(s) PROVE LayoutInv
  BY DEF WriterInit
<1> USE DEF Start
<1>1. TypeInv
  BY ListFacts DEF TypeInv
<1>2. EntriesInv
  BY DEF EntriesInv
<1>3. EndInv
  BY ListFacts DEF EndInv
<1>4. QED
  BY <1>1, <1>2, <1>3 DEF LayoutInv

\* Writing a section keeps what is laid out and adds one entry behind it.
LEMMA WriteSectionLayout ==
  ASSUME LayoutInv, WriteSection
  PROVE  LayoutInv'
<1> DEFINE s  == sections[next]
           at == AlignUp(offset, s.align)
           e  == [kind |-> s.kind, offset |-> at, size |-> s.bytes]
<1> USE DEF LayoutInv
<1>1. /\ next \in 1..Len(sections)
      /\ sections' = sections /\ header' = header /\ next' = next + 1
      /\ directory' = Append(directory, e)
      /\ offset' = at + s.bytes
      /\ checksumOffset' = IF s.kind = CHECKSUM THEN at ELSE checksumOffset
  BY DEF WriteSection, TypeInv
<1>2. /\ s.bytes \in Nat /\ s.kind \in Nat /\ s.align \in Alignments
      /\ s.kind = CHECKSUM <=> next = Len(sections)
      /\ Len(sections) \in Nat /\ Base(sections) \in Nat
  BY <1>1, ListFacts DEF TypeInv
<1>3. at \in Nat /\ at >= offset /\ at % s.align = 0
  BY <1>2, AlignUpCorrect DEF TypeInv
<1> HIDE DEF at
<1>4. e \in Entry /\ End(e) = at + s.bytes
  BY <1>2, <1>3 DEF Entry, End
<1>5. /\ directory \in Seq(Entry) /\ Len(directory) = next - 1
      /\ directory' \in Seq(Entry) /\ Len(directory') = next
      /\ directory'[next] = e
      /\ \A i \in 1..(next - 1) : directory'[i] = directory[i]
  BY <1>1, <1>4 DEF TypeInv, EntriesInv
<1>6. TypeInv'
  <2>1. next' \in 1..(Len(sections') + 1)
    BY <1>1, <1>2
  <2>2. offset' \in Nat
    BY <1>1, <1>2, <1>3
  <2>3. checksumOffset' \in Nat
    BY <1>1, <1>3 DEF TypeInv
  <2>4. sections' \in SectionLists
    BY <1>1 DEF TypeInv
  <2>5. QED
    BY <1>5, <2>1, <2>2, <2>3, <2>4 DEF TypeInv
<1>7. EntriesInv'
  <2>1. \A i \in 1..next :
          /\ directory'[i].offset >= Base(sections)
          /\ directory'[i].offset % sections[i].align = 0
          /\ directory'[i].size = sections[i].bytes
          /\ i > 1 => End(directory'[i - 1]) <= directory'[i].offset
    <3> TAKE i \in 1..next
    <3>1. CASE i < next
      <4>1. i \in 1..(next - 1) /\ (i > 1 => i - 1 \in 1..(next - 1))
        BY <1>1, <3>1
      <4>2. QED
        BY <4>1, <1>5 DEF EntriesInv
    <3>2. CASE i = next
      <4>1. offset >= Base(sections)
        <5>1. CASE next = 1
          BY <5>1, <1>2 DEF EntriesInv
        <5>2. CASE next > 1
          <6>1. next - 1 \in 1..(next - 1) /\ next - 1 \in 1..Len(directory)
            BY <1>1, <1>5, <5>2
          <6>2. directory[next - 1] \in Entry
            BY <6>1, <1>5
          <6>3. QED
            BY <6>1, <6>2, <5>2, <1>2 DEF EntriesInv, End, Entry
        <5>3. QED
          BY <1>1, <5>1, <5>2
      <4>2. i > 1 => directory'[i - 1] = directory[next - 1]
        BY <1>1, <1>5, <3>2
      <4>3. i > 1 => End(directory'[i - 1]) = offset
        BY <4>2, <3>2 DEF EntriesInv, End
      <4>4. directory'[i].offset = at /\ directory'[i].size = s.bytes
        BY <1>5, <3>2
      <4>5. Base(sections) <= at
        BY <4>1, <1>2, <1>3 DEF TypeInv
      <4>6. i > 1 => End(directory'[i - 1]) <= directory'[i].offset
        BY <4>3, <4>4, <1>3
      <4>7. /\ directory'[i].offset >= Base(sections)
            /\ directory'[i].offset % sections[i].align = 0
            /\ directory'[i].size = sections[i].bytes
        BY <4>4, <4>5, <1>2, <1>3, <3>2
      <4>8. QED
        BY <4>6, <4>7
    <3>3. i < next \/ i = next
      BY <1>1, <1>2
    <3>4. QED
      BY <3>1, <3>2, <3>3
  <2>2. offset' = End(directory'[next])
    BY <1>1, <1>4, <1>5
  <2>3. next' > 1 /\ next' - 1 = next
    BY <1>1
  <2>4. QED
    BY <2>1, <2>2, <2>3, <1>1, <1>5 DEF EntriesInv
<1>8. EndInv'
  <2>1. next' = Len(sections) + 1 => checksumOffset' = directory'[Len(sections)].offset
    BY <1>1, <1>2, <1>5
  <2>2. header = <<>>
    BY <1>1, <1>2 DEF EndInv
  <2>3. QED
    BY <1>1, <2>1, <2>2 DEF EndInv
<1>9. QED
  BY <1>6, <1>7, <1>8

\* The inductive invariant of the layout.
THEOREM LayoutInvariant == WriterSpec => []LayoutInv
<1>1. LayoutInv /\ [WriterNext]_writerVars => LayoutInv'
  <2> SUFFICES ASSUME LayoutInv, [WriterNext]_writerVars PROVE LayoutInv'
    OBVIOUS
  <2>1. CASE WriteSection
    BY <2>1, WriteSectionLayout
  <2>2. CASE WriteHeader
    BY <2>2 DEF WriteHeader, LayoutInv, TypeInv, EntriesInv, EndInv
  <2>3. CASE UNCHANGED writerVars
    BY <2>3 DEF writerVars, LayoutInv, TypeInv, EntriesInv, EndInv
  <2>4. QED
    BY <2>1, <2>2, <2>3 DEF WriterNext
<1>2. QED
  BY InitLayout, <1>1, PTL DEF WriterSpec

\* A package laid out so far is, once it is finished, laid out as promised.
LEMMA FinishedLayout ==
  ASSUME LayoutInv
  PROVE  SectionsLaidOut
<1> SUFFICES ASSUME Written PROVE SectionsLaidOut
  BY DEF SectionsLaidOut
<1>1. /\ next = Len(sections) + 1
      /\ header[1].size = HeaderSize /\ header[1].count = Len(sections)
      /\ header[1].bytes = offset
  BY DEF LayoutInv, EndInv, Written
<1>2. Len(sections) \in Nat /\ Len(sections) > 0
  BY ListFacts DEF LayoutInv, TypeInv
<1>3. Base(sections) = header[1].size + EntrySize * header[1].count
  BY <1>1, <1>2 DEF Base
<1>4. next - 1 = Len(sections) /\ next > 1
  BY <1>1, <1>2
<1>5. QED
  BY <1>1, <1>2, <1>3, <1>4 DEF LayoutInv, EntriesInv, EndInv, SectionsLaidOut

\* Every package the writer finishes is laid out the way the loader relies on
\* (write_spk), for every list of sections.
THEOREM PackagesLaidOut == WriterSpec => []SectionsLaidOut
BY LayoutInvariant, FinishedLayout, PTL

-----------------------------------------------------------------------------
(* What a package says of its graph.                                       *)
SectionAt(gr, i) == Model!SectionsOf(gr)[i]

SectionKinds(gr, n) ==
    /\ n = 10 + (IF gr.channels = <<>> THEN 0 ELSE 1) + (IF gr.protected < 0 THEN 0 ELSE 1)
    /\ SectionAt(gr, 1).kind = 1
    /\ SectionAt(gr, 2).kind = 2
    /\ SectionAt(gr, 3).kind = 3
    /\ SectionAt(gr, 3).bytes = Model!TensorTableBytes(gr)
    /\ SectionAt(gr, 4).kind = 4
    /\ SectionAt(gr, 4).bytes = Model!NodeTableBytes(gr)
    /\ SectionAt(gr, 5).kind = 5
    /\ SectionAt(gr, 6).kind = 6
    /\ SectionAt(gr, 7).kind = 7
    /\ SectionAt(gr, 8).kind = 8
    /\ SectionAt(gr, 8).bytes = Model!KernelSpecBytes(gr)
    /\ gr.channels # <<>> => /\ SectionAt(gr, 9).kind = 9
                             /\ SectionAt(gr, 9).bytes = Model!QuantizationSectionBytes(gr)
    /\ ~(gr.protected < 0) => /\ SectionAt(gr, n - 2).kind = 13
                              /\ SectionAt(gr, n - 2).bytes = Model!ProtectionBytes(gr)
    /\ SectionAt(gr, n - 1).kind = 10
    /\ SectionAt(gr, n).kind = 12
    /\ SectionAt(gr, n).bytes = 4

\* write_spk's list, with and without the two optional sections: which section
\* is where, how long the ones are that the loader counts records in.
LEMMA SectionsListed ==
  ASSUME NEW gr
  PROVE  SectionKinds(gr, Len(Model!SectionsOf(gr)))
<1> DEFINE n == Len(Model!SectionsOf(gr))
<1> DEFINE S == Model!SectionsOf(gr)
           first == << Model!Sec(1, gr.text.metadata, 1), Model!Sec(2, gr.text.profile, 1),
                       Model!Sec(3, Model!TensorTableBytes(gr), 4),
                       Model!Sec(4, Model!NodeTableBytes(gr), 4),
                       Model!Sec(5, Model!AttrsBytes(gr), 4),
                       Model!Sec(6, Model!WeightsEnd(gr)[Len(gr.tensors)], 4096),
                       Model!Sec(7, Model!MemoryPlanBytes(gr), 4),
                       Model!Sec(8, Model!KernelSpecBytes(gr), 4) >>
           quant == Model!Sec(9, Model!QuantizationSectionBytes(gr), 4)
           plan == Model!Sec(13, Model!ProtectionBytes(gr), 8)
           text == Model!Sec(10, gr.text.strings, 1)
           sum == Model!Sec(12, 4, 4)
<1>1. S = first \o (IF gr.channels = <<>> THEN <<>> ELSE <<quant>>)
                \o (IF gr.protected < 0 THEN <<>> ELSE <<plan>>) \o <<text, sum>>
  BY DEF Model!SectionsOf, Model!METADATA, Model!TARGET_PROFILE, Model!TENSOR_TABLE,
         Model!NODE_TABLE, Model!ATTRIBUTES, Model!WEIGHTS, Model!MEMORY_PLAN,
         Model!KERNEL_SPEC, Model!QUANTIZATION, Model!PROTECTION_PLAN,
         Model!STRING_TABLE, Model!CHECKSUM_SECTION
<1>2. /\ first[1].kind = 1 /\ first[2].kind = 2 /\ first[5].kind = 5 /\ first[6].kind = 6
      /\ first[7].kind = 7 /\ quant.kind = 9 /\ plan.kind = 13 /\ text.kind = 10 /\ sum.kind = 12
      /\ first[3].kind = 3 /\ first[3].bytes = Model!TensorTableBytes(gr)
      /\ first[4].kind = 4 /\ first[4].bytes = Model!NodeTableBytes(gr)
      /\ first[8].kind = 8 /\ first[8].bytes = Model!KernelSpecBytes(gr)
      /\ quant.bytes = Model!QuantizationSectionBytes(gr)
      /\ plan.bytes = Model!ProtectionBytes(gr) /\ sum.bytes = 4
  BY DEF Model!Sec
<1>3. Len(first) = 8 /\ first \in Seq({first[i] : i \in 1..8})
  OBVIOUS
<1> HIDE DEF n, S, first, quant, plan, text, sum
<1> DEFINE T == {first[i] : i \in 1..8} \cup {quant, plan, text, sum}
<1>4. first \in Seq(T)
  BY <1>3
<1>5. /\ \A i \in 1..8 : S[i] = first[i]
      /\ n = 10 + (IF gr.channels = <<>> THEN 0 ELSE 1) + (IF gr.protected < 0 THEN 0 ELSE 1)
      /\ gr.channels # <<>> => S[9] = quant
      /\ ~(gr.protected < 0) => S[n - 2] = plan
      /\ S[n - 1] = text /\ S[n] = sum
  <2> DEFINE a == IF gr.channels = <<>> THEN <<>> ELSE <<quant>>
             b == IF gr.protected < 0 THEN <<>> ELSE <<plan>>
  <2>1. /\ quant \in T /\ plan \in T /\ text \in T /\ sum \in T
        /\ a \in {<<>>, <<quant>>} /\ b \in {<<>>, <<plan>>}
        /\ Len(a) = (IF gr.channels = <<>> THEN 0 ELSE 1)
        /\ Len(b) = (IF gr.protected < 0 THEN 0 ELSE 1)
        /\ gr.channels # <<>> => a = <<quant>>
        /\ ~(gr.protected < 0) => b = <<plan>>
    OBVIOUS
  <2>2. n = Len(S)
    BY DEF n, S
  <2>3. S = first \o a \o b \o <<text, sum>>
    BY <1>1
  <2> HIDE DEF a, b, T
  <2>4. /\ Len(S) = Len(first) + Len(a) + Len(b) + 2
        /\ \A i \in 1..Len(first) : S[i] = first[i]
        /\ a = <<quant>> => S[Len(first) + 1] = quant
        /\ b = <<plan>> => S[Len(S) - 2] = plan
        /\ S[Len(S) - 1] = text
        /\ S[Len(S)] = sum
    <3>1. CASE a = <<>> /\ b = <<>>
      BY <3>1, <1>4, <2>1, <2>3
    <3>2. CASE a = <<quant>> /\ b = <<>>
      BY <3>2, <1>4, <2>1, <2>3
    <3>3. CASE a = <<>> /\ b = <<plan>>
      BY <3>3, <1>4, <2>1, <2>3
    <3>4. CASE a = <<quant>> /\ b = <<plan>>
      BY <3>4, <1>4, <2>1, <2>3
    <3>5. QED
      BY <2>1, <3>1, <3>2, <3>3, <3>4
  <2>5. QED
    BY <1>3, <2>1, <2>2, <2>4
<1>6. \A i : SectionAt(gr, i) = S[i]
  BY DEF SectionAt, S
<1>7. SectionKinds(gr, n)
  BY <1>2, <1>5, <1>6 DEF SectionKinds
<1>8. QED
  BY <1>7 DEF n

Listed(p, gr) ==
    /\ p.graph = gr
    /\ p.dir \in Seq(Entry)
    /\ Len(p.dir) = Len(Model!SectionsOf(gr))
    /\ \A i \in 1..Len(p.dir) : /\ p.dir[i].kind = SectionAt(gr, i).kind
                                /\ p.dir[i].size = SectionAt(gr, i).bytes

\* find_section on a directory that has the kind in one entry only.
LEMMA SectionFound ==
  ASSUME NEW p, p.dir \in Seq(Entry), NEW kind, NEW i \in DOMAIN p.dir,
         \A j \in DOMAIN p.dir : p.dir[j].kind = kind <=> j = i
  PROVE  ~Model!Missing(p, kind) /\ Model!SectionSize(p, kind) = p.dir[i].size
<1>1. Model!FindSection(p, kind) = p.dir[i]
  BY DEF Model!FindSection
<1>2. QED
  BY <1>1 DEF Model!Missing, Model!SectionSize

\* Records and payload: no shorter than the records.
LEMMA QuantizationBytes ==
  ASSUME NEW gr \in Model!CompiledGraph
  PROVE  /\ Model!QuantizationSectionBytes(gr) \in Nat
         /\ Model!QuantizationSectionBytes(gr) >= 20 * Len(gr.channels)
<1> DEFINE ch == gr.channels
           Body(f, n) == [t \in 0..n |-> IF t = 0 THEN Model!QUANT * Len(ch)
                                          ELSE f[t - 1] + 8 * ch[t]]
           Done == {n \in Nat : \E f : f = Body(f, n)}
           end == CHOOSE f : f = Body(f, Len(ch))
           Fits == {t \in Nat : t <= Len(ch) => end[t] \in Nat /\ end[t] >= 20 * Len(ch)}
<1>1. ch \in Seq(Nat) /\ Len(ch) \in Nat
  BY DEF Model!CompiledGraph
<1> HIDE DEF ch
<1>2. \A n \in Nat : n \in Done
  <2>1. 0 \in Done
    <3> DEFINE f == [t \in 0..0 |-> Model!QUANT * Len(ch)]
    <3>1. f = Body(f, 0)
      OBVIOUS
    <3>2. QED
      BY <3>1
  <2>2. ASSUME NEW n \in Nat, n \in Done PROVE n + 1 \in Done
    <3>1. PICK f : f = Body(f, n)
      BY <2>2
    <3> DEFINE h == [t \in 0..(n + 1) |-> IF t <= n THEN f[t] ELSE f[n] + 8 * ch[n + 1]]
    <3>2. \A t \in 0..(n + 1) : h[t] = Body(h, n + 1)[t]
      <4>1. \A t \in 1..(n + 1) : t - 1 \in 0..n /\ h[t - 1] = f[t - 1]
        OBVIOUS
      <4>2. \A t \in 0..n : f[t] = IF t = 0 THEN Model!QUANT * Len(ch) ELSE f[t - 1] + 8 * ch[t]
        BY <3>1
      <4>3. QED
        BY <4>1, <4>2
    <3>3. h = Body(h, n + 1)
      <4>1. h = [t \in 0..(n + 1) |-> h[t]]
        OBVIOUS
      <4>2. \A t \in 0..(n + 1) : h[t] = IF t = 0 THEN Model!QUANT * Len(ch)
                                         ELSE h[t - 1] + 8 * ch[t]
        BY <3>2
      <4> HIDE DEF h
      <4>3. QED
        BY <4>1, <4>2
    <3> HIDE DEF h
    <3>4. QED
      BY <3>3
  <2> HIDE DEF Done
  <2>3. QED
    BY <2>1, <2>2, NaturalInduction
<1>3. end = Body(end, Len(ch))
  <2>1. \E f : f = Body(f, Len(ch))
    BY <1>1, <1>2
  <2> HIDE DEF Body
  <2>2. QED
    BY <2>1
<1>4. Model!QuantizationSectionBytes(gr) = end[Len(ch)]
  BY Zenon DEF Model!QuantizationSectionBytes, ch
<1> HIDE DEF end
<1>5. \A n \in Nat : n \in Fits
  <2>1. 0 \in Fits
    BY <1>1, <1>3 DEF Model!QUANT
  <2>2. ASSUME NEW n \in Nat, n \in Fits PROVE n + 1 \in Fits
    <3>1. CASE n + 1 <= Len(ch)
      <4>1. ch[n + 1] \in Nat /\ end[n + 1] = end[n] + 8 * ch[n + 1]
        BY <3>1, <1>1, <1>3
      <4>2. end[n] \in Nat /\ end[n] >= 20 * Len(ch)
        BY <2>2, <3>1, <1>1
      <4>3. QED
        BY <4>1, <4>2, <1>1
    <3>2. QED
      BY <3>1
  <2> HIDE DEF Fits
  <2>3. QED
    BY <2>1, <2>2, NaturalInduction
<1>6. Len(ch) \in Fits
  BY <1>1, <1>5
<1>7. QED
  BY <1>1, <1>4, <1>6 DEF ch

\* The loop over the tensor table that collects the ids of a role: exactly those.
LEMMA IdsOfRoleCorrect ==
  ASSUME NEW gr \in Model!CompiledGraph, NEW role
  PROVE  LET ids == Model!IdsOfRole(gr, role)
         IN  /\ ids \in Seq(DOMAIN gr.tensors)
             /\ \A i \in DOMAIN ids : gr.tensors[ids[i]].role = role
             /\ \A t \in DOMAIN gr.tensors :
                   gr.tensors[t].role = role => \E i \in DOMAIN ids : ids[i] = t
<1> DEFINE ts == gr.tensors
           Body(f, n) == [t \in 0..n |-> IF t = 0 THEN <<>>
                                          ELSE IF ts[t].role = role THEN Append(f[t - 1], t)
                                          ELSE f[t - 1]]
           Done == {n \in Nat : \E f : f = Body(f, n)}
           upTo == CHOOSE f : f = Body(f, Len(ts))
           Lists(ids, n) == /\ ids \in Seq(1..n)
                            /\ \A i \in 1..Len(ids) : ts[ids[i]].role = role
                            /\ \A t \in 1..n :
                                  ts[t].role = role => \E i \in 1..Len(ids) : ids[i] = t
           Correct == {n \in Nat : n <= Len(ts) => Lists(upTo[n], n)}
<1>1. Len(ts) \in Nat /\ DOMAIN ts = 1..Len(ts)
  BY DEF Model!CompiledGraph
<1> HIDE DEF ts
<1>2. \A n \in Nat : n \in Done
  <2>1. 0 \in Done
    <3> DEFINE f == [t \in 0..0 |-> <<>>]
    <3>1. f = Body(f, 0)
      OBVIOUS
    <3>2. QED
      BY <3>1
  <2>2. ASSUME NEW n \in Nat, n \in Done PROVE n + 1 \in Done
    <3>1. PICK f : f = Body(f, n)
      BY <2>2
    <3> DEFINE next_ == IF ts[n + 1].role = role THEN Append(f[n], n + 1) ELSE f[n]
               h == [t \in 0..(n + 1) |-> IF t <= n THEN f[t] ELSE next_]
    <3>2. \A t \in 0..(n + 1) : h[t] = Body(h, n + 1)[t]
      <4>1. \A t \in 1..(n + 1) : t - 1 \in 0..n /\ h[t - 1] = f[t - 1]
        OBVIOUS
      <4>2. \A t \in 0..n : f[t] = IF t = 0 THEN <<>>
                                     ELSE IF ts[t].role = role THEN Append(f[t - 1], t)
                                     ELSE f[t - 1]
        BY <3>1
      <4>3. QED
        BY <4>1, <4>2
    <3>3. h = Body(h, n + 1)
      <4>1. h = [t \in 0..(n + 1) |-> h[t]]
        OBVIOUS
      <4>2. \A t \in 0..(n + 1) : h[t] = IF t = 0 THEN <<>>
                                           ELSE IF ts[t].role = role THEN Append(h[t - 1], t)
                                           ELSE h[t - 1]
        BY <3>2
      <4> HIDE DEF h
      <4>3. QED
        BY <4>1, <4>2
    <3> HIDE DEF h
    <3>4. QED
      BY <3>3
  <2> HIDE DEF Done
  <2>3. QED
    BY <2>1, <2>2, NaturalInduction
<1>3. upTo = Body(upTo, Len(ts))
  <2>1. \E f : f = Body(f, Len(ts))
    BY <1>1, <1>2
  <2> HIDE DEF Body
  <2>2. QED
    BY <2>1
<1>4. Model!IdsOfRole(gr, role) = upTo[Len(ts)]
  BY Zenon DEF Model!IdsOfRole, ts
<1> HIDE DEF upTo
<1>5. \A n \in Nat : n \in Correct
  <2>1. 0 \in Correct
    <3>1. upTo[0] = <<>>
      BY <1>1, <1>3
    <3>2. Lists(<<>>, 0)
      OBVIOUS
    <3> HIDE DEF Lists
    <3>3. QED
      BY <3>1, <3>2
  <2>2. ASSUME NEW n \in Nat, n \in Correct PROVE n + 1 \in Correct
    <3> SUFFICES ASSUME n + 1 <= Len(ts) PROVE Lists(upTo[n + 1], n + 1)
      <4> HIDE DEF Lists
      <4>1. QED
        OBVIOUS
    <3>1. upTo[n + 1] = IF ts[n + 1].role = role THEN Append(upTo[n], n + 1) ELSE upTo[n]
      <4>1. n + 1 \in 0..Len(ts) /\ n + 1 # 0 /\ (n + 1) - 1 = n
        BY <1>1
      <4>2. upTo[n + 1] = Body(upTo, Len(ts))[n + 1]
        BY <1>3
      <4>3. Body(upTo, Len(ts))[n + 1] = IF ts[n + 1].role = role
                                         THEN Append(upTo[(n + 1) - 1], n + 1) ELSE upTo[(n + 1) - 1]
        BY <4>1
      <4>4. QED
        BY <4>1, <4>2, <4>3
    <3>2. Lists(upTo[n], n)
      BY <2>2, <1>1
    <3> DEFINE ids == upTo[n]
    <3> HIDE DEF ids
    <3>3. ids \in Seq(1..n) /\ ids \in Seq(1..(n + 1))
      BY <3>2 DEF ids
    <3>4. CASE ts[n + 1].role = role
      <4> DEFINE more == Append(ids, n + 1)
      <4>1. upTo[n + 1] = more
        BY <3>1, <3>4 DEF ids
      <4>2. more \in Seq(1..(n + 1)) /\ Len(more) = Len(ids) + 1 /\ more[Len(ids) + 1] = n + 1
            /\ \A i \in 1..Len(ids) : more[i] = ids[i]
        BY <3>3
      <4> HIDE DEF more
      <4>3. Len(ids) \in Nat
        BY <3>3
      <4>4. \A i \in 1..Len(more) : ts[more[i]].role = role
        <5>1. \A i \in 1..Len(ids) : ts[ids[i]].role = role
          BY <3>2 DEF ids
        <5>2. \A i \in 1..Len(more) : i \in 1..Len(ids) \/ i = Len(ids) + 1
          BY <4>2, <4>3
        <5>3. QED
          BY <5>1, <5>2, <4>2, <3>4
      <4>5. \A t \in 1..(n + 1) : ts[t].role = role => \E i \in 1..Len(more) : more[i] = t
        <5> TAKE t \in 1..(n + 1)
        <5>1. CASE t = n + 1
          BY <5>1, <4>2, <4>3
        <5>2. CASE t # n + 1
          <6>1. t \in 1..n
            BY <5>2
          <6>2. ts[t].role = role => \E i \in 1..Len(ids) : ids[i] = t
            BY <6>1, <3>2 DEF ids
          <6>3. QED
            BY <6>2, <4>2, <4>3
        <5>3. QED
          BY <5>1, <5>2
      <4>6. QED
        BY <4>1, <4>2, <4>4, <4>5
    <3>5. CASE ts[n + 1].role # role
      <4>1. upTo[n + 1] = ids
        BY <3>1, <3>5 DEF ids
      <4>2. \A t \in 1..(n + 1) : ts[t].role = role => t \in 1..n
        BY <3>5
      <4>3. QED
        BY <4>1, <4>2, <3>2, <3>3 DEF ids
    <3>6. QED
      BY <3>4, <3>5
  <2> HIDE DEF Correct
  <2>3. QED
    BY <2>1, <2>2, NaturalInduction
<1>6. Lists(upTo[Len(ts)], Len(ts))
  BY <1>1, <1>5
<1> DEFINE all == upTo[Len(ts)]
<1> HIDE DEF all
<1>7. /\ all \in Seq(1..Len(ts))
      /\ \A i \in 1..Len(all) : ts[all[i]].role = role
      /\ \A t \in 1..Len(ts) : ts[t].role = role => \E i \in 1..Len(all) : all[i] = t
  BY <1>6 DEF all
<1>8. DOMAIN all = 1..Len(all)
  BY <1>7
<1>9. QED
  BY <1>1, <1>4, <1>7, <1>8 DEF ts, all

\* What the loader finds in the sections, of a directory that lists them all: the
\* records the compiler wrote, and its outputs (RecordsReadBack).
LEMMA ReadBackListed ==
  ASSUME NEW gr \in Model!CompiledGraph, NEW p, Listed(p, gr)
  PROVE  /\ Model!ReadBack(p).specs = gr.specs
         /\ Model!ReadBack(p).quants = Len(gr.channels)
         /\ Model!ReadBack(p).protected = (IF gr.protected < 0 THEN 0 ELSE gr.protected)
         /\ Model!ReadBack(p).outputs = gr.outputs
<1> DEFINE n == Len(p.dir)
<1>1. /\ gr.specs \in Nat /\ gr.protected \in Int /\ gr.channels \in Seq(Nat)
  BY DEF Model!CompiledGraph
<1>2. /\ n \in Nat /\ DOMAIN p.dir = 1..n /\ p.dir \in Seq(Entry) /\ p.graph = gr
      /\ SectionKinds(gr, n)
  BY SectionsListed DEF Listed
<1>3. \A i \in 1..n : p.dir[i].kind = SectionAt(gr, i).kind /\ p.dir[i].size = SectionAt(gr, i).bytes
  BY DEF Listed
<1>4. n = 10 + (IF gr.channels = <<>> THEN 0 ELSE 1) + (IF gr.protected < 0 THEN 0 ELSE 1)
  BY <1>2 DEF SectionKinds
<1> HIDE DEF n
<1> DEFINE K(i) == p.dir[i].kind
<1>5. /\ K(1) = 1 /\ K(2) = 2 /\ K(3) = 3 /\ K(4) = 4 /\ K(5) = 5 /\ K(6) = 6 /\ K(7) = 7
      /\ K(8) = 8 /\ p.dir[8].size = 44 * gr.specs
      /\ gr.channels # <<>> => K(9) = 9 /\ p.dir[9].size = Model!QuantizationSectionBytes(gr)
      /\ ~(gr.protected < 0) => K(n - 2) = 13 /\ p.dir[n - 2].size = 28 * gr.protected
      /\ K(n - 1) = 10 /\ K(n) = 12
  <2>1. /\ {1, 2, 3, 4, 5, 6, 7, 8, 9, n - 2, n - 1, n} \subseteq 1..n
        /\ gr.channels # <<>> => 9 <= n - 2
        /\ ~(gr.protected < 0) => 9 <= n - 2
    BY <1>1, <1>4
  <2>2. QED
    BY <2>1, <1>2, <1>3, <1>4 DEF SectionKinds, Model!KernelSpecBytes, Model!SPEC,
       Model!ProtectionBytes, Model!PROTECTION
<1>6. \A i \in 1..n : \/ i \in 1..8
                      \/ i = 9 /\ gr.channels # <<>>
                      \/ i = n - 2 /\ ~(gr.protected < 0)
                      \/ i = n - 1
                      \/ i = n
  BY <1>1, <1>4
<1> HIDE DEF K
<1>7. \A i \in 1..n :
         /\ K(i) = 1 <=> i = 1
         /\ K(i) = 8 <=> i = 8
         /\ K(i) = 9 => gr.channels # <<>> /\ i = 9
         /\ K(i) = 13 => ~(gr.protected < 0) /\ i = n - 2
  <2> SUFFICES ASSUME NEW i \in 1..n
               PROVE  /\ K(i) = 1 <=> i = 1
                      /\ K(i) = 8 <=> i = 8
                      /\ K(i) = 9 => gr.channels # <<>> /\ i = 9
                      /\ K(i) = 13 => ~(gr.protected < 0) /\ i = n - 2
    OBVIOUS
  <2>1. CASE i \in 1..8
    <3>1. i = 1 \/ i = 2 \/ i = 3 \/ i = 4 \/ i = 5 \/ i = 6 \/ i = 7 \/ i = 8
      BY <2>1
    <3>2. K(i) = i
      BY <3>1, <1>5
    <3>3. QED
      BY <3>1, <3>2
  <2>2. CASE i \notin 1..8
    <3>1. i # 1 /\ i # 8
      BY <2>2, <1>2
    <3>2. QED
      BY <2>2, <3>1, <1>5, <1>6
  <2>3. QED
    BY <2>1, <2>2
<1>8. Model!SectionSize(p, Model!KERNEL_SPEC) = 44 * gr.specs
  <2>1. 8 \in DOMAIN p.dir /\ \A j \in DOMAIN p.dir : p.dir[j].kind = 8 <=> j = 8
    BY <1>1, <1>2, <1>4, <1>7 DEF K
  <2>2. QED
    BY <2>1, <1>2, <1>5, SectionFound DEF Model!KERNEL_SPEC
<1>9. ~Model!Missing(p, Model!METADATA)
  <2>1. 1 \in DOMAIN p.dir
    BY <1>1, <1>2, <1>4
  <2>2. QED
    BY <2>1, <1>5 DEF Model!METADATA, Model!Missing, K
<1>10. Model!SectionSize(p, Model!QUANTIZATION) =
          IF gr.channels = <<>> THEN 0 ELSE Model!QuantizationSectionBytes(gr)
  <2>1. CASE gr.channels = <<>>
    <3>1. Model!Missing(p, Model!QUANTIZATION)
      BY <2>1, <1>2, <1>7 DEF Model!Missing, Model!QUANTIZATION, K
    <3>2. QED
      BY <3>1, <2>1 DEF Model!SectionSize
  <2>2. CASE gr.channels # <<>>
    <3>1. 9 \in DOMAIN p.dir /\ \A j \in DOMAIN p.dir : p.dir[j].kind = 9 <=> j = 9
      <4>1. 9 \in 1..n
        BY <1>4
      <4>2. p.dir[9].kind = 9
        BY <2>2, <1>5 DEF K
      <4>3. QED
        BY <4>1, <4>2, <1>2, <1>7 DEF K
    <3>2. Model!SectionSize(p, 9) = p.dir[9].size
      BY <3>1, <1>2, SectionFound
    <3>3. QED
      BY <3>2, <2>2, <1>5 DEF Model!QUANTIZATION
  <2>3. QED
    BY <2>1, <2>2
<1>11. Model!SectionSize(p, Model!PROTECTION_PLAN) =
          IF gr.protected < 0 THEN 0 ELSE 28 * gr.protected
  <2>1. CASE gr.protected < 0
    <3>1. Model!Missing(p, Model!PROTECTION_PLAN)
      BY <2>1, <1>2, <1>7 DEF Model!Missing, Model!PROTECTION_PLAN, K
    <3>2. QED
      BY <3>1, <2>1 DEF Model!SectionSize
  <2>2. CASE ~(gr.protected < 0)
    <3>1. n - 2 \in DOMAIN p.dir /\ \A j \in DOMAIN p.dir : p.dir[j].kind = 13 <=> j = n - 2
      <4>1. n - 2 \in 1..n
        BY <1>4
      <4>2. p.dir[n - 2].kind = 13
        BY <2>2, <1>5 DEF K
      <4>3. QED
        BY <4>1, <4>2, <1>2, <1>7 DEF K
    <3>2. Model!SectionSize(p, 13) = p.dir[n - 2].size
      BY <3>1, <1>2, SectionFound
    <3>3. QED
      BY <3>2, <2>2, <1>5 DEF Model!PROTECTION_PLAN
  <2>3. QED
    BY <2>1, <2>2
<1>12. Model!ReadBack(p).specs = gr.specs
  BY <1>1, <1>8 DEF Model!ReadBack, Model!SPEC
<1>13. Model!ReadBack(p).outputs = gr.outputs
  BY <1>2, <1>9 DEF Model!ReadBack
<1>14. Model!ReadBack(p).quants = Len(gr.channels)
  <2>1. Model!ReadBack(p).quants =
           IF Model!SectionSize(p, Model!QUANTIZATION) < 20 THEN 0
           ELSE Model!QuantFirstOffset(gr) \div 20
    BY <1>2, Zenon DEF Model!ReadBack, Model!QUANT
  <2>2. Model!QuantFirstOffset(gr) = 20 * Len(gr.channels)
    BY DEF Model!QuantFirstOffset, Model!QUANT
  <2>3. Len(gr.channels) \in Nat /\ (gr.channels = <<>> <=> Len(gr.channels) = 0)
    BY <1>1
  <2>4. CASE gr.channels = <<>>
    BY <2>1, <2>3, <2>4, <1>10
  <2>5. CASE gr.channels # <<>>
    <3>1. ~(Model!SectionSize(p, Model!QUANTIZATION) < 20)
      <4>1. Len(gr.channels) >= 1
        BY <2>3, <2>5
      <4>2. QED
        BY <4>1, <2>3, <2>5, <1>10, QuantizationBytes
    <3>2. \A k \in Nat : (20 * k) \div 20 = k
      OBVIOUS
    <3>3. QED
      BY <3>1, <3>2, <2>1, <2>2, <2>3
  <2>6. QED
    BY <2>4, <2>5
<1>15. Model!ReadBack(p).protected = (IF gr.protected < 0 THEN 0 ELSE gr.protected)
  BY <1>1, <1>11 DEF Model!ReadBack, Model!PROTECTION
<1>16. QED
  BY <1>12, <1>13, <1>14, <1>15

-----------------------------------------------------------------------------
(* What the file may have become on its way.                               *)

\* The damage that a context may have been made of.
Tolerated == {"none", "checksum type"}

\* The damages that leave the directory and the payload alone, as far as a reader
\* can tell: everything but the checksum type.
LEMMA ToleratedPackage ==
  ASSUME NEW gr, NEW h, NEW dir, NEW damage \in Tolerated,
         NEW p \in Model!Damaged(Model!Package(gr, h, dir), damage)
  PROVE  /\ p.graph = gr /\ p.dir = dir /\ p.weights = "stored" /\ p.arena = gr.arena
         /\ p.tensors = Len(gr.tensors) /\ p.nodes = gr.nodes
         /\ p.size = h.bytes /\ p.dirEnd = h.size + 32 * h.count
         /\ p.magic /\ p.major
         /\ damage = "none" => p.intact
<1> DEFINE whole == Model!Package(gr, h, dir)
           hit == [whole EXCEPT !.intact = FALSE]
<1>1. ASSUME NEW v \in BOOLEAN, NEW n
      PROVE  LET q == [[whole EXCEPT !.intact = v] EXCEPT !.checksum = n]
             IN  /\ q.graph = gr /\ q.dir = dir /\ q.weights = "stored" /\ q.arena = gr.arena
                 /\ q.tensors = Len(gr.tensors) /\ q.nodes = gr.nodes
                 /\ q.size = h.bytes /\ q.dirEnd = h.size + 32 * h.count
                 /\ q.magic /\ q.major
  BY DEF Model!Package
<1>2. /\ whole.graph = gr /\ whole.dir = dir /\ whole.weights = "stored" /\ whole.arena = gr.arena
      /\ whole.tensors = Len(gr.tensors) /\ whole.nodes = gr.nodes
      /\ whole.size = h.bytes /\ whole.dirEnd = h.size + 32 * h.count
      /\ whole.magic /\ whole.major /\ whole.intact
  BY DEF Model!Package
<1>3. /\ damage = "none" => Model!Damaged(whole, damage) = {whole}
      /\ damage = "checksum type" =>
            Model!Damaged(whole, damage) = {[[whole EXCEPT !.intact = FALSE] EXCEPT !.checksum = 0]}
  BY DEF Model!Damaged
<1>4. CASE damage = "none"
  <2>1. p = whole
    BY <1>3, <1>4
  <2>2. QED
    BY <2>1, <1>2
<1>5. CASE damage = "checksum type"
  <2>1. p = [[whole EXCEPT !.intact = FALSE] EXCEPT !.checksum = 0]
    BY <1>3, <1>5
  <2>2. QED
    BY <2>1, <1>1, <1>5, Zenon
<1>6. QED
  BY <1>4, <1>5 DEF Tolerated

Fields == {"size", "magic", "major", "dirEnd", "dir", "tensors", "nodes", "outputs", "scratch",
           "arena", "checksum", "intact", "weights", "graph"}

\* The graph is never what is damaged, and a file stays a file.
LEMMA DamagedGraph ==
  ASSUME NEW gr, NEW h, NEW dir, NEW damage \in Model!Damages,
         NEW p \in Model!Damaged(Model!Package(gr, h, dir), damage)
  PROVE  p.graph = gr /\ p.arena = gr.arena /\ p.weights = "stored" /\ DOMAIN p = Fields
<1> USE DEF Model!Damages, Model!Damaged, Model!Package, Fields
<1>1. CASE damage = "none"
  BY <1>1
<1>2. CASE damage = "magic"
  BY <1>2
<1>3. CASE damage = "major"
  BY <1>3
<1>4. CASE damage = "fewer sections"
  BY <1>4
<1>5. CASE damage = "more sections"
  BY <1>5
<1>6. CASE damage = "header size"
  BY <1>6
<1>7. CASE damage = "more tensors"
  BY <1>7
<1>8. CASE damage = "byte"
  BY <1>8
<1>9. CASE damage = "checksum type"
  BY <1>9
<1>10. CASE damage = "short header"
  BY <1>10
<1>11. CASE damage = "short directory"
  BY <1>11
<1>12. CASE damage = "last byte lost"
  BY <1>12
<1>13. QED
  BY <1>1, <1>2, <1>3, <1>4, <1>5, <1>6, <1>7, <1>8, <1>9, <1>10, <1>11, <1>12

\* Every other damage is one of four kinds: a byte under a checksum that is
\* compared, a file shorter than a header, than its directory, than its sections.
LEMMA DamageNoticed ==
  ASSUME NEW gr, NEW h, NEW dir, NEW damage \in Model!Damages \ Tolerated,
         NEW p \in Model!Damaged(Model!Package(gr, h, dir), damage)
  PROVE  \/ p.checksum = 1 /\ ~p.intact
         \/ p.size = 67
         \/ p.size = p.dirEnd - 1 /\ p.dirEnd = h.size + 32 * h.count
         \/ p.size = h.bytes - 1 /\ p.dir = dir
<1> USE DEF Model!Damages, Model!Damaged, Model!Package, Tolerated
<1>1. CASE damage = "magic"
  BY <1>1
<1>2. CASE damage = "major"
  BY <1>2
<1>3. CASE damage = "fewer sections"
  BY <1>3
<1>4. CASE damage = "more sections"
  BY <1>4
<1>5. CASE damage = "header size"
  BY <1>5
<1>6. CASE damage = "more tensors"
  BY <1>6
<1>7. CASE damage = "byte"
  BY <1>7
<1>8. CASE damage = "short header"
  BY <1>8
<1>9. CASE damage = "short directory"
  <2> DEFINE whole == Model!Package(gr, h, dir)
  <2>1. p = [whole EXCEPT !.size = whole.dirEnd - 1]
    BY <1>9 DEF Model!Damaged
  <2>2. "size" \in DOMAIN whole /\ "dirEnd" \in DOMAIN whole /\ whole.dirEnd = h.size + 32 * h.count
    BY DEF Model!Package
  <2> HIDE DEF whole
  <2>3. p.size = whole.dirEnd - 1 /\ p.dirEnd = whole.dirEnd
    BY <2>1, <2>2
  <2>4. QED
    BY <2>2, <2>3
<1>10. CASE damage = "last byte lost"
  BY <1>10
<1>11. QED
  BY <1>1, <1>2, <1>3, <1>4, <1>5, <1>6, <1>7, <1>8, <1>9, <1>10

\* A directory as write_spk packs it, under its header.
LaidOut(h, dir) ==
    /\ h.size = 68
    /\ h.count \in Nat /\ h.bytes \in Nat
    /\ dir \in Seq(Entry)
    /\ Len(dir) > 0
    /\ dir[Len(dir)].size = 4
    /\ h.bytes = dir[Len(dir)].offset + 4

\* spkv2_load_memory turns a damaged package down, whatever the damage has done to
\* the rest of the file; also when its weights have been taken out.
LEMMA DamagedNotLoaded ==
  ASSUME NEW gr, NEW h, NEW dir, LaidOut(h, dir),
         NEW damage \in Model!Damages \ Tolerated,
         NEW p \in Model!Damaged(Model!Package(gr, h, dir), damage),
         NEW weights \in {"stored", "zeroed"}
  PROVE  /\ Model!LoadError([p EXCEPT !.weights = weights]) # 0
         /\ Model!LoadError(p) # 0
<1> DEFINE Refused(q) == \/ q.checksum = 1 /\ ~q.intact
                         \/ q.size = 67
                         \/ q.size = q.dirEnd - 1 /\ q.dirEnd = h.size + 32 * h.count
                         \/ q.size = h.bytes - 1 /\ q.dir = dir
<1>1. Refused(p)
  BY DamageNoticed
<1>2. Refused([p EXCEPT !.weights = weights])
  <2>2. /\ [p EXCEPT !.weights = weights].checksum = p.checksum
        /\ [p EXCEPT !.weights = weights].intact = p.intact
        /\ [p EXCEPT !.weights = weights].size = p.size
        /\ [p EXCEPT !.weights = weights].dirEnd = p.dirEnd
        /\ [p EXCEPT !.weights = weights].dir = p.dir
    BY DamagedGraph DEF Fields
  <2>3. QED
    BY <1>1, <2>2
<1>3. ASSUME NEW q, Refused(q) PROVE Model!LoadError(q) # 0
  <2>1. CASE q.checksum = 1 /\ ~q.intact
    BY <2>1 DEF Model!LoadError
  <2>2. CASE q.size = 67
    BY <2>2 DEF Model!LoadError
  <2>3. CASE q.size = q.dirEnd - 1 /\ q.dirEnd = h.size + 32 * h.count
    <3>1. q.dirEnd > q.size
      BY <2>3 DEF LaidOut
    <3>2. Model!LoadError(q) \in {-1, -2, -3}
      BY <3>1, Zenon DEF Model!LoadError
    <3>3. QED
      BY <3>2
  <2>4. CASE q.size = h.bytes - 1 /\ q.dir = dir
    <3> DEFINE e == dir[Len(dir)]
    <3>1. Len(dir) \in DOMAIN q.dir /\ e \in Entry
      BY <2>4 DEF LaidOut
    <3>2. ~Model!InFile(q, e)
      BY <2>4, <3>1 DEF Model!InFile, LaidOut, Entry
    <3>3. \E i \in DOMAIN q.dir : ~Model!InFile(q, q.dir[i])
      BY <3>1, <3>2, <2>4
    <3>4. QED
      BY <3>3 DEF Model!LoadError
  <2>5. QED
    BY <1>3, <2>1, <2>2, <2>3, <2>4
<1>4. QED
  BY <1>1, <1>2, <1>3

-----------------------------------------------------------------------------
(* The file and the program made of it, from write_spk to the last call.   *)

\* Every entry of the directory so far has the kind of its section.
KindsInv == \A i \in 1..(next - 1) : directory[i].kind = sections[i].kind

\* The program that codegen makes of the file that arrived.
MadeProgram ==
    IF way \in Model!InlineWays THEN Model!GenerateInline(pkg[1], way \in Model!ExternalWays)
    ELSE Model!GenerateFromSpk(pkg[1], way \in Model!ExternalWays)

\* What the finished file may be when it arrives.
Arrived == Model!Damaged(Model!Package(g, header[1], directory), deployment.damage)

\* The directory is laid out as far as it is written; the file that arrives is the
\* written one, but for its damage, and the program is made of that file.
PackageInv ==
    /\ LayoutInv
    /\ KindsInv
    /\ deployment \in Deployments
    /\ sections = Model!SectionsOf(g)
    /\ phase \in {"writing", "shipped", "deployed", "refused"}
    /\ phase = "writing" => pkg = <<>>
    /\ phase # "writing" => Written /\ pkg = <<pkg[1]>> /\ pkg[1] \in Arrived
    /\ prog = IF phase = "deployed" /\ way # "library" THEN <<MadeProgram>> ELSE <<>>
    /\ phase = "shipped" => way # "library"

\* The steps of a host.
HostCall ==
    \/ Load \/ Prepare \/ SetInput \/ BindInput \/ BindOutput \/ Run \/ GetOutput \/ Free
    \/ ApiInit \/ ApiRun \/ ApiRunMulti \/ ApiFree \/ TestProgram

\* A call needs a deployed program, and leaves the file and the program as they are.
LEMMA HostCallsKeepPackage ==
  ASSUME HostCall
  PROVE  /\ phase = "deployed"
         /\ UNCHANGED <<writerVars, deployment, phase, pkg, prog>>
<1> USE DEF Library, Generated, Callable, Call
<1>1. CASE Load
  BY <1>1, Zenon DEF Load
<1>2. CASE Prepare
  BY <1>2, Zenon DEF Prepare
<1>3. CASE SetInput
  BY <1>3, Zenon DEF SetInput
<1>4. CASE BindInput
  BY <1>4, Zenon DEF BindInput
<1>5. CASE BindOutput
  BY <1>5, Zenon DEF BindOutput
<1>6. CASE Run
  BY <1>6, Zenon DEF Run
<1>7. CASE GetOutput
  BY <1>7, Zenon DEF GetOutput
<1>8. CASE Free
  BY <1>8, Zenon DEF Free
<1>9. CASE ApiInit
  BY <1>9, Zenon DEF ApiInit
<1>10. CASE ApiRun
  BY <1>10, Zenon DEF ApiRun
<1>11. CASE ApiRunMulti
  BY <1>11, Zenon DEF ApiRunMulti
<1>12. CASE ApiFree
  BY <1>12, Zenon DEF ApiFree
<1>13. CASE TestProgram
  BY <1>13, Zenon DEF TestProgram
<1>14. QED
  BY <1>1, <1>2, <1>3, <1>4, <1>5, <1>6, <1>7, <1>8, <1>9, <1>10, <1>11, <1>12, <1>13
     DEF HostCall

\* What is said of the file depends on nothing that a call changes.
LEMMA PackageKept ==
  ASSUME PackageInv, UNCHANGED <<writerVars, deployment, phase, pkg, prog>>
  PROVE  PackageInv'
BY DEF PackageInv, writerVars, LayoutInv, TypeInv, EntriesInv, EndInv, KindsInv, g, way,
   MadeProgram, Arrived, Written

\* write_spk goes on: the layout is kept, and the kinds in their places.
LEMMA WriterStep ==
  ASSUME LayoutInv, KindsInv, WriterNext
  PROVE  LayoutInv' /\ KindsInv' /\ sections' = sections
<1>1. CASE WriteSection
  <2>1. LayoutInv'
    BY <1>1, WriteSectionLayout
  <2>2. /\ sections' = sections /\ next' = next + 1 /\ next \in 1..Len(sections)
        /\ directory \in Seq(Entry) /\ Len(directory) = next - 1
        /\ directory' = Append(directory, [kind |-> sections[next].kind,
                                           offset |-> AlignUp(offset, sections[next].align),
                                           size |-> sections[next].bytes])
    BY <1>1 DEF WriteSection, LayoutInv, TypeInv, EntriesInv
  <2>3. /\ \A i \in 1..(next - 1) : directory'[i] = directory[i]
        /\ directory'[next].kind = sections[next].kind
    BY <2>2
  <2>4. \A i \in 1..next : i \in 1..(next - 1) \/ i = next
    BY <2>2
  <2>5. QED
    BY <2>1, <2>2, <2>3, <2>4 DEF KindsInv
<1>2. CASE WriteHeader
  BY <1>2 DEF WriteHeader, LayoutInv, TypeInv, EntriesInv, EndInv, KindsInv
<1>3. QED
  BY <1>1, <1>2 DEF WriterNext

\* What is known of a deployment before anything happens (DeploymentsAssumption).
LEMMA DeploymentFacts ==
  ASSUME deployment \in Deployments
  PROVE  /\ MaxCalls \in Nat
         /\ g \in Model!CompiledGraph
         /\ OutputsAgree(g)
         /\ PlanFits(g)
         /\ Model!SectionsOf(g) \in SectionLists
         /\ way \in {"library"} \cup Model!BlobWays \cup Model!InlineWays
         /\ deployment.damage \in Model!Damages
         /\ fail \in Model!HeapKinds \cup {"none"}
BY DeploymentsAssumption DEF g, way, fail

\* Every step keeps the file and the program as PackageInv says.
LEMMA PackageStep ==
  ASSUME PackageInv, [Next]_vars
  PROVE  PackageInv'
<1>1. CASE HostCall
  BY <1>1, HostCallsKeepPackage, PackageKept
<1>2. CASE Write
  <2>1. LayoutInv' /\ KindsInv' /\ sections' = sections
    BY <1>2, WriterStep DEF Write, PackageInv
  <2>2. UNCHANGED <<deployment, phase, pkg, prog>> /\ phase = "writing"
    BY <1>2 DEF Write
  <2>3. QED
    BY <2>1, <2>2 DEF PackageInv, g, way
<1>3. CASE Ship
  BY <1>3 DEF Ship, PackageInv, writerVars, LayoutInv, TypeInv, EntriesInv, EndInv, KindsInv, g, way,
     MadeProgram, Arrived, Written
<1>4. CASE Generate
  <2>1. UNCHANGED <<writerVars, deployment, pkg>> /\ phase = "shipped" /\ way # "library"
    BY <1>4 DEF Generate, PackageInv
  <2>2. \/ phase' = "refused" /\ prog' = prog
        \/ phase' = "deployed" /\ prog' = <<MadeProgram>>
    BY <1>4 DEF Generate, MadeProgram
  <2>3. LayoutInv' /\ KindsInv' /\ Arrived' = Arrived /\ MadeProgram' = MadeProgram /\ Written' = Written
        /\ g' = g /\ way' = way
    BY <2>1 DEF PackageInv, writerVars, LayoutInv, TypeInv, EntriesInv, EndInv, KindsInv, g, way,
       MadeProgram, Arrived, Written
  <2>4. QED
    BY <2>1, <2>2, <2>3 DEF PackageInv, writerVars
<1>5. CASE UNCHANGED vars
  BY <1>5, PackageKept DEF vars
<1>6. QED
  BY <1>1, <1>2, <1>3, <1>4, <1>5 DEF Next, HostCall

\* Before write_spk has begun, nothing is wrong with the file.
LEMMA PackageStart == Init => PackageInv
<1> SUFFICES ASSUME Init PROVE PackageInv
  OBVIOUS
<1>1. deployment \in Deployments /\ Start(Model!SectionsOf(g)) /\ Model!SectionsOf(g) \in SectionLists
  BY DeploymentFacts DEF Init, g
<1>2. LayoutInv
  BY <1>1, InitLayout DEF WriterInit
<1>3. QED
  BY <1>1, <1>2 DEF PackageInv, Init, KindsInv, Start

\* The file and the program made of it, in every state of every deployment.
LEMMA PackageInvariant == Spec => []PackageInv
BY PackageStart, PackageStep, PTL DEF Spec

-----------------------------------------------------------------------------
(* The functions of the runtime library and of a generated program.        *)

Places == {"null", "weights", "arena", "host", "gone"}
Contents == {"none", "fresh", "spent", "right", "wrong"}

\* The package that is loaded, and what is found in its sections: the inline
\* generator numbers the outputs by id.
Source == IF way = "library" THEN pkg[1] ELSE prog[1].pkg

Found == IF way \in Model!InlineWays
         THEN [Model!ReadBack(Source) EXCEPT !.outputs = Model!OutputsById(Source.graph)]
         ELSE Model!ReadBack(Source)

\* The contexts and the states that a program with this package can have.
Contexts ==
    [ graph : {Source.graph}, arena : {Source.arena}, scratch : {Source.scratch}, weights : {Source.weights},
      read : {Found},
      place : [1..Len(Source.graph.tensors) -> Places],
      content : [1..Len(Source.graph.tensors) -> Contents],
      ownsModel : BOOLEAN, ownsArena : BOOLEAN, ownsScratch : BOOLEAN,
      dtors : BOOLEAN, packed : BOOLEAN ]

States ==
    [ ctx : {<<>>} \cup {<<c>> : c \in Contexts}, ready : BOOLEAN,
      heap : [Model!HeapKinds -> Int], rc : -23..1, undefined : BOOLEAN ]

\* A state is its fields.
LEMMA StateFields ==
  ASSUME NEW s \in States
  PROVE  /\ s.ctx # <<>> => s.ctx = <<s.ctx[1]>> /\ s.ctx[1] \in Contexts
         /\ s.heap \in [Model!HeapKinds -> Int]
         /\ s.ready \in BOOLEAN /\ s.undefined \in BOOLEAN /\ s.rc \in -23..1
BY DEF States

\* Two states that differ at most in the heap, the result or the access flag.
LEMMA StateReturns ==
  ASSUME NEW s \in States, NEW rc \in -23..1
  PROVE  LET a == Model!Returns(s, rc)
         IN  /\ a \in States /\ a.rc = rc
             /\ a.ctx = s.ctx /\ a.heap = s.heap /\ a.ready = s.ready
             /\ a.undefined = s.undefined
BY DEF States, Model!Returns

\* A state with another context in it.
LEMMA StateWith ==
  ASSUME NEW s \in States, NEW c \in Contexts
  PROVE  LET a == Model!With(s, c)
         IN  /\ a \in States /\ a.ctx = <<c>>
             /\ a.rc = s.rc /\ a.heap = s.heap /\ a.ready = s.ready
             /\ a.undefined = s.undefined
BY DEF States, Model!With

\* A state after an access that C leaves undefined.
LEMMA StateUndefined ==
  ASSUME NEW s \in States
  PROVE  LET a == Model!Undefined(s)
         IN  /\ a \in States /\ a.undefined
             /\ a.ctx = s.ctx /\ a.heap = s.heap /\ a.ready = s.ready /\ a.rc = s.rc
<1>1. \A v \in BOOLEAN : /\ [s EXCEPT !.undefined = v] \in States
                         /\ [s EXCEPT !.undefined = v].undefined = v
                         /\ [s EXCEPT !.undefined = v].ctx = s.ctx
                         /\ [s EXCEPT !.undefined = v].ready = s.ready
                         /\ [s EXCEPT !.undefined = v].heap = s.heap
                         /\ [s EXCEPT !.undefined = v].rc = s.rc
  BY DEF States
<1>2. QED
  BY <1>1 DEF Model!Undefined

\* A state in which the ready flag of the inline program is set or cleared.
LEMMA StateReady ==
  ASSUME NEW s \in States, NEW v \in BOOLEAN
  PROVE  LET a == [s EXCEPT !.ready = v]
         IN  /\ a \in States /\ a.ready = v
             /\ a.ctx = s.ctx /\ a.heap = s.heap /\ a.undefined = s.undefined /\ a.rc = s.rc
BY DEF States

\* A state after its context has gone.
LEMMA StateNoContext ==
  ASSUME NEW s \in States
  PROVE  LET a == [s EXCEPT !.ctx = <<>>]
         IN  /\ a \in States /\ a.ctx = <<>>
             /\ a.ready = s.ready /\ a.heap = s.heap /\ a.undefined = s.undefined /\ a.rc = s.rc
BY DEF States

\* Allocating some kinds of block adds one of each.
LEMMA StateAllocate ==
  ASSUME NEW s \in States, NEW kinds
  PROVE  LET a == Model!Allocate(s, kinds)
         IN  /\ a \in States
             /\ a.ctx = s.ctx /\ a.ready = s.ready /\ a.undefined = s.undefined /\ a.rc = s.rc
             /\ \A k \in Model!HeapKinds :
                   a.heap[k] = IF k \in kinds THEN s.heap[k] + 1 ELSE s.heap[k]
<1> DEFINE h == [k \in Model!HeapKinds |-> IF k \in kinds THEN s.heap[k] + 1 ELSE s.heap[k]]
<1>1. h \in [Model!HeapKinds -> Int]
  BY DEF States
<1>2. Model!Allocate(s, kinds) = [s EXCEPT !.heap = h]
  BY DEF Model!Allocate
<1>3. \A k \in Model!HeapKinds : h[k] = IF k \in kinds THEN s.heap[k] + 1 ELSE s.heap[k]
  OBVIOUS
<1> HIDE DEF h
<1>4. QED
  BY <1>1, <1>2, <1>3 DEF States

\* Freeing some kinds of block takes one of each away.
LEMMA StateRelease ==
  ASSUME NEW s \in States, NEW kinds
  PROVE  LET a == Model!Release(s, kinds)
         IN  /\ a \in States
             /\ a.ctx = s.ctx /\ a.ready = s.ready /\ a.undefined = s.undefined /\ a.rc = s.rc
             /\ \A k \in Model!HeapKinds :
                   a.heap[k] = IF k \in kinds THEN s.heap[k] - 1 ELSE s.heap[k]
<1> DEFINE h == [k \in Model!HeapKinds |-> IF k \in kinds THEN s.heap[k] - 1 ELSE s.heap[k]]
<1>1. h \in [Model!HeapKinds -> Int]
  BY DEF States
<1>2. Model!Release(s, kinds) = [s EXCEPT !.heap = h]
  BY DEF Model!Release
<1>3. \A k \in Model!HeapKinds : h[k] = IF k \in kinds THEN s.heap[k] - 1 ELSE s.heap[k]
  OBVIOUS
<1> HIDE DEF h
<1>4. QED
  BY <1>1, <1>2, <1>3 DEF States

-----------------------------------------------------------------------------
(* What a context owns, as the proofs compare it: flag by flag.            *)
SameOwner(d, c) ==
    /\ d.dtors = c.dtors /\ d.ownsModel = c.ownsModel /\ d.ownsArena = c.ownsArena
    /\ d.ownsScratch = c.ownsScratch /\ d.packed = c.packed

OwnsArena(d, c, v) ==
    /\ d.ownsArena = v
    /\ d.dtors = c.dtors /\ d.ownsModel = c.ownsModel
    /\ d.ownsScratch = c.ownsScratch /\ d.packed = c.packed
    /\ d.place = c.place /\ d.content = c.content

\* Setting or clearing owns_arena changes that flag only.
LEMMA ContextOwnsArena ==
  ASSUME NEW c \in Contexts
  PROVE  /\ [c EXCEPT !.ownsArena = TRUE] \in Contexts
         /\ [c EXCEPT !.ownsArena = FALSE] \in Contexts
         /\ OwnsArena([c EXCEPT !.ownsArena = TRUE], c, TRUE)
         /\ OwnsArena([c EXCEPT !.ownsArena = FALSE], c, FALSE)
<1>1. \A v \in BOOLEAN : [c EXCEPT !.ownsArena = v] \in Contexts
  BY DEF Contexts
<1>2. \A v \in BOOLEAN : OwnsArena([c EXCEPT !.ownsArena = v], c, v)
  BY DEF Contexts, OwnsArena
<1>3. QED
  BY <1>1, <1>2

OwnsScratch(d, c, v) ==
    /\ d.ownsScratch = v
    /\ d.dtors = c.dtors /\ d.ownsModel = c.ownsModel
    /\ d.ownsArena = c.ownsArena /\ d.packed = c.packed
    /\ d.place = c.place /\ d.content = c.content

\* Setting or clearing owns_scratch changes that flag only.
LEMMA ContextOwnsScratch ==
  ASSUME NEW c \in Contexts
  PROVE  /\ [c EXCEPT !.ownsScratch = TRUE] \in Contexts
         /\ [c EXCEPT !.ownsScratch = FALSE] \in Contexts
         /\ OwnsScratch([c EXCEPT !.ownsScratch = TRUE], c, TRUE)
         /\ OwnsScratch([c EXCEPT !.ownsScratch = FALSE], c, FALSE)
<1>1. \A v \in BOOLEAN : [c EXCEPT !.ownsScratch = v] \in Contexts
  BY DEF Contexts
<1>2. \A v \in BOOLEAN : OwnsScratch([c EXCEPT !.ownsScratch = v], c, v)
  BY DEF Contexts, OwnsScratch
<1>3. QED
  BY <1>1, <1>2

OwnsModel(d, c, v) ==
    /\ d.ownsModel = v
    /\ d.dtors = c.dtors /\ d.ownsArena = c.ownsArena
    /\ d.ownsScratch = c.ownsScratch /\ d.packed = c.packed
    /\ d.place = c.place /\ d.content = c.content

\* Setting or clearing the ownership of the file buffer changes that flag only.
LEMMA ContextOwnsModel ==
  ASSUME NEW c \in Contexts
  PROVE  /\ [c EXCEPT !.ownsModel = TRUE] \in Contexts
         /\ [c EXCEPT !.ownsModel = FALSE] \in Contexts
         /\ OwnsModel([c EXCEPT !.ownsModel = TRUE], c, TRUE)
         /\ OwnsModel([c EXCEPT !.ownsModel = FALSE], c, FALSE)
<1>1. \A v \in BOOLEAN : [c EXCEPT !.ownsModel = v] \in Contexts
  BY DEF Contexts
<1>2. \A v \in BOOLEAN : OwnsModel([c EXCEPT !.ownsModel = v], c, v)
  BY DEF Contexts, OwnsModel
<1>3. QED
  BY <1>1, <1>2

Packs(d, c, v) ==
    /\ d.packed = v
    /\ d.dtors = c.dtors /\ d.ownsModel = c.ownsModel
    /\ d.ownsArena = c.ownsArena /\ d.ownsScratch = c.ownsScratch
    /\ d.place = c.place /\ d.content = c.content

\* Filling or dropping the cache of packed weights changes that flag only.
LEMMA ContextPacks ==
  ASSUME NEW c \in Contexts
  PROVE  /\ [c EXCEPT !.packed = TRUE] \in Contexts
         /\ [c EXCEPT !.packed = FALSE] \in Contexts
         /\ Packs([c EXCEPT !.packed = TRUE], c, TRUE)
         /\ Packs([c EXCEPT !.packed = FALSE], c, FALSE)
<1>1. \A v \in BOOLEAN : [c EXCEPT !.packed = v] \in Contexts
  BY DEF Contexts
<1>2. \A v \in BOOLEAN : Packs([c EXCEPT !.packed = v], c, v)
  BY DEF Contexts, Packs
<1>3. QED
  BY <1>1, <1>2

Dtors(d, c, v) ==
    /\ d.dtors = v
    /\ d.ownsModel = c.ownsModel /\ d.ownsArena = c.ownsArena
    /\ d.ownsScratch = c.ownsScratch /\ d.packed = c.packed
    /\ d.place = c.place /\ d.content = c.content

\* Setting or clearing the destructor table changes that flag only.
LEMMA ContextDtors ==
  ASSUME NEW c \in Contexts
  PROVE  /\ [c EXCEPT !.dtors = TRUE] \in Contexts
         /\ [c EXCEPT !.dtors = FALSE] \in Contexts
         /\ Dtors([c EXCEPT !.dtors = TRUE], c, TRUE)
         /\ Dtors([c EXCEPT !.dtors = FALSE], c, FALSE)
<1>1. \A v \in BOOLEAN : [c EXCEPT !.dtors = v] \in Contexts
  BY DEF Contexts
<1>2. \A v \in BOOLEAN : Dtors([c EXCEPT !.dtors = v], c, v)
  BY DEF Contexts, Dtors
<1>3. QED
  BY <1>1, <1>2

N == Len(Source.graph.tensors)

\* The same context with other storage.
Moved(d, c, place, content) ==
    d \in Contexts /\ SameOwner(d, c) /\ d.place = place /\ d.content = content

\* New storage and new content for the tensors change nothing else of a context.
LEMMA ContextStorage ==
  ASSUME NEW c \in Contexts, NEW place \in [1..N -> Places], NEW content \in [1..N -> Contents]
  PROVE  Moved([c EXCEPT !.place = place, !.content = content], c, place, content)
BY DEF Contexts, SameOwner, Moved, N

\* New storage for the tensors changes nothing else of a context.
LEMMA ContextPlace ==
  ASSUME NEW c \in Contexts, NEW place \in [1..N -> Places]
  PROVE  Moved([c EXCEPT !.place = place], c, place, c.content)
BY DEF Contexts, SameOwner, Moved, N

\* New content of the tensors changes nothing else of a context.
LEMMA ContextContent ==
  ASSUME NEW c \in Contexts, NEW content \in [1..N -> Contents]
  PROVE  Moved([c EXCEPT !.content = content], c, c.place, content)
BY DEF Contexts, SameOwner, Moved, N

-----------------------------------------------------------------------------
(* The heap next to what is owned: enough blocks for every owner, or those *)
(* and no others, but for the kinds that may be lost.                      *)
Covered(s, own) ==
    \A k \in Model!HeapKinds : s.heap[k] >= 0 /\ (k \in own => s.heap[k] >= 1)

Exact(s, own, lost) ==
    \A k \in Model!HeapKinds \ lost : s.heap[k] = IF k \in own THEN 1 ELSE 0

\* What is allocated has an owner more: the heap is as good for the larger set.
LEMMA AllocateHeap ==
  ASSUME NEW s \in States, NEW kinds
  PROVE  LET a == Model!Allocate(s, kinds)
         IN  /\ \A own : Covered(s, own) => Covered(a, own \cup kinds)
             /\ \A own, lost : Exact(s, own, lost) /\ own \cap kinds = {} =>
                                 Exact(a, own \cup kinds, lost)
<1>1. /\ \A k \in Model!HeapKinds :
            Model!Allocate(s, kinds).heap[k] = IF k \in kinds THEN s.heap[k] + 1 ELSE s.heap[k]
      /\ \A k \in Model!HeapKinds : s.heap[k] \in Int
  BY StateAllocate, StateFields
<1>2. QED
  BY <1>1 DEF Covered, Exact

\* What an owner frees it no longer owns: the heap is as good for the smaller set.
LEMMA ReleaseHeap ==
  ASSUME NEW s \in States, NEW kinds
  PROVE  LET a == Model!Release(s, kinds)
         IN  /\ \A own : Covered(s, own) /\ kinds \subseteq own => Covered(a, own \ kinds)
             /\ \A own, lost : Exact(s, own, lost) /\ kinds \subseteq own =>
                                 Exact(a, own \ kinds, lost)
<1>1. /\ \A k \in Model!HeapKinds :
            Model!Release(s, kinds).heap[k] = IF k \in kinds THEN s.heap[k] - 1 ELSE s.heap[k]
      /\ \A k \in Model!HeapKinds : s.heap[k] \in Int
  BY StateRelease, StateFields
<1>2. QED
  BY <1>1 DEF Covered, Exact

\* Fewer owners, or another state with the same heap.
LEMMA HeapKept ==
  ASSUME NEW s, NEW a, a.heap = s.heap, NEW own, NEW less, NEW lost
  PROVE  /\ Covered(s, own) /\ less \subseteq own => Covered(a, less)
         /\ Exact(s, own, lost) => Exact(a, own, lost)
BY DEF Covered, Exact

\* What a context owns, block by block (spkv2_free, loader.c).
LEMMA OwnedFlags ==
  ASSUME NEW c
  PROVE  \A k : k \in Model!Owned(c) <=>
                  \/ k \in Model!LoadBlocks /\ (k = "dtors" => c.dtors)
                  \/ k = "model" /\ c.ownsModel
                  \/ k = "arena" /\ c.ownsArena
                  \/ k = "scratch" /\ c.ownsScratch
                  \/ k = "packed" /\ c.packed
BY DEF Model!Owned, Model!LoadBlocks

\* How what is owned follows a flag that changes.
LEMMA OwnedChange ==
  ASSUME NEW c, NEW d
  PROVE  /\ SameOwner(d, c) => Model!Owned(d) = Model!Owned(c)
         /\ OwnsArena(d, c, TRUE) => Model!Owned(d) = Model!Owned(c) \cup {"arena"}
         /\ OwnsArena(d, c, FALSE) => Model!Owned(d) = Model!Owned(c) \ {"arena"}
         /\ OwnsScratch(d, c, TRUE) => Model!Owned(d) = Model!Owned(c) \cup {"scratch"}
         /\ OwnsScratch(d, c, FALSE) => Model!Owned(d) = Model!Owned(c) \ {"scratch"}
         /\ OwnsModel(d, c, TRUE) => Model!Owned(d) = Model!Owned(c) \cup {"model"}
         /\ Packs(d, c, TRUE) => Model!Owned(d) = Model!Owned(c) \cup {"packed"}
         /\ Packs(d, c, FALSE) => Model!Owned(d) = Model!Owned(c) \ {"packed"}
BY DEF SameOwner, OwnsArena, OwnsScratch, OwnsModel, Packs, Model!Owned, Model!LoadBlocks

-----------------------------------------------------------------------------
(* The owner of the heap is the context of the library or, with nothing    *)
(* behind it, the statics of the inline program.                           *)
Own(s) ==
    IF way \in Model!InlineWays
    THEN (IF s.ctx # <<>> /\ s.ctx[1].packed THEN {"packed"} ELSE {})
           \cup (IF s.ready /\ way = "inlineExternal" THEN {"weights"} ELSE {})
    ELSE IF s.ctx = <<>> THEN {} ELSE Model!Owned(s.ctx[1])

Lost == Model!Forgotten(fail)

\* A step from s to a after which the heap is as good as it was before.
Balance(a, s) ==
    /\ Covered(s, Own(s)) => Covered(a, Own(a))
    /\ Exact(s, Own(s), Lost) => Exact(a, Own(a), Lost)

\* Other storage for the tensors, or other content, and nothing else.
Changed(a, s, place, content) ==
    /\ a \in States /\ a.ctx # <<>>
    /\ SameOwner(a.ctx[1], s.ctx[1])
    /\ a.ctx[1].place = place /\ a.ctx[1].content = content
    /\ a.heap = s.heap /\ a.ready = s.ready

\* The heap and its owner unchanged: the heap is as good as before.
LEMMA SameHeap ==
  ASSUME NEW s, NEW a, a.heap = s.heap, Own(a) = Own(s)
  PROVE  Balance(a, s)
BY DEF Balance, Covered, Exact

\* Other storage or content changes neither the heap nor its owner.
LEMMA ChangedBalance ==
  ASSUME NEW s, s.ctx # <<>>, NEW place, NEW content, NEW a, Changed(a, s, place, content)
  PROVE  Own(a) = Own(s) /\ Balance(a, s) /\ a.ctx[1].packed = s.ctx[1].packed
<1>1. Model!Owned(a.ctx[1]) = Model!Owned(s.ctx[1])
  BY OwnedChange DEF Changed
<1>2. Own(a) = Own(s)
  BY <1>1 DEF Changed, Own, SameOwner
<1>3. QED
  BY <1>2, SameHeap DEF Changed, SameOwner

\* Two such steps are one.
LEMMA BalanceChain ==
  ASSUME NEW s, NEW b, NEW a, Balance(b, s), Balance(a, b)
  PROVE  Balance(a, s)
BY DEF Balance

Same(a, s, rc) ==
    /\ a \in States /\ a.rc = rc /\ a.ctx = s.ctx /\ a.heap = s.heap
    /\ a.ready = s.ready /\ a.undefined = s.undefined
    /\ Own(a) = Own(s) /\ Balance(a, s)

\* To return a result is to change nothing else.
LEMMA ReturnsSame ==
  ASSUME NEW s \in States, NEW rc \in -23..1
  PROVE  Same(Model!Returns(s, rc), s, rc)
<1> DEFINE a == Model!Returns(s, rc)
<1>1. /\ a \in States /\ a.rc = rc /\ a.ctx = s.ctx /\ a.heap = s.heap
      /\ a.ready = s.ready /\ a.undefined = s.undefined
  BY StateReturns
<1> HIDE DEF a
<1>2. Own(a) = Own(s)
  BY <1>1 DEF Own
<1>3. QED
  BY <1>1, <1>2, SameHeap DEF Same, a

\* The same, as the proofs of the calls cite it.
LEMMA ReturnsFacts ==
  ASSUME NEW s \in States, NEW rc \in -23..1, NEW a, a = Model!Returns(s, rc)
  PROVE  /\ a \in States /\ a.rc = rc /\ a.ctx = s.ctx /\ a.heap = s.heap
         /\ a.ready = s.ready /\ a.undefined = s.undefined
         /\ Own(a) = Own(s) /\ Balance(a, s)
BY ReturnsSame DEF Same

-----------------------------------------------------------------------------
Buffers == {"host", "own", "small"}

\* A function that succeeds, with a new context.
LEMMA StateSucceeds ==
  ASSUME NEW s \in States, NEW c \in Contexts
  PROVE  LET a == Model!Returns(Model!With(s, c), 0)
         IN  /\ a \in States /\ a.ctx = <<c>> /\ a.ctx # <<>> /\ a.ctx[1] = c /\ a.rc = 0
             /\ a.heap = s.heap /\ a.ready = s.ready /\ a.undefined = s.undefined
<1> DEFINE u == Model!With(s, c)
           a == Model!Returns(u, 0)
<1>1. u \in States /\ u.ctx = <<c>> /\ u.heap = s.heap /\ u.ready = s.ready
      /\ u.undefined = s.undefined
  BY StateWith
<1> HIDE DEF u
<1>2. a \in States /\ a.ctx = <<c>> /\ a.rc = 0
      /\ a.heap = s.heap /\ a.ready = s.ready /\ a.undefined = s.undefined
  BY <1>1, StateReturns
<1>3. <<c>> # <<>> /\ <<c>>[1] = c
  OBVIOUS
<1>4. QED
  BY <1>2, <1>3, Zenon DEF u

\* The same state, what was allocated or overwritten in it left aside.
Follows(a, s) ==
    /\ a \in States /\ a.ctx # <<>>
    /\ a.ready = s.ready /\ a.undefined = s.undefined

\* What providing a buffer does: to the owners, the heap, and to nothing else.
Provided(a, s) ==
    /\ Follows(a, s)
    /\ a.rc \in {0, -1, -2}
    /\ a.ctx[1].place = s.ctx[1].place /\ a.ctx[1].content = s.ctx[1].content
    /\ a.ctx[1].packed = s.ctx[1].packed
    /\ Covered(s, Model!Owned(s.ctx[1])) => Covered(a, Model!Owned(a.ctx[1]))

ArenaTaken(a, s, arena) ==
    /\ a.ctx[1].ownsScratch = s.ctx[1].ownsScratch
    /\ ~s.ctx[1].ownsArena =>
          \A lost : Exact(s, Model!Owned(s.ctx[1]), lost) => Exact(a, Model!Owned(a.ctx[1]), lost)
    /\ arena = "host" => a.rc = 0 /\ ~a.ctx[1].ownsArena

\* spkv2_prepare takes the host's arena, or one of its own, or refuses (executor.c).
LEMMA TakeArenaFacts ==
  ASSUME NEW s \in States, s.ctx # <<>>, NEW arena \in Buffers, NEW f,
         NEW a, a = Model!TakeArena(s, arena, f)
  PROVE  Provided(a, s) /\ ArenaTaken(a, s, arena)
<1> DEFINE c == s.ctx[1]
           taken == [c EXCEPT !.ownsArena = TRUE]
           given == [c EXCEPT !.ownsArena = FALSE]
           t == Model!Allocate(s, {"arena"})
<1>1. s.ctx = <<c>> /\ c \in Contexts
  BY StateFields
<1>2. \/ a = Model!Returns(s, -2) /\ arena = "small"
      \/ a = Model!Returns(s, -1) /\ arena = "own"
      \/ a = Model!Returns(Model!With(t, taken), 0) /\ arena = "own"
      \/ a = Model!Returns(Model!With(s, given), 0) /\ arena # "own"
  BY DEF Model!TakeArena, Buffers
<1>3. /\ taken \in Contexts /\ OwnsArena(taken, c, TRUE)
      /\ given \in Contexts /\ OwnsArena(given, c, FALSE)
  BY <1>1, ContextOwnsArena
<1> HIDE DEF taken, given
<1>4. /\ Model!Owned(taken) = Model!Owned(c) \cup {"arena"}
      /\ Model!Owned(given) = Model!Owned(c) \ {"arena"}
      /\ ~c.ownsArena => "arena" \notin Model!Owned(c)
  BY <1>3, OwnedChange, OwnedFlags DEF Model!LoadBlocks
<1>5. ASSUME NEW rc \in {-1, -2}, a = Model!Returns(s, rc), arena # "host"
      PROVE  Provided(a, s) /\ ArenaTaken(a, s, arena)
  <2>1. a \in States /\ a.ctx = s.ctx /\ a.heap = s.heap /\ a.rc = rc
        /\ a.ready = s.ready /\ a.undefined = s.undefined
    BY <1>5, StateReturns
  <2>2. /\ Covered(s, Model!Owned(c)) => Covered(a, Model!Owned(c))
        /\ \A lost : Exact(s, Model!Owned(c), lost) => Exact(a, Model!Owned(c), lost)
    BY <2>1 DEF Covered, Exact
  <2>3. QED
    BY <1>5, <2>1, <2>2 DEF Provided, Follows, ArenaTaken
<1>6. CASE a = Model!Returns(Model!With(t, taken), 0) /\ arena = "own"
  <2>1. /\ t \in States /\ t.ready = s.ready /\ t.undefined = s.undefined
        /\ Covered(s, Model!Owned(c)) => Covered(t, Model!Owned(taken))
    BY <1>4, StateAllocate, AllocateHeap
  <2>2. ASSUME ~c.ownsArena, NEW lost, Exact(s, Model!Owned(c), lost)
        PROVE  Exact(t, Model!Owned(taken), lost)
    <3>1. Model!Owned(c) \cap {"arena"} = {}
      BY <2>2, <1>4
    <3>2. QED
      BY <2>2, <3>1, <1>4, AllocateHeap
  <2> HIDE DEF t
  <2>3. a \in States /\ a.ctx # <<>> /\ a.ctx[1] = taken /\ a.heap = t.heap /\ a.rc = 0
        /\ a.ready = s.ready /\ a.undefined = s.undefined
    BY <1>3, <1>6, <2>1, StateSucceeds
  <2>4. /\ Covered(t, Model!Owned(taken)) => Covered(a, Model!Owned(taken))
        /\ \A lost : Exact(t, Model!Owned(taken), lost) => Exact(a, Model!Owned(taken), lost)
    BY <2>3 DEF Covered, Exact
  <2>5. QED
    BY <1>3, <1>6, <2>1, <2>2, <2>3, <2>4 DEF Provided, Follows, ArenaTaken, OwnsArena
<1>7. CASE a = Model!Returns(Model!With(s, given), 0) /\ arena # "own"
  <2>1. a \in States /\ a.ctx # <<>> /\ a.ctx[1] = given /\ a.heap = s.heap /\ a.rc = 0
        /\ a.ready = s.ready /\ a.undefined = s.undefined
    BY <1>3, <1>7, StateSucceeds
  <2>2. /\ Covered(s, Model!Owned(c)) => Covered(a, Model!Owned(given))
        /\ ~c.ownsArena =>
              \A lost : Exact(s, Model!Owned(c), lost) => Exact(a, Model!Owned(given), lost)
    BY <2>1, <1>4 DEF Covered, Exact
  <2>3. QED
    BY <1>3, <1>7, <2>1, <2>2 DEF Provided, Follows, ArenaTaken, OwnsArena
<1>8. QED
  BY <1>2, <1>5, <1>6, <1>7

ScratchTaken(a, s, scratch) ==
    /\ a.ctx[1].ownsArena = s.ctx[1].ownsArena
    /\ ~s.ctx[1].ownsScratch =>
          \A lost : Exact(s, Model!Owned(s.ctx[1]), lost) => Exact(a, Model!Owned(a.ctx[1]), lost)
    /\ scratch = "host" /\ s.rc = 0 => a.rc = 0
    /\ scratch = "host" /\ ~s.ctx[1].ownsScratch => ~a.ctx[1].ownsScratch

\* spkv2_prepare takes the host's scratch, or one of its own, or refuses (executor.c).
LEMMA TakeScratchFacts ==
  ASSUME NEW s \in States, s.ctx # <<>>, NEW scratch \in Buffers, NEW f,
         NEW a, a = Model!TakeScratch(s, scratch, f)
  PROVE  Provided(a, s) /\ ScratchTaken(a, s, scratch)
<1> DEFINE c == s.ctx[1]
           taken == [c EXCEPT !.ownsScratch = TRUE]
           given == [c EXCEPT !.ownsScratch = FALSE]
           t == Model!Allocate(s, {"scratch"})
<1>1. s.ctx = <<c>> /\ c \in Contexts
  BY StateFields
<1>2. \/ a = Model!Returns(s, 0)
      \/ a = Model!Returns(s, -2) /\ scratch = "small"
      \/ a = Model!Returns(s, -1) /\ scratch = "own"
      \/ a = Model!Returns(Model!With(t, taken), 0) /\ scratch = "own"
      \/ a = Model!Returns(Model!With(s, given), 0)
  BY DEF Model!TakeScratch, Buffers
<1>3. /\ taken \in Contexts /\ OwnsScratch(taken, c, TRUE)
      /\ given \in Contexts /\ OwnsScratch(given, c, FALSE)
  BY <1>1, ContextOwnsScratch
<1> HIDE DEF taken, given
<1>4. /\ Model!Owned(taken) = Model!Owned(c) \cup {"scratch"}
      /\ Model!Owned(given) = Model!Owned(c) \ {"scratch"}
      /\ ~c.ownsScratch => "scratch" \notin Model!Owned(c)
  <2>1. Model!Owned(taken) = Model!Owned(c) \cup {"scratch"}
    BY <1>3, OwnedChange
  <2>2. Model!Owned(given) = Model!Owned(c) \ {"scratch"}
    BY <1>3, OwnedChange
  <2>3. ~c.ownsScratch => "scratch" \notin Model!Owned(c)
    BY OwnedFlags DEF Model!LoadBlocks
  <2>4. QED
    BY <2>1, <2>2, <2>3
<1>5. ASSUME NEW rc \in {0, -1, -2}, a = Model!Returns(s, rc), rc = 0 \/ scratch # "host"
      PROVE  Provided(a, s) /\ ScratchTaken(a, s, scratch)
  <2>1. a \in States /\ a.ctx = s.ctx /\ a.heap = s.heap /\ a.rc = rc
        /\ a.ready = s.ready /\ a.undefined = s.undefined
    <3>1. rc \in -23..1
      BY <1>5
    <3>2. Same(Model!Returns(s, rc), s, rc)
      BY <3>1, ReturnsSame, Zenon
    <3>3. QED
      BY <1>5, <3>2 DEF Same
  <2>2. /\ Covered(s, Model!Owned(c)) => Covered(a, Model!Owned(c))
        /\ \A lost : Exact(s, Model!Owned(c), lost) => Exact(a, Model!Owned(c), lost)
    BY <2>1 DEF Covered, Exact
  <2>3. QED
    BY <1>5, <2>1, <2>2 DEF Provided, Follows, ScratchTaken
<1>6. CASE a = Model!Returns(Model!With(t, taken), 0) /\ scratch = "own"
  <2>1. /\ t \in States /\ t.ready = s.ready /\ t.undefined = s.undefined
        /\ Covered(s, Model!Owned(c)) => Covered(t, Model!Owned(taken))
    BY <1>4, StateAllocate, AllocateHeap
  <2>2. ASSUME ~c.ownsScratch, NEW lost, Exact(s, Model!Owned(c), lost)
        PROVE  Exact(t, Model!Owned(taken), lost)
    <3>1. Model!Owned(c) \cap {"scratch"} = {}
      BY <2>2, <1>4
    <3>2. QED
      BY <2>2, <3>1, <1>4, AllocateHeap
  <2> HIDE DEF t
  <2>3. a \in States /\ a.ctx # <<>> /\ a.ctx[1] = taken /\ a.heap = t.heap /\ a.rc = 0
        /\ a.ready = s.ready /\ a.undefined = s.undefined
    BY <1>3, <1>6, <2>1, StateSucceeds
  <2>4. /\ Covered(t, Model!Owned(taken)) => Covered(a, Model!Owned(taken))
        /\ \A lost : Exact(t, Model!Owned(taken), lost) => Exact(a, Model!Owned(taken), lost)
    BY <2>3 DEF Covered, Exact
  <2>5. QED
    BY <1>3, <1>6, <2>1, <2>2, <2>3, <2>4 DEF Provided, Follows, ScratchTaken, OwnsScratch
<1>7. CASE a = Model!Returns(Model!With(s, given), 0)
  <2>1. a \in States /\ a.ctx # <<>> /\ a.ctx[1] = given /\ a.heap = s.heap /\ a.rc = 0
        /\ a.ready = s.ready /\ a.undefined = s.undefined
    BY <1>3, <1>7, StateSucceeds
  <2>2. /\ Covered(s, Model!Owned(c)) => Covered(a, Model!Owned(given))
        /\ ~c.ownsScratch =>
              \A lost : Exact(s, Model!Owned(c), lost) => Exact(a, Model!Owned(given), lost)
    BY <2>1, <1>4 DEF Covered, Exact
  <2>3. QED
    BY <1>3, <1>7, <2>1, <2>2 DEF Provided, Follows, ScratchTaken, OwnsScratch
<1>8. QED
  BY <1>2, <1>5, <1>6, <1>7

-----------------------------------------------------------------------------
(* Where the tensors point once a context is prepared.                     *)
Stored == [t \in 1..N |-> Model!Storage(Source.graph, t)]

\* prepare leaves only the EXTERNAL tensors without storage.
LEMMA StoredPlaces ==
  /\ Stored \in [1..N -> Places]
  /\ \A t \in 1..N : /\ Stored[t] \in {"weights", "arena", "null"}
                     /\ Stored[t] = "null" => Source.graph.tensors[t].class = "EXTERNAL"
BY DEF Stored, Model!Storage, Places

\* The fields of a context that never change, and the shape of the others.
LEMMA ContextFields ==
  ASSUME NEW c \in Contexts
  PROVE  /\ c.graph = Source.graph /\ c.weights = Source.weights /\ c.read = Found
         /\ c.place \in [1..N -> Places] /\ c.content \in [1..N -> Contents]
         /\ DOMAIN c.place = 1..N /\ DOMAIN c.content = 1..N
BY DEF Contexts, N

Placed(a, s) ==
    /\ Follows(a, s) /\ a.heap = s.heap
    /\ SameOwner(a.ctx[1], s.ctx[1])
    /\ a.rc \in {0, -3, -4}
    /\ a.rc # 0 => a.ctx = s.ctx
    /\ a.rc = 0 => a.ctx[1].place = Stored /\ a.ctx[1].content = [t \in 1..N |-> "none"]

\* Placing the tensors gives each the storage that the plan names.
LEMMA PlaceTensorsFacts ==
  ASSUME NEW s \in States, s.ctx # <<>>, NEW a, a = Model!PlaceTensors(s)
  PROVE  Placed(a, s)
<1> DEFINE c == s.ctx[1]
           none == [t \in 1..N |-> "none"]
           placed == [c EXCEPT !.place = Stored, !.content = none]
<1>1. s.ctx = <<c>> /\ c \in Contexts
  BY StateFields
<1>2. \/ a = Model!Returns(s, -3)
      \/ a = Model!Returns(s, -4)
      \/ a = Model!Returns(Model!With(s, placed), 0)
  BY <1>1, ContextFields DEF Model!PlaceTensors, Stored
<1>3. placed \in Contexts /\ SameOwner(placed, c) /\ placed.place = Stored /\ placed.content = none
  <2>1. none \in [1..N -> Contents]
    BY DEF Contents
  <2> HIDE DEF none
  <2>2. Moved(placed, c, Stored, none)
    BY <1>1, <2>1, StoredPlaces, ContextStorage
  <2> HIDE DEF placed
  <2>3. QED
    BY <2>2 DEF Moved
<1> HIDE DEF placed
<1>4. ASSUME NEW rc \in {-3, -4}, a = Model!Returns(s, rc)
      PROVE  Placed(a, s)
  <2>1. rc \in -23..1
    BY <1>4
  <2>2. Same(Model!Returns(s, rc), s, rc)
    BY <2>1, ReturnsSame, Zenon
  <2>3. a \in States /\ a.ctx = s.ctx /\ a.heap = s.heap /\ a.rc = rc
        /\ a.ready = s.ready /\ a.undefined = s.undefined
    BY <1>4, <2>2 DEF Same
  <2>4. QED
    BY <1>4, <2>3 DEF Placed, Follows, SameOwner
<1>5. CASE a = Model!Returns(Model!With(s, placed), 0)
  BY <1>5, <1>3, StateSucceeds DEF Placed, Follows
<1>6. QED
  BY <1>2, <1>4, <1>5

\* spkv2_prepare_with_scratch, from the three.
Prepared(a, s, arena, scratch) ==
    /\ Follows(a, s)
    /\ a.rc \in -4..0
    /\ a.ctx[1].packed = s.ctx[1].packed
    /\ Covered(s, Model!Owned(s.ctx[1])) => Covered(a, Model!Owned(a.ctx[1]))
    /\ ~s.ctx[1].ownsArena /\ ~s.ctx[1].ownsScratch =>
          \A lost : Exact(s, Model!Owned(s.ctx[1]), lost) => Exact(a, Model!Owned(a.ctx[1]), lost)
    /\ a.rc # 0 => a.ctx[1].place = s.ctx[1].place /\ a.ctx[1].content = s.ctx[1].content
    /\ a.rc = 0 => a.ctx[1].place = Stored /\ a.ctx[1].content = [t \in 1..N |-> "none"]

\* spkv2_prepare: on success every tensor is placed, on failure what was taken is kept.
LEMMA PrepareFacts ==
  ASSUME NEW s \in States, s.ctx # <<>>, NEW arena \in Buffers, NEW scratch \in Buffers, NEW f,
         NEW a, a = Model!Prepare(s, arena, scratch, f)
  PROVE  Prepared(a, s, arena, scratch)
<1> DEFINE x == Model!TakeArena(s, arena, f)
           y == Model!TakeScratch(x, scratch, f)
           z == Model!PlaceTensors(y)
<1>1. a = IF x.rc # 0 THEN x ELSE IF y.rc # 0 THEN y ELSE z
  BY DEF Model!Prepare
<1>2. Provided(x, s) /\ ArenaTaken(x, s, arena)
  BY TakeArenaFacts
<1>3. x \in States /\ x.ctx # <<>>
  BY <1>2 DEF Provided, Follows
<1> HIDE DEF x
<1>4. Provided(y, x) /\ ScratchTaken(y, x, scratch)
  BY <1>3, TakeScratchFacts
<1>5. y \in States /\ y.ctx # <<>>
  BY <1>4 DEF Provided, Follows
<1> HIDE DEF y
<1>6. Placed(z, y)
  BY <1>5, PlaceTensorsFacts
<1> HIDE DEF z
<1>7. CASE a = x /\ x.rc # 0
  BY <1>7, <1>2 DEF Provided, ArenaTaken, Prepared, Follows
<1>8. Provided(y, s) /\ (~s.ctx[1].ownsArena /\ ~s.ctx[1].ownsScratch =>
          \A lost : Exact(s, Model!Owned(s.ctx[1]), lost) => Exact(y, Model!Owned(y.ctx[1]), lost))
  BY <1>2, <1>4 DEF Provided, ArenaTaken, ScratchTaken, Follows
<1>9. CASE a = y /\ y.rc # 0
  BY <1>9, <1>8 DEF Provided, Prepared, Follows
<1>10. CASE a = z
  <2>1. Model!Owned(z.ctx[1]) = Model!Owned(y.ctx[1])
    BY <1>6, OwnedChange DEF Placed
  <2>2. /\ Covered(y, Model!Owned(y.ctx[1])) => Covered(z, Model!Owned(z.ctx[1]))
        /\ \A lost : Exact(y, Model!Owned(y.ctx[1]), lost) => Exact(z, Model!Owned(z.ctx[1]), lost)
    BY <2>1, <1>6 DEF Placed, Covered, Exact
  <2>3. z.rc # 0 => z.ctx[1].place = s.ctx[1].place /\ z.ctx[1].content = s.ctx[1].content
    BY <1>6, <1>8 DEF Placed, Provided
  <2>4. z.rc \in -4..0 /\ Follows(z, s) /\ z.ctx[1].packed = s.ctx[1].packed
    BY <1>6, <1>8 DEF Placed, Provided, Follows, SameOwner
  <2>5. QED
    BY <1>10, <2>2, <2>3, <2>4, <1>6, <1>8 DEF Placed, Provided, Prepared
<1>11. QED
  BY <1>1, <1>7, <1>9, <1>10

\* An undefined access leaves everything else as it is.
LEMMA UndefinedFacts ==
  ASSUME NEW s \in States, NEW a, a = Model!Undefined(s)
  PROVE  /\ a \in States /\ a.rc = s.rc /\ a.ctx = s.ctx /\ a.heap = s.heap
         /\ a.ready = s.ready /\ a.undefined
         /\ Own(a) = Own(s) /\ Balance(a, s)
<1>1. /\ a \in States /\ a.rc = s.rc /\ a.ctx = s.ctx /\ a.heap = s.heap
      /\ a.ready = s.ready /\ a.undefined
  BY StateUndefined
<1>2. Own(a) = Own(s)
  BY <1>1 DEF Own
<1>3. QED
  BY <1>1, <1>2, SameHeap

\* New storage in the context and a result, in one.
LEMMA ChangedReturns ==
  ASSUME NEW s \in States, s.ctx # <<>>, NEW place \in [1..N -> Places],
         NEW content \in [1..N -> Contents], NEW d, Moved(d, s.ctx[1], place, content),
         NEW a, a = Model!Returns(Model!With(s, d), 0)
  PROVE  Changed(a, s, place, content) /\ a.rc = 0 /\ a.undefined = s.undefined
<1>1. a \in States /\ a.ctx # <<>> /\ a.ctx[1] = d /\ a.rc = 0
      /\ a.heap = s.heap /\ a.ready = s.ready /\ a.undefined = s.undefined
  BY StateSucceeds DEF Moved
<1>2. QED
  BY <1>1 DEF Moved, Changed

\* Putting a context with other storage or content in place does just that.
LEMMA ChangedWith ==
  ASSUME NEW s \in States, s.ctx # <<>>, NEW place \in [1..N -> Places],
         NEW content \in [1..N -> Contents], NEW d, Moved(d, s.ctx[1], place, content),
         NEW a, a = Model!With(s, d)
  PROVE  Changed(a, s, place, content) /\ a.rc = s.rc /\ a.undefined = s.undefined
<1>1. a \in States /\ a.ctx = <<d>>
      /\ a.rc = s.rc /\ a.heap = s.heap /\ a.ready = s.ready /\ a.undefined = s.undefined
  BY StateWith DEF Moved
<1>2. <<d>> # <<>> /\ <<d>>[1] = d
  OBVIOUS
<1>3. QED
  BY <1>1, <1>2 DEF Moved, Changed

-----------------------------------------------------------------------------
(* Handing over inputs and outputs.                                        *)
Ins == Model!InputsById(Source.graph)
Outs == Found.outputs

\* The tensors behind the indices of the interface are tensors of the graph.
IndicesGood ==
    /\ \A i \in DOMAIN Ins : Ins[i] \in 1..N
    /\ \A i \in DOMAIN Outs : Outs[i] \in 1..N

Dangling(s, t) == s.ctx[1].place[t] \in {"null", "gone"}

\* spkv2_set_input copies to where the input is, or refuses the index.
LEMMA SetInputFacts ==
  ASSUME IndicesGood, NEW s \in States, s.ctx # <<>>, NEW i, NEW a, a = Model!SetInput(s, i)
  PROVE  /\ i \notin DOMAIN Ins => a = Model!Returns(s, -3)
         /\ i \in DOMAIN Ins =>
              /\ Changed(a, s, s.ctx[1].place, [s.ctx[1].content EXCEPT ![Ins[i]] = "fresh"])
              /\ a.rc = 0
              /\ ~Dangling(s, Ins[i]) => a.undefined = s.undefined
<1> DEFINE c == s.ctx[1]
           t == Ins[i]
           content == [c.content EXCEPT ![t] = "fresh"]
           d == [c EXCEPT !.content[t] = "fresh"]
           b == Model!Access(s, t)
<1>1. c \in Contexts
  BY StateFields
<1>2. /\ c.graph = Source.graph /\ c.place \in [1..N -> Places] /\ c.content \in [1..N -> Contents]
  BY <1>1, ContextFields
<1>3. /\ i \notin DOMAIN Ins => a = Model!Returns(s, -3)
      /\ i \in DOMAIN Ins => a = Model!Returns(Model!With(b, d), 0)
  BY <1>2, Zenon DEF Model!SetInput, Model!HasInput, Model!InputTensor, Ins
<1>4. b = s \/ b = Model!Undefined(s)
  BY Zenon DEF Model!Access
<1>5. ~Dangling(s, t) => b = s
  BY Zenon DEF Model!Access, Dangling
<1>6. b \in States /\ b.ctx = s.ctx /\ b.heap = s.heap /\ b.ready = s.ready
  BY <1>4, UndefinedFacts
<1> HIDE DEF b
<1>7. ASSUME i \in DOMAIN Ins
      PROVE  Moved(d, c, c.place, content) /\ content \in [1..N -> Contents]
  <2>1. t \in 1..N
    BY <1>7 DEF IndicesGood
  <2>2. content \in [1..N -> Contents]
    BY <2>1, <1>2 DEF Contents
  <2>3. d = [c EXCEPT !.content = content]
    BY <1>1 DEF Contexts
  <2> HIDE DEF content, d
  <2>4. QED
    BY <2>2, <2>3, <1>1, ContextContent
<1>8. ASSUME i \in DOMAIN Ins
      PROVE  Changed(a, b, c.place, content) /\ a.rc = 0 /\ a.undefined = b.undefined
  <2>1. b.ctx # <<>> /\ b.ctx[1] = c
    BY <1>6
  <2> HIDE DEF content, d, c
  <2>2. QED
    BY <2>1, <1>2, <1>3, <1>6, <1>7, <1>8, ChangedReturns
<1>9. ASSUME i \in DOMAIN Ins
      PROVE  Changed(a, s, c.place, content)
  BY <1>6, <1>8, <1>9 DEF Changed
<1> HIDE DEF content
<1>10. QED
  BY <1>3, <1>5, <1>8, <1>9 DEF content

\* bind_input and bind_output: the tensor points to the host's buffer.
Bound(a, s, t, what) ==
    /\ Changed(a, s, [s.ctx[1].place EXCEPT ![t] = "host"], [s.ctx[1].content EXCEPT ![t] = what])
    /\ a.rc = 0
    /\ a.undefined = s.undefined

\* A tensor bound to a buffer of the host points there, with what the buffer holds.
LEMMA BoundFacts ==
  ASSUME NEW s \in States, s.ctx # <<>>, NEW t \in 1..N, NEW what \in Contents, NEW a,
         a = Model!Returns(Model!With(s, [s.ctx[1] EXCEPT !.place[t] = "host", !.content[t] = what]), 0)
  PROVE  Bound(a, s, t, what)
<1> DEFINE c == s.ctx[1]
           place == [c.place EXCEPT ![t] = "host"]
           content == [c.content EXCEPT ![t] = what]
           d == [c EXCEPT !.place[t] = "host", !.content[t] = what]
<1>1. c \in Contexts
  BY StateFields
<1>2. c.place \in [1..N -> Places] /\ c.content \in [1..N -> Contents]
  BY <1>1, ContextFields
<1>3. place \in [1..N -> Places] /\ content \in [1..N -> Contents]
  BY <1>2 DEF Places
<1>4. d = [c EXCEPT !.place = place, !.content = content]
  BY <1>1 DEF Contexts
<1> HIDE DEF place, content, d
<1>5. Moved(d, c, place, content)
  BY <1>1, <1>3, <1>4, ContextStorage
<1>6. Changed(a, s, place, content) /\ a.rc = 0 /\ a.undefined = s.undefined
  BY <1>3, <1>5, ChangedReturns DEF d
<1>7. QED
  BY <1>6 DEF Bound, place, content

\* spkv2_bind_input binds the input of that index, or refuses it.
LEMMA BindInputFacts ==
  ASSUME IndicesGood, NEW s \in States, s.ctx # <<>>, NEW i, NEW a, a = Model!BindInput(s, i)
  PROVE  /\ i \notin DOMAIN Ins => a = Model!Returns(s, -3)
         /\ i \in DOMAIN Ins => Bound(a, s, Ins[i], "fresh")
<1>1. s.ctx[1].graph = Source.graph
  BY StateFields, ContextFields
<1>2. CASE i \notin DOMAIN Ins
  BY <1>1, <1>2, Zenon DEF Model!BindInput, Model!HasInput, Ins
<1>3. CASE i \in DOMAIN Ins
  <2>1. a = Model!Returns(Model!With(s, [s.ctx[1] EXCEPT !.place[Ins[i]] = "host",
                                                         !.content[Ins[i]] = "fresh"]), 0)
    BY <1>1, <1>3, Zenon DEF Model!BindInput, Model!HasInput, Model!InputTensor, Ins
  <2>2. Ins[i] \in 1..N /\ "fresh" \in Contents
    BY <1>3 DEF IndicesGood, Contents
  <2>3. QED
    BY <2>1, <2>2, <1>3, BoundFacts
<1>4. QED
  BY <1>2, <1>3

\* spkv2_bind_output binds the output of that index, or refuses it.
LEMMA BindOutputFacts ==
  ASSUME IndicesGood, NEW s \in States, s.ctx # <<>>, NEW i, NEW a, a = Model!BindOutput(s, i)
  PROVE  /\ i \notin DOMAIN Outs => a = Model!Returns(s, -3)
         /\ i \in DOMAIN Outs => Bound(a, s, Outs[i], "none")
<1>1. s.ctx[1].read = Found
  BY StateFields, ContextFields
<1>2. CASE i \notin DOMAIN Outs
  BY <1>1, <1>2, Zenon DEF Model!BindOutput, Model!HasOutput, Outs
<1>3. CASE i \in DOMAIN Outs
  <2>1. a = Model!Returns(Model!With(s, [s.ctx[1] EXCEPT !.place[Outs[i]] = "host",
                                                         !.content[Outs[i]] = "none"]), 0)
    BY <1>1, <1>3, Zenon DEF Model!BindOutput, Model!HasOutput, Model!OutputTensor, Outs
  <2>2. Outs[i] \in 1..N /\ "none" \in Contents
    BY <1>3 DEF IndicesGood, Contents
  <2>3. QED
    BY <2>1, <2>2, <1>3, BoundFacts
<1>4. QED
  BY <1>2, <1>3

\* spkv2_get_output changes at most the result; only a dangling output is undefined.
LEMMA GetOutputFacts ==
  ASSUME NEW s \in States, s.ctx # <<>>, NEW i, NEW a, a = Model!GetOutput(s, i)
  PROVE  /\ a \in States /\ a.ctx = s.ctx /\ a.ready = s.ready /\ Balance(a, s)
         /\ (i \in DOMAIN Outs => ~Dangling(s, Outs[i])) => a.undefined = s.undefined
<1> DEFINE b == Model!Access(s, Outs[i])
<1>1. s.ctx[1].read = Found
  BY StateFields, ContextFields
<1>2. \/ i \notin DOMAIN Outs /\ a = Model!Returns(s, -3)
      \/ i \in DOMAIN Outs /\ a = Model!Returns(b, 0)
  BY <1>1, Zenon DEF Model!GetOutput, Model!HasOutput, Model!OutputTensor, Outs
<1>3. b = s \/ (b = Model!Undefined(s) /\ Dangling(s, Outs[i]))
  BY Zenon DEF Model!Access, Dangling
<1>4. /\ b \in States /\ b.ctx = s.ctx /\ b.ready = s.ready /\ Balance(b, s)
      /\ ~Dangling(s, Outs[i]) => b.undefined = s.undefined
  BY <1>3, UndefinedFacts DEF Balance
<1> HIDE DEF b
<1>5. CASE i \notin DOMAIN Outs /\ a = Model!Returns(s, -3)
  BY <1>5, ReturnsFacts
<1>6. CASE i \in DOMAIN Outs /\ a = Model!Returns(b, 0)
  <2>1. /\ a \in States /\ a.ctx = b.ctx /\ a.ready = b.ready /\ Balance(a, b)
        /\ a.undefined = b.undefined
    BY <1>4, <1>6, ReturnsFacts
  <2>2. Balance(a, s)
    BY <2>1, <1>4, BalanceChain
  <2>3. QED
    BY <2>1, <2>2, <1>4, <1>6
<1>7. QED
  BY <1>2, <1>5, <1>6

-----------------------------------------------------------------------------
(* Running the nodes.                                                      *)
Role(t) == Source.graph.tensors[t].role
HasPacked == \E t \in 1..N : Model!IsWeight(Source.graph, t)

\* Every input is what the host supplied, and so are the weights.
Good(c) == /\ \A t \in 1..N : Role(t) = "INPUT" => c.content[t] = "fresh"
           /\ c.weights = "stored"

Computed(c) ==
    [t \in 1..N |-> CASE Role(t) = "OUTPUT" -> IF Good(c) THEN "right" ELSE "wrong"
                      [] Role(t) = "INPUT" /\ c.place[t] = "arena" -> "spent"
                      [] OTHER -> c.content[t]]

\* A packed weight is one that the graph has.
PackedInv(s) == s.ctx # <<>> /\ s.ctx[1].packed => HasPacked

Executed(a, s) ==
    /\ a \in States /\ a.ctx # <<>> /\ a.rc = 0
    /\ a.ready = s.ready /\ a.undefined = s.undefined
    /\ a.ctx[1].place = s.ctx[1].place /\ a.ctx[1].content = Computed(s.ctx[1])
    /\ a.ctx[1].ownsArena = s.ctx[1].ownsArena /\ a.ctx[1].ownsScratch = s.ctx[1].ownsScratch
    /\ PackedInv(a)
    /\ PackedInv(s) => Balance(a, s)

\* What is owned before and after the cache of packed weights is filled.
LEMMA OwnPacks ==
  ASSUME NEW s, s.ctx # <<>>, NEW a, a.ctx # <<>>, a.ready = s.ready,
         NEW v \in BOOLEAN, Packs(a.ctx[1], s.ctx[1], v) \/
           (/\ a.ctx[1].packed = v
            /\ a.ctx[1].dtors = s.ctx[1].dtors /\ a.ctx[1].ownsModel = s.ctx[1].ownsModel
            /\ a.ctx[1].ownsArena = s.ctx[1].ownsArena
            /\ a.ctx[1].ownsScratch = s.ctx[1].ownsScratch)
  PROVE  /\ v => Own(a) = Own(s) \cup {"packed"}
         /\ ~v /\ ~s.ctx[1].packed => Own(a) = Own(s)
         /\ s.ctx[1].packed <=> "packed" \in Own(s)
<1>1. "packed" \notin Model!LoadBlocks
  BY DEF Model!LoadBlocks
<1>2. /\ a.ctx[1].packed = v
      /\ a.ctx[1].dtors = s.ctx[1].dtors /\ a.ctx[1].ownsModel = s.ctx[1].ownsModel
      /\ a.ctx[1].ownsArena = s.ctx[1].ownsArena
      /\ a.ctx[1].ownsScratch = s.ctx[1].ownsScratch
  BY DEF Packs
<1>3. CASE way \in Model!InlineWays
  BY <1>2, <1>3 DEF Own
<1>4. CASE way \notin Model!InlineWays
  <2>1. Own(a) = Model!Owned(a.ctx[1]) /\ Own(s) = Model!Owned(s.ctx[1])
    BY <1>4 DEF Own
  <2>2. /\ v => Model!Owned(a.ctx[1]) = Model!Owned(s.ctx[1]) \cup {"packed"}
        /\ ~v /\ ~s.ctx[1].packed => Model!Owned(a.ctx[1]) = Model!Owned(s.ctx[1])
    BY <1>2 DEF Model!Owned
  <2>3. s.ctx[1].packed <=> "packed" \in Model!Owned(s.ctx[1])
    BY <1>1, OwnedFlags
  <2>4. QED
    BY <2>1, <2>2, <2>3
<1>5. QED
  BY <1>3, <1>4

\* The nodes use a dangling tensor, or compute.
LEMMA RunNodesFacts ==
  ASSUME NEW s \in States, s.ctx # <<>>, NEW a, a = Model!RunNodes(s)
  PROVE  \/ a = Model!Undefined(s) /\ \E t \in 1..N : Dangling(s, t)
         \/ Executed(a, s) /\ \A t \in 1..N : ~Dangling(s, t)
<1> DEFINE c == s.ctx[1]
           kept == IF HasPacked /\ ~c.packed THEN Model!Allocate(s, {"packed"}) ELSE s
           content == Computed(c)
           d == [c EXCEPT !.content = content, !.packed = HasPacked]
<1>1. c \in Contexts /\ c.packed \in BOOLEAN /\ HasPacked \in BOOLEAN
  BY StateFields DEF Contexts, HasPacked
<1>2. c.graph = Source.graph /\ c.place \in [1..N -> Places] /\ c.content \in [1..N -> Contents]
      /\ DOMAIN c.place = 1..N
  BY <1>1, ContextFields
<1>3. /\ (\E t \in 1..N : Dangling(s, t)) => a = Model!Undefined(s)
      /\ ~(\E t \in 1..N : Dangling(s, t)) => a = Model!Returns(Model!With(kept, d), 0)
  <2> DEFINE ids == DOMAIN c.place
             role(t) == c.graph.tensors[t].role
             good == /\ \A t \in ids : role(t) = "INPUT" => c.content[t] = "fresh"
                     /\ c.weights = "stored"
             found == [t \in ids |->
                         CASE role(t) = "OUTPUT" -> IF good THEN "right" ELSE "wrong"
                           [] role(t) = "INPUT" /\ c.place[t] = "arena" -> "spent"
                           [] OTHER -> c.content[t]]
             packs == \E t \in ids : Model!IsWeight(c.graph, t)
             heap == IF packs /\ ~c.packed THEN Model!Allocate(s, {"packed"}) ELSE s
  <2>1. a = IF \E t \in ids : c.place[t] \in {"null", "gone"} THEN Model!Undefined(s)
            ELSE Model!Returns(Model!With(heap, [c EXCEPT !.content = found, !.packed = packs]), 0)
    BY Zenon DEF Model!RunNodes
  <2>2. (\E t \in ids : c.place[t] \in {"null", "gone"}) <=> (\E t \in 1..N : Dangling(s, t))
    BY <1>2 DEF Dangling
  <2>3. packs = HasPacked
    BY <1>2 DEF HasPacked
  <2>4. good <=> Good(c)
    BY <1>2 DEF Good, Role
  <2>5. found = content
    <3>1. \A t \in ids : role(t) = Role(t)
      BY <1>2 DEF Role
    <3> HIDE DEF role, good
    <3>2. QED
      BY <1>2, <2>4, <3>1 DEF Computed
  <2>6. heap = kept
    BY <2>3
  <2> HIDE DEF found, packs, heap, content, kept
  <2>7. QED
    BY <2>1, <2>2, <2>3, <2>5, <2>6, Zenon
<1>4. content \in [1..N -> Contents]
  BY <1>2 DEF Computed, Contents
<1>5. /\ d \in Contexts /\ d.packed = HasPacked /\ d.place = c.place /\ d.content = content
      /\ d.dtors = c.dtors /\ d.ownsModel = c.ownsModel
      /\ d.ownsArena = c.ownsArena /\ d.ownsScratch = c.ownsScratch
  <2> HIDE DEF content
  <2>1. QED
    BY <1>1, <1>4 DEF Contexts, N
<1> HIDE DEF d, content
<1>6. /\ kept \in States /\ kept.ctx = s.ctx /\ kept.ready = s.ready /\ kept.undefined = s.undefined
      /\ \A own : Covered(s, own) => Covered(kept, own \cup (IF HasPacked /\ ~c.packed THEN {"packed"} ELSE {}))
      /\ \A own : Exact(s, own, Lost) /\ ("packed" \in own => c.packed) =>
                     Exact(kept, own \cup (IF HasPacked /\ ~c.packed THEN {"packed"} ELSE {}), Lost)
  <2>1. CASE HasPacked /\ ~c.packed
    <3>1. kept = Model!Allocate(s, {"packed"})
      BY <2>1
    <3> HIDE DEF kept
    <3>2. kept \in States /\ kept.ctx = s.ctx /\ kept.ready = s.ready /\ kept.undefined = s.undefined
      BY <3>1, StateAllocate
    <3>3. \A own : Covered(s, own) => Covered(kept, own \cup {"packed"})
      BY <3>1, AllocateHeap
    <3>4. \A own : Exact(s, own, Lost) /\ own \cap {"packed"} = {} => Exact(kept, own \cup {"packed"}, Lost)
      BY <3>1, AllocateHeap
    <3>5. \A own : ("packed" \in own => c.packed) => own \cap {"packed"} = {}
      BY <2>1
    <3>6. QED
      BY <2>1, <3>2, <3>3, <3>4, <3>5
  <2>2. CASE ~(HasPacked /\ ~c.packed)
    <3>1. kept = s
      BY <2>2
    <3>2. \A own : own \cup (IF HasPacked /\ ~c.packed THEN {"packed"} ELSE {}) = own
      BY <2>2
    <3>3. QED
      BY <3>1, <3>2
  <2>3. QED
    BY <2>1, <2>2
<1> HIDE DEF kept
<1>7. ASSUME \A t \in 1..N : ~Dangling(s, t)
      PROVE  Executed(a, s)
  <2>1. a = Model!Returns(Model!With(kept, d), 0)
    BY <1>3, <1>7
  <2>2. a \in States /\ a.ctx # <<>> /\ a.ctx[1] = d /\ a.rc = 0
        /\ a.heap = kept.heap /\ a.ready = s.ready /\ a.undefined = s.undefined
    BY <1>5, <1>6, <2>1, StateSucceeds
  <2>3. /\ HasPacked => Own(a) = Own(s) \cup {"packed"}
        /\ ~HasPacked /\ ~c.packed => Own(a) = Own(s)
        /\ c.packed <=> "packed" \in Own(s)
    BY <1>1, <1>5, <2>2, OwnPacks
  <2>4. ASSUME PackedInv(s)
        PROVE  Own(a) = Own(s) \cup (IF HasPacked /\ ~c.packed THEN {"packed"} ELSE {})
    <3>1. CASE HasPacked /\ ~c.packed
      BY <3>1, <2>3
    <3>2. CASE HasPacked /\ c.packed
      BY <3>2, <2>3
    <3>3. CASE ~HasPacked
      BY <3>3, <2>3, <2>4 DEF PackedInv
    <3>4. QED
      BY <3>1, <3>2, <3>3
  <2>5. ASSUME PackedInv(s)
        PROVE  Balance(a, s)
    <3>1. Covered(s, Own(s)) => Covered(kept, Own(a))
      BY <1>6, <2>4, <2>5
    <3>2. Exact(s, Own(s), Lost) => Exact(kept, Own(a), Lost)
      BY <1>6, <2>3, <2>4, <2>5
    <3>3. QED
      BY <2>2, <3>1, <3>2 DEF Balance, Covered, Exact
  <2>6. QED
    BY <1>5, <2>2, <2>5 DEF Executed, PackedInv, content
<1>8. QED
  BY <1>3, <1>7

\* spkv2_run refuses a null tensor, uses a dangling one, or computes every node.
LEMMA ExecuteFacts ==
  ASSUME NEW s \in States, s.ctx # <<>>, NEW a, a = Model!Execute(s)
  PROVE  \/ a = Model!Returns(s, -5) /\ \E t \in 1..N : Dangling(s, t)
         \/ a = Model!Undefined(s) /\ \E t \in 1..N : Dangling(s, t)
         \/ Executed(a, s) /\ \A t \in 1..N : ~Dangling(s, t)
<1>1. DOMAIN s.ctx[1].place = 1..N
  BY StateFields, ContextFields
<1>2. CASE \E t \in 1..N : Model!Unbound(s.ctx[1], t)
  <2>1. a = Model!Returns(s, -5)
    BY <1>1, <1>2 DEF Model!Execute
  <2>2. \E t \in 1..N : Dangling(s, t)
    BY <1>2 DEF Model!Unbound, Dangling
  <2>3. QED
    BY <2>1, <2>2
<1>3. CASE ~\E t \in 1..N : Model!Unbound(s.ctx[1], t)
  <2>1. a = Model!RunNodes(s)
    BY <1>1, <1>3 DEF Model!Execute
  <2>2. QED
    BY <2>1, RunNodesFacts
<1>4. QED
  BY <1>2, <1>3

\* spkv2_free gives back what the context owns, and the context.
LEMMA FreeFacts ==
  ASSUME way \notin Model!InlineWays, NEW s \in States, NEW a, a = Model!Free(s)
  PROVE  /\ a \in States /\ a.ctx = <<>> /\ a.rc = s.rc
         /\ a.ready = s.ready /\ a.undefined = s.undefined
         /\ Balance(a, s)
<1>1. CASE s.ctx = <<>>
  <2>1. a = s
    BY <1>1 DEF Model!Free
  <2>2. QED
    BY <1>1, <2>1 DEF Balance
<1>2. CASE s.ctx # <<>>
  <2> DEFINE own == Model!Owned(s.ctx[1])
             b == Model!Release(s, own)
  <2>1. a = [b EXCEPT !.ctx = <<>>]
    BY <1>2 DEF Model!Free
  <2>2. /\ b \in States /\ b.ready = s.ready /\ b.undefined = s.undefined /\ b.rc = s.rc
        /\ Covered(s, own) => Covered(b, own \ own)
        /\ Exact(s, own, Lost) => Exact(b, own \ own, Lost)
    <3> HIDE DEF own
    <3>1. QED
      BY StateRelease, ReleaseHeap
  <2> HIDE DEF b
  <2>3. a \in States /\ a.ctx = <<>> /\ a.rc = s.rc
        /\ a.ready = s.ready /\ a.undefined = s.undefined /\ a.heap = b.heap
    BY <2>1, <2>2, StateNoContext
  <2>4. Own(s) = own /\ Own(a) = own \ own
    BY <1>2, <2>3 DEF Own
  <2> HIDE DEF own
  <2>5. Balance(a, s)
    BY <2>2, <2>3, <2>4 DEF Balance, Covered, Exact
  <2>6. QED
    BY <2>3, <2>5
<1>3. QED
  BY <1>1, <1>2

-----------------------------------------------------------------------------
(* Loading a package.                                                      *)
LEMMA LoadErrorRange ==
  ASSUME NEW p
  PROVE  Model!LoadError(p) \in -6..0
<1>1. Model!LoadError(p) \in {-1, -2, -3, -4, -5, -6, 0}
  BY Zenon DEF Model!LoadError
<1>2. QED
  BY <1>1

\* A context as spkv2_load_memory leaves it.
Fresh(c) == c \in Contexts /\ ~c.ownsArena /\ ~c.ownsScratch /\ ~c.packed

Loaded(a, s) ==
    /\ a \in States /\ a.rc \in -6..0
    /\ a.ready = s.ready /\ a.undefined = s.undefined
    /\ Balance(a, s)
    /\ a.rc # 0 => a.ctx = <<>>
    /\ a.rc = 0 => Model!LoadError(Source) = 0 /\ a.ctx # <<>> /\ Fresh(a.ctx[1])

\* The context that load makes owns the blocks of load and nothing more.
LEMMA FreshContext ==
  ASSUME way \notin Model!InlineWays, NEW v \in BOOLEAN
  PROVE  LET c == [Model!Context(Source) EXCEPT !.dtors = v]
         IN  /\ Fresh(c) /\ ~c.ownsModel
             /\ v => Model!Owned(c) = Model!LoadBlocks
             /\ ~v => Model!Owned(c) = Model!LoadBlocks \ {"dtors"}
<1> DEFINE c == [Model!Context(Source) EXCEPT !.dtors = v]
<1>1. Found = Model!ReadBack(Source)
  BY DEF Found
<1>2. /\ [t \in 1..N |-> "null"] \in [1..N -> Places]
      /\ [t \in 1..N |-> "none"] \in [1..N -> Contents]
  BY DEF Places, Contents
<1>3. Model!Context(Source) \in Contexts
  BY <1>1, <1>2 DEF Model!Context, Contexts, N
<1>4. /\ ~Model!Context(Source).ownsArena /\ ~Model!Context(Source).ownsScratch
      /\ ~Model!Context(Source).packed /\ ~Model!Context(Source).ownsModel
  BY DEF Model!Context
<1>5. c \in Contexts /\ ~c.ownsArena /\ ~c.ownsScratch /\ ~c.packed /\ ~c.ownsModel /\ c.dtors = v
  BY <1>3, <1>4 DEF Contexts
<1> HIDE DEF c
<1>6. /\ v => Model!Owned(c) = Model!LoadBlocks
      /\ ~v => Model!Owned(c) = Model!LoadBlocks \ {"dtors"}
  BY <1>5 DEF Model!Owned
<1>7. QED
  BY <1>5, <1>6 DEF Fresh, c

\* spkv2_load_memory makes a context of a package without error, or none.
LEMMA LoadMemoryFacts ==
  ASSUME way \notin Model!InlineWays, NEW s \in States, s.ctx = <<>>,
         NEW a, a = Model!LoadMemory(s, Source, fail)
  PROVE  Loaded(a, s) /\ (a.rc = 0 => ~a.ctx[1].ownsModel)
<1> DEFINE e == Model!LoadError(Source)
           lost == Model!Allocate(s, Model!Forgotten(fail))
           v == fail # "dtors"
           c == [Model!Context(Source) EXCEPT !.dtors = v]
           blocks == Model!LoadBlocks \ {fail}
           b == Model!Allocate(s, blocks)
<1>1. \/ e # 0 /\ a = Model!Returns(s, e)
      \/ a = Model!Returns(lost, -1)
      \/ e = 0 /\ fail \notin Model!LoadBlocks \ {"dtors"} /\ a = Model!Returns(Model!With(b, c), 0)
  BY Zenon DEF Model!LoadMemory
<1>2. Own(s) = {}
  BY DEF Own
<1>3. CASE e # 0 /\ a = Model!Returns(s, e)
  <2>1. e \in -6..0
    BY LoadErrorRange
  <2> HIDE DEF e
  <2>2. /\ a \in States /\ a.rc = e /\ a.ctx = s.ctx /\ a.ready = s.ready
        /\ a.undefined = s.undefined /\ Balance(a, s)
    <3>1. e \in -23..1 /\ a = Model!Returns(s, e)
      BY <1>3, <2>1
    <3>2. Same(a, s, e)
      BY <3>1, ReturnsSame, Zenon
    <3>3. QED
      BY <3>2 DEF Same
  <2>3. QED
    BY <1>3, <2>1, <2>2 DEF Loaded
<1>4. CASE a = Model!Returns(lost, -1)
  <2>1. /\ lost \in States /\ lost.ctx = <<>> /\ lost.ready = s.ready /\ lost.undefined = s.undefined
        /\ \A k \in Model!HeapKinds : lost.heap[k] =
              IF k \in Model!Forgotten(fail) THEN s.heap[k] + 1 ELSE s.heap[k]
    BY StateAllocate
  <2> HIDE DEF lost
  <2>2. /\ a \in States /\ a.rc = -1 /\ a.ctx = <<>> /\ a.heap = lost.heap
        /\ a.ready = s.ready /\ a.undefined = s.undefined
    BY <1>4, <2>1, ReturnsFacts
  <2>3. Own(a) = {}
    BY <2>2 DEF Own
  <2>4. Balance(a, s)
    <3>1. \A k \in Model!HeapKinds : s.heap[k] \in Int
      BY StateFields
    <3>2. QED
      BY <1>2, <2>1, <2>2, <2>3, <3>1 DEF Balance, Covered, Exact, Lost
  <2>5. QED
    BY <2>2, <2>4 DEF Loaded
<1>5. CASE /\ e = 0 /\ fail \notin Model!LoadBlocks \ {"dtors"}
           /\ a = Model!Returns(Model!With(b, c), 0)
  <2>1. Fresh(c) /\ ~c.ownsModel /\ Model!Owned(c) = blocks
    <3>1. /\ Fresh(c) /\ ~c.ownsModel
          /\ v => Model!Owned(c) = Model!LoadBlocks
          /\ ~v => Model!Owned(c) = Model!LoadBlocks \ {"dtors"}
      BY FreshContext
    <3>2. /\ v => blocks = Model!LoadBlocks
          /\ ~v => blocks = Model!LoadBlocks \ {"dtors"}
      BY <1>5
    <3>3. QED
      BY <3>1, <3>2
  <2>2. /\ b \in States /\ b.ready = s.ready /\ b.undefined = s.undefined
        /\ Covered(s, {}) => Covered(b, {} \cup blocks)
        /\ Exact(s, {}, Lost) /\ {} \cap blocks = {} => Exact(b, {} \cup blocks, Lost)
    <3> HIDE DEF blocks
    <3>1. QED
      BY StateAllocate, AllocateHeap
  <2>3. {} \cup blocks = blocks /\ {} \cap blocks = {}
    OBVIOUS
  <2> HIDE DEF b, c, blocks
  <2>4. /\ a \in States /\ a.ctx # <<>> /\ a.ctx[1] = c /\ a.rc = 0
        /\ a.heap = b.heap /\ a.ready = s.ready /\ a.undefined = s.undefined
    BY <1>5, <2>1, <2>2, StateSucceeds DEF Fresh
  <2>5. Own(a) = blocks
    BY <2>1, <2>4 DEF Own
  <2>6. Balance(a, s)
    BY <1>2, <2>2, <2>3, <2>4, <2>5 DEF Balance, Covered, Exact
  <2>7. QED
    BY <1>5, <2>1, <2>4, <2>6 DEF Loaded
<1>6. QED
  BY <1>1, <1>3, <1>4, <1>5

\* So does spkv2_load_file, whose context owns the file as well.
LEMMA LoadFileFacts ==
  ASSUME way \notin Model!InlineWays, NEW s \in States, s.ctx = <<>>,
         NEW a, a = Model!LoadFile(s, Source, fail)
  PROVE  Loaded(a, s)
<1> DEFINE b == Model!LoadMemory(s, Source, fail)
           t == Model!Allocate(b, {"model"})
           d == [b.ctx[1] EXCEPT !.ownsModel = TRUE]
<1>1. \/ a = Model!Returns(s, -1)
      \/ a = b /\ b.rc # 0
      \/ a = Model!With(t, d) /\ b.rc = 0
  BY Zenon DEF Model!LoadFile
<1>2. Loaded(b, s) /\ (b.rc = 0 => ~b.ctx[1].ownsModel)
  BY LoadMemoryFacts
<1> HIDE DEF b
<1>3. CASE a = Model!Returns(s, -1)
  BY <1>3, ReturnsFacts DEF Loaded
<1>4. CASE a = Model!With(t, d) /\ b.rc = 0
  <2>1. /\ b \in States /\ b.ctx # <<>> /\ b.ctx[1] \in Contexts /\ ~b.ctx[1].ownsModel
    BY <1>2, <1>4 DEF Loaded, Fresh
  <2>2. d \in Contexts /\ OwnsModel(d, b.ctx[1], TRUE)
    BY <2>1, ContextOwnsModel
  <2>3. Fresh(d)
    BY <1>2, <1>4, <2>2 DEF Loaded, Fresh, OwnsModel
  <2> HIDE DEF d
  <2>4. Model!Owned(d) = Model!Owned(b.ctx[1]) \cup {"model"} /\ "model" \notin Model!Owned(b.ctx[1])
    <3>1. Model!Owned(d) = Model!Owned(b.ctx[1]) \cup {"model"}
      BY <2>2, OwnedChange
    <3>2. "model" \notin Model!Owned(b.ctx[1])
      BY <2>1, OwnedFlags DEF Model!LoadBlocks
    <3>3. QED
      BY <3>1, <3>2
  <2>5. /\ t \in States /\ t.ready = b.ready /\ t.undefined = b.undefined /\ t.rc = b.rc
        /\ Covered(b, Model!Owned(b.ctx[1])) => Covered(t, Model!Owned(d))
        /\ Exact(b, Model!Owned(b.ctx[1]), Lost) => Exact(t, Model!Owned(d), Lost)
    <3>1. Model!Owned(b.ctx[1]) \cap {"model"} = {}
      BY <2>4
    <3>2. QED
      BY <2>1, <2>4, <3>1, StateAllocate, AllocateHeap
  <2> HIDE DEF t
  <2>6. /\ a \in States /\ a.ctx = <<d>> /\ a.rc = t.rc
        /\ a.heap = t.heap /\ a.ready = t.ready /\ a.undefined = t.undefined
    BY <1>4, <2>2, <2>5, StateWith
  <2>7. <<d>> # <<>> /\ <<d>>[1] = d
    OBVIOUS
  <2>8. Own(a) = Model!Owned(d) /\ Own(b) = Model!Owned(b.ctx[1])
    BY <2>1, <2>6, <2>7 DEF Own
  <2>9. Balance(a, b)
    BY <2>5, <2>6, <2>8 DEF Balance, Covered, Exact
  <2>10. Balance(a, s)
    BY <1>2, <2>9, BalanceChain DEF Loaded
  <2>11. QED
    BY <1>2, <1>4, <2>3, <2>5, <2>6, <2>7, <2>10 DEF Loaded
<1>5. QED
  BY <1>1, <1>2, <1>3, <1>4

-----------------------------------------------------------------------------
(* The wrapper: load, prepare, and the context is there or not at all.     *)
BlobStarted(a, s) ==
    /\ a \in States
    /\ a.ready = s.ready /\ a.undefined = s.undefined
    /\ Balance(a, s)
    /\ a.ctx = <<>> => a.rc # 0
    /\ a.ctx # <<>> => /\ a.rc = 0 /\ Model!LoadError(Source) = 0
                       /\ a.ctx[1].place = Stored /\ ~a.ctx[1].packed

\* A first prepare keeps the heap exact, a second one only covers what is owned.
LEMMA PreparedBalance ==
  ASSUME way \notin Model!InlineWays, NEW s \in States, s.ctx # <<>>,
         NEW arena, NEW scratch, NEW a, Prepared(a, s, arena, scratch)
  PROVE  /\ Covered(s, Own(s)) => Covered(a, Own(a))
         /\ ~s.ctx[1].ownsArena /\ ~s.ctx[1].ownsScratch => Balance(a, s)
<1>1. Own(s) = Model!Owned(s.ctx[1]) /\ Own(a) = Model!Owned(a.ctx[1])
  BY DEF Own, Prepared, Follows
<1>2. QED
  BY <1>1 DEF Prepared, Balance

\* The wrapper loads and prepares; when one of them fails nothing remains.
LEMMA LoadAndPrepareFacts ==
  ASSUME way \notin Model!InlineWays, NEW s \in States, s.ctx = <<>>,
         NEW a, a = Model!LoadAndPrepare(s, Source, fail)
  PROVE  BlobStarted(a, s)
<1> DEFINE x == Model!LoadMemory(s, Source, fail)
           y == Model!Prepare(x, "host", "host", "none")
           z == Model!Free(y)
<1>1. \/ a = x /\ x.rc # 0
      \/ a = Model!Returns(z, y.rc) /\ x.rc = 0 /\ y.rc # 0
      \/ a = y /\ x.rc = 0 /\ y.rc = 0
  BY Zenon DEF Model!LoadAndPrepare
<1>2. Loaded(x, s)
  BY LoadMemoryFacts
<1> HIDE DEF x
<1>3. CASE a = x /\ x.rc # 0
  BY <1>2, <1>3 DEF Loaded, BlobStarted
<1>4. ASSUME x.rc = 0
      PROVE  /\ Prepared(y, x, "host", "host") /\ Balance(y, s) /\ y \in States
             /\ y.ready = s.ready /\ y.undefined = s.undefined /\ ~y.ctx[1].packed
             /\ y.ctx # <<>> /\ y.rc \in -4..0 /\ Model!LoadError(Source) = 0
             /\ y.rc = 0 => y.ctx[1].place = Stored
  <2>1. x \in States /\ x.ctx # <<>>
    BY <1>2, <1>4 DEF Loaded
  <2>2. "host" \in Buffers
    BY DEF Buffers
  <2>3. Prepared(y, x, "host", "host")
    BY <2>1, <2>2, PrepareFacts
  <2> HIDE DEF y
  <2>4. Balance(y, x)
    BY <1>2, <1>4, <2>1, <2>3, PreparedBalance DEF Loaded, Fresh
  <2>5. Balance(y, s)
    BY <1>2, <2>4, BalanceChain DEF Loaded
  <2>6. QED
    BY <1>2, <1>4, <2>3, <2>5 DEF Loaded, Fresh, Prepared, Follows
<1> HIDE DEF y
<1>5. CASE a = y /\ x.rc = 0 /\ y.rc = 0
  BY <1>4, <1>5 DEF BlobStarted
<1>6. CASE a = Model!Returns(z, y.rc) /\ x.rc = 0 /\ y.rc # 0
  <2>1. y \in States /\ y.rc \in -23..1
    BY <1>4, <1>6
  <2>2. /\ z \in States /\ z.ctx = <<>> /\ z.ready = y.ready /\ z.undefined = y.undefined
        /\ Balance(z, y)
    BY <2>1, FreeFacts
  <2> HIDE DEF z
  <2>3. Same(a, z, y.rc)
    BY <1>6, <2>1, <2>2, ReturnsSame, Zenon
  <2>4. Balance(z, s)
    BY <1>4, <1>6, <2>2, BalanceChain
  <2>5. Balance(a, s)
    BY <2>3, <2>4, BalanceChain DEF Same
  <2>6. QED
    BY <1>4, <1>6, <2>2, <2>3, <2>5 DEF Same, BlobStarted
<1>7. QED
  BY <1>1, <1>3, <1>5, <1>6

\* init of the wrapper: a context that is there stays.
BlobReady(a, s) ==
    /\ a \in States /\ Balance(a, s) /\ a.undefined = s.undefined
    /\ a.ctx = <<>> => a.rc # 0
    /\ s.ctx # <<>> => a.ctx = s.ctx
    /\ s.ctx = <<>> /\ a.ctx # <<>> =>
          Model!LoadError(Source) = 0 /\ a.ctx[1].place = Stored /\ ~a.ctx[1].packed

\* The init of the wrapper leaves a context that is placed, or none.
LEMMA BlobInitFacts ==
  ASSUME way \notin Model!InlineWays, NEW s \in States,
         NEW p, p.pkg = Source, NEW a, a = Model!BlobInit(s, p, fail)
  PROVE  BlobReady(a, s)
<1>1. CASE s.ctx # <<>>
  <2>1. a = Model!Returns(s, 0)
    BY <1>1 DEF Model!BlobInit
  <2>2. QED
    BY <1>1, <2>1, ReturnsFacts DEF BlobReady
<1>2. CASE s.ctx = <<>>
  <2>1. a = Model!LoadAndPrepare(s, Source, fail)
    BY <1>2 DEF Model!BlobInit
  <2>2. BlobStarted(a, s)
    BY <1>2, <2>1, LoadAndPrepareFacts
  <2>3. QED
    BY <1>2, <2>2 DEF BlobStarted, BlobReady
<1>3. QED
  BY <1>1, <1>2

\* With external weights, init may also leave the program undefined.
LEMMA BlobExternalInitFacts ==
  ASSUME way \notin Model!InlineWays, NEW s \in States, NEW p, p.pkg = Source,
         NEW file, NEW outcome, NEW a, a = Model!BlobExternalInit(s, p, file, fail, outcome)
  PROVE  \/ BlobReady(a, s)
         \/ a = Model!Undefined(s)
<1>1. Model!FileError(file, fail) \in {-20, -21, -22, 0}
  BY Zenon DEF Model!FileError
<1>2. \/ s.ctx # <<>> /\ a = Model!Returns(s, 0)
      \/ s.ctx = <<>> /\ Model!FileError(file, fail) # 0 /\ a = Model!Returns(s, Model!FileError(file, fail))
      \/ a = Model!Undefined(s)
      \/ s.ctx = <<>> /\ a = Model!LoadAndPrepare(s, p.pkg, fail)
  BY Zenon DEF Model!BlobExternalInit, Model!Patched
<1>3. CASE s.ctx # <<>> /\ a = Model!Returns(s, 0)
  BY <1>3, ReturnsFacts DEF BlobReady
<1>4. CASE s.ctx = <<>> /\ Model!FileError(file, fail) # 0 /\ a = Model!Returns(s, Model!FileError(file, fail))
  <2>1. Model!FileError(file, fail) \in -23..1
    BY <1>1
  <2>2. Same(a, s, Model!FileError(file, fail))
    BY <1>4, <2>1, ReturnsSame, Zenon
  <2>3. QED
    BY <1>4, <2>2 DEF Same, BlobReady
<1>5. CASE s.ctx = <<>> /\ a = Model!LoadAndPrepare(s, p.pkg, fail)
  <2>1. BlobStarted(a, s)
    BY <1>5, LoadAndPrepareFacts
  <2>2. QED
    BY <1>5, <2>1 DEF BlobStarted, BlobReady
<1>6. QED
  BY <1>2, <1>3, <1>4, <1>5

-----------------------------------------------------------------------------
(* Binding the buffers of one call, and letting go of them.                *)
Fed(n) == {Ins[i] : i \in 1..n \cap DOMAIN Ins}
Given(n) == {Outs[i] : i \in 1..n \cap DOMAIN Outs}

PlaceBound(c, ins, outs) ==
    [t \in 1..N |-> IF t \in Fed(ins) \cup Given(outs) THEN "host" ELSE c.place[t]]
ContentBound(c, ins, outs) ==
    [t \in 1..N |-> IF t \in Given(outs) THEN "none" ELSE IF t \in Fed(ins) THEN "fresh" ELSE c.content[t]]

KnownBound(a, s, ins, outs) ==
    /\ Changed(a, s, PlaceBound(s.ctx[1], ins, outs), ContentBound(s.ctx[1], ins, outs))
    /\ a.undefined = s.undefined

\* The buffers given for indices that exist are bound, the others ignored.
LEMMA BindKnownFacts ==
  ASSUME NEW s \in States, s.ctx # <<>>, NEW ins, NEW outs, NEW a, a = Model!BindKnown(s, ins, outs)
  PROVE  KnownBound(a, s, ins, outs) /\ a.rc = s.rc
<1> DEFINE c == s.ctx[1]
           inputs == {Model!InputTensor(c, i) : i \in 1..ins \cap DOMAIN Model!InputsById(c.graph)}
           outputs == {Model!OutputTensor(c, i) : i \in 1..outs \cap DOMAIN c.read.outputs}
           place == [t \in DOMAIN c.place |-> IF t \in inputs \cup outputs THEN "host" ELSE c.place[t]]
           content == [t \in DOMAIN c.place |-> IF t \in outputs THEN "none"
                                                ELSE IF t \in inputs THEN "fresh" ELSE c.content[t]]
           d == [c EXCEPT !.place = place, !.content = content]
<1>1. c \in Contexts
  BY StateFields
<1>2. /\ c.graph = Source.graph /\ c.read = Found /\ DOMAIN c.place = 1..N
      /\ c.place \in [1..N -> Places] /\ c.content \in [1..N -> Contents]
  BY <1>1, ContextFields
<1>3. a = Model!With(s, d)
  BY Zenon DEF Model!BindKnown
<1>4. inputs = Fed(ins) /\ outputs = Given(outs)
  BY <1>2 DEF Fed, Given, Ins, Outs, Model!InputTensor, Model!OutputTensor
<1> HIDE DEF inputs, outputs
<1>5. place = PlaceBound(c, ins, outs) /\ content = ContentBound(c, ins, outs)
  BY <1>2, <1>4 DEF PlaceBound, ContentBound
<1>6. place \in [1..N -> Places] /\ content \in [1..N -> Contents]
  BY <1>2 DEF Places, Contents
<1> HIDE DEF place, content
<1>7. Moved(d, c, place, content)
  BY <1>1, <1>6, ContextStorage
<1> HIDE DEF d
<1>8. Changed(a, s, place, content) /\ a.rc = s.rc /\ a.undefined = s.undefined
  BY <1>3, <1>6, <1>7, ChangedWith
<1>9. QED
  BY <1>5, <1>8 DEF KnownBound

\* With another result.
LEMMA BoundReturns ==
  ASSUME NEW s \in States, s.ctx # <<>>, NEW ins, NEW outs, NEW rc \in {0, -3},
         NEW a, a = Model!Returns(Model!BindKnown(s, ins, outs), rc)
  PROVE  KnownBound(a, s, ins, outs) /\ a.rc = rc
<1> DEFINE b == Model!BindKnown(s, ins, outs)
<1>1. KnownBound(b, s, ins, outs)
  BY BindKnownFacts
<1> HIDE DEF b
<1>2. b \in States /\ rc \in -23..1
  BY <1>1 DEF KnownBound, Changed
<1>3. Same(a, b, rc)
  BY <1>2, ReturnsSame DEF b
<1>4. QED
  BY <1>1, <1>3 DEF KnownBound, Changed, Same

\* When a call returns, the tensors keep their storage, but for the buffers.
DetachedPlace(c) == [t \in 1..N |-> IF c.place[t] = "host" THEN "gone" ELSE c.place[t]]

\* After the call its buffers are gone, and with them what pointed there.
LEMMA DetachedFacts ==
  ASSUME NEW s \in States, NEW a, a = Model!Detached(s)
  PROVE  /\ s.ctx = <<>> => a = s
         /\ s.ctx # <<>> => /\ Changed(a, s, DetachedPlace(s.ctx[1]), s.ctx[1].content)
                            /\ a.rc = s.rc /\ a.undefined = s.undefined
<1> DEFINE c == s.ctx[1]
           place == [t \in DOMAIN c.place |-> IF c.place[t] = "host" THEN "gone" ELSE c.place[t]]
           d == [c EXCEPT !.place = place]
<1>1. CASE s.ctx = <<>>
  BY <1>1 DEF Model!Detached
<1>2. CASE s.ctx # <<>>
  <2>1. c \in Contexts
    BY <1>2, StateFields
  <2>2. /\ DOMAIN c.place = 1..N
        /\ c.place \in [1..N -> Places] /\ c.content \in [1..N -> Contents]
    BY <2>1, ContextFields
  <2>3. a = Model!With(s, d)
    BY <1>2, Zenon DEF Model!Detached
  <2>4. place = DetachedPlace(c) /\ place \in [1..N -> Places]
    BY <2>2 DEF DetachedPlace, Places
  <2> HIDE DEF place
  <2>5. Moved(d, c, place, c.content)
    BY <2>1, <2>4, ContextPlace
  <2> HIDE DEF d
  <2>6. Changed(a, s, place, c.content) /\ a.rc = s.rc /\ a.undefined = s.undefined
    BY <1>2, <2>2, <2>3, <2>4, <2>5, ChangedWith
  <2>7. QED
    BY <1>2, <2>4, <2>6
<1>3. QED
  BY <1>1, <1>2

-----------------------------------------------------------------------------
(* Inputs and outputs are the tensors of those roles, and there is no      *)
(* other tensor without storage.                                           *)
GraphGood ==
    /\ Len(Ins) \in Nat /\ DOMAIN Ins = 1..Len(Ins)
    /\ Len(Outs) \in Nat /\ DOMAIN Outs = 1..Len(Outs)
    /\ \A i \in DOMAIN Ins : Ins[i] \in 1..N /\ Role(Ins[i]) = "INPUT"
    /\ \A t \in 1..N : Role(t) = "INPUT" => \E i \in DOMAIN Ins : Ins[i] = t
    /\ \A i \in DOMAIN Outs : Outs[i] \in 1..N /\ Role(Outs[i]) = "OUTPUT"
    /\ \A t \in 1..N : Role(t) = "OUTPUT" => \E i \in DOMAIN Outs : Outs[i] = t
    /\ \A t \in 1..N : Source.graph.tensors[t].class = "EXTERNAL" => Role(t) \in {"INPUT", "OUTPUT"}

\* Everything else has its storage.
Placement(s) ==
    \A t \in 1..N : Role(t) \notin {"INPUT", "OUTPUT"} => s.ctx[1].place[t] \in {"weights", "arena"}

AllBound(s) ==
    /\ Placement(s)
    /\ \A t \in 1..N : Role(t) \in {"INPUT", "OUTPUT"} => s.ctx[1].place[t] = "host"
    /\ \A t \in 1..N : Role(t) = "INPUT" => s.ctx[1].content[t] = "fresh"

OutputsRight(s) == \A t \in 1..N : Role(t) = "OUTPUT" => s.ctx[1].content[t] = "right"

\* The storage that prepare gives reaches every tensor but inputs and outputs.
LEMMA StoredPlacement ==
  ASSUME GraphGood, NEW s, s.ctx[1].place = Stored
  PROVE  Placement(s)
BY StoredPlaces DEF GraphGood, Placement

\* The first n indices name inputs and outputs; all of them name all.
LEMMA BoundTensors ==
  ASSUME GraphGood, NEW n
  PROVE  /\ \A t \in Fed(n) : Role(t) = "INPUT"
         /\ \A t \in Given(n) : Role(t) = "OUTPUT"
         /\ n = Len(Ins) => \A t \in 1..N : Role(t) = "INPUT" => t \in Fed(n)
         /\ n = Len(Outs) => \A t \in 1..N : Role(t) = "OUTPUT" => t \in Given(n)
<1>1. \A i \in 1..n \cap DOMAIN Ins : Role(Ins[i]) = "INPUT"
  BY DEF GraphGood
<1>2. \A i \in 1..n \cap DOMAIN Outs : Role(Outs[i]) = "OUTPUT"
  BY DEF GraphGood
<1>3. /\ n = Len(Ins) => 1..n \cap DOMAIN Ins = DOMAIN Ins
      /\ n = Len(Outs) => 1..n \cap DOMAIN Outs = DOMAIN Outs
  BY DEF GraphGood
<1>4. n = Len(Ins) => \A t \in 1..N : Role(t) = "INPUT" => t \in Fed(n)
  BY <1>3, Zenon DEF GraphGood, Fed
<1>5. n = Len(Outs) => \A t \in 1..N : Role(t) = "OUTPUT" => t \in Given(n)
  BY <1>3, Zenon DEF GraphGood, Given
<1>6. QED
  BY <1>1, <1>2, <1>4, <1>5 DEF Fed, Given

\* Binding takes storage away from no other tensor.
LEMMA KnownPlacement ==
  ASSUME GraphGood, NEW s, NEW ins, NEW outs, NEW a, KnownBound(a, s, ins, outs), Placement(s)
  PROVE  Placement(a)
<1>1. \A t \in 1..N : Role(t) \notin {"INPUT", "OUTPUT"} => t \notin Fed(ins) /\ t \notin Given(outs)
  BY BoundTensors
<1>2. \A t \in 1..N : Role(t) \notin {"INPUT", "OUTPUT"} => a.ctx[1].place[t] = s.ctx[1].place[t]
  BY <1>1 DEF KnownBound, Changed, PlaceBound
<1>3. QED
  BY <1>2 DEF Placement

\* All buffers in one call: every tensor has storage, and every input is fresh.
LEMMA OneBind ==
  ASSUME GraphGood, NEW s, NEW a, KnownBound(a, s, Len(Ins), Len(Outs)), Placement(s)
  PROVE  AllBound(a)
<1>1. Placement(a)
  BY KnownPlacement
<1>2. /\ \A t \in 1..N : Role(t) = "INPUT" => t \in Fed(Len(Ins)) /\ t \notin Given(Len(Outs))
      /\ \A t \in 1..N : Role(t) = "OUTPUT" => t \in Given(Len(Outs))
  BY BoundTensors
<1>3. \A t \in 1..N : Role(t) \in {"INPUT", "OUTPUT"} => a.ctx[1].place[t] = "host"
  BY <1>2 DEF KnownBound, Changed, PlaceBound
<1>4. \A t \in 1..N : Role(t) = "INPUT" => a.ctx[1].content[t] = "fresh"
  BY <1>2 DEF KnownBound, Changed, ContentBound
<1>5. QED
  BY <1>1, <1>3, <1>4 DEF AllBound

\* So it is with the inputs bound first and the outputs after them.
LEMMA TwoBinds ==
  ASSUME GraphGood, NEW s, NEW b, NEW a, Placement(s),
         KnownBound(b, s, Len(Ins), 0), KnownBound(a, b, 0, Len(Outs))
  PROVE  AllBound(a)
<1>1. Placement(a)
  BY KnownPlacement
<1>2. /\ \A t \in 1..N : Role(t) = "INPUT" => t \in Fed(Len(Ins)) /\ t \notin Given(Len(Outs))
      /\ \A t \in 1..N : Role(t) = "OUTPUT" => t \in Given(Len(Outs))
      /\ Given(0) = {} /\ Fed(0) = {}
  <2>1. 1..0 = {}
    OBVIOUS
  <2>2. QED
    BY <2>1, BoundTensors DEF Given, Fed
<1>3. \A t \in 1..N : Role(t) = "INPUT" => b.ctx[1].place[t] = "host" /\ b.ctx[1].content[t] = "fresh"
  BY <1>2 DEF KnownBound, Changed, PlaceBound, ContentBound
<1>4. \A t \in 1..N : Role(t) = "INPUT" => a.ctx[1].place[t] = "host" /\ a.ctx[1].content[t] = "fresh"
  BY <1>2, <1>3 DEF KnownBound, Changed, PlaceBound, ContentBound
<1>5. \A t \in 1..N : Role(t) = "OUTPUT" => a.ctx[1].place[t] = "host"
  BY <1>2 DEF KnownBound, Changed, PlaceBound
<1>6. QED
  BY <1>1, <1>4, <1>5 DEF AllBound

\* A run on storage that is all there computes the outputs.
LEMMA BoundRun ==
  ASSUME NEW s \in States, s.ctx # <<>>, AllBound(s),
         NEW a, a = Model!Execute(s) \/ a = Model!RunNodes(s)
  PROVE  /\ Executed(a, s)
         /\ Source.weights = "stored" => OutputsRight(a)
<1>1. \A t \in 1..N : ~Dangling(s, t)
  BY DEF AllBound, Placement, Dangling
<1>2. Executed(a, s)
  BY <1>1, ExecuteFacts, RunNodesFacts
<1>3. s.ctx[1].weights = Source.weights
  BY StateFields, ContextFields
<1>4. Source.weights = "stored" => Good(s.ctx[1])
  BY <1>3 DEF Good, AllBound
<1>5. QED
  BY <1>2, <1>4 DEF Executed, Computed, OutputsRight

\* A run keeps all storage where it is.
LEMMA RunPlacement ==
  ASSUME NEW s, Placement(s), NEW a, Executed(a, s)
  PROVE  Placement(a)
BY DEF Executed, Placement

\* Detaching leaves alone what is not the host's.
LEMMA DetachedPlacement ==
  ASSUME NEW s, Placement(s), NEW a, NEW content, Changed(a, s, DetachedPlace(s.ctx[1]), content)
  PROVE  Placement(a)
BY DEF Placement, Changed, DetachedPlace

-----------------------------------------------------------------------------
(* The wrapper's context, and a call that runs it.                         *)
BlobInv(s) ==
    /\ s \in States /\ PackedInv(s)
    /\ s.ctx # <<>> => Placement(s) /\ Model!LoadError(Source) = 0

\* What a run leaves; with all its buffers it uses nothing else, and computes.
Ran(a, s, ins, outs) ==
    /\ Balance(a, s)
    /\ (ins = Len(Ins) /\ outs = Len(Outs)) =>
          /\ a.undefined = s.undefined
          /\ a.rc = 0 => a.ctx # <<>> /\ (Source.weights = "stored" => OutputsRight(a))

\* What the init of the wrapper leaves satisfies its invariant.
LEMMA BlobReadyInv ==
  ASSUME GraphGood, NEW s, BlobInv(s), NEW a, BlobReady(a, s)
  PROVE  BlobInv(a)
<1>1. CASE s.ctx # <<>>
  BY <1>1 DEF BlobInv, BlobReady, PackedInv, Placement
<1>2. CASE s.ctx = <<>> /\ a.ctx # <<>>
  BY <1>2, StoredPlacement DEF BlobInv, BlobReady, PackedInv
<1>3. CASE a.ctx = <<>>
  BY <1>3 DEF BlobInv, BlobReady, PackedInv
<1>4. QED
  BY <1>1, <1>2, <1>3

\* Binding keeps the invariant of the wrapper.
LEMMA KnownInv ==
  ASSUME GraphGood, NEW s, BlobInv(s), s.ctx # <<>>, NEW ins, NEW outs,
         NEW a, KnownBound(a, s, ins, outs)
  PROVE  BlobInv(a) /\ Balance(a, s) /\ a.ctx # <<>>
<1>1. Placement(a)
  BY KnownPlacement DEF BlobInv
<1>2. Balance(a, s) /\ a.ctx[1].packed = s.ctx[1].packed
  BY ChangedBalance DEF KnownBound
<1>3. QED
  BY <1>1, <1>2 DEF KnownBound, Changed, BlobInv, PackedInv

\* Running keeps the invariant of the wrapper, whatever it uses.
LEMMA RunInv ==
  ASSUME NEW s, BlobInv(s), s.ctx # <<>>, NEW a, a = Model!Execute(s)
  PROVE  BlobInv(a) /\ Balance(a, s)
<1>1. s \in States /\ PackedInv(s)
  BY DEF BlobInv
<1>2. a = Model!Returns(s, -5) \/ a = Model!Undefined(s) \/ Executed(a, s)
  BY <1>1, ExecuteFacts
<1>3. CASE a = Model!Returns(s, -5)
  <2>1. -5 \in -23..1
    OBVIOUS
  <2>2. a \in States /\ a.ctx = s.ctx /\ Balance(a, s)
    BY <1>1, <1>3, <2>1, ReturnsFacts
  <2>3. QED
    BY <1>1, <2>2 DEF BlobInv, PackedInv, Placement
<1>4. CASE a = Model!Undefined(s)
  BY <1>1, <1>4, UndefinedFacts DEF BlobInv, PackedInv, Placement
<1>5. CASE Executed(a, s)
  BY <1>1, <1>5, RunPlacement DEF BlobInv, Executed
<1>6. QED
  BY <1>2, <1>3, <1>4, <1>5

\* A run of the wrapper with all its buffers computes; with any, the heap stays good.
LEMMA BlobRunFacts ==
  ASSUME GraphGood, way \notin Model!InlineWays, NEW s, BlobInv(s), NEW p, p.pkg = Source,
         NEW ins \in Nat, NEW outs \in Nat, NEW a, a = Model!BlobRun(s, p, ins, outs, fail)
  PROVE  BlobInv(a) /\ Ran(a, s, ins, outs)
<1> DEFINE x == IF p.way = "blob" THEN Model!BlobInit(s, p, fail)
                ELSE Model!Returns(s, IF s.ctx = <<>> THEN -3 ELSE 0)
           y == Model!BindInputs(x, ins)
           z == Model!BindOutputs(y, outs)
           w == Model!Execute(z)
<1>1. a = IF x.rc # 0 THEN x ELSE IF y.rc # 0 THEN y ELSE IF z.rc # 0 THEN z ELSE w
  BY Zenon DEF Model!BlobRun
<1>2. BlobReady(x, s)
  <2>1. s \in States
    BY DEF BlobInv
  <2>2. CASE p.way = "blob"
    BY <2>1, <2>2, BlobInitFacts
  <2>3. CASE p.way # "blob" /\ s.ctx = <<>>
    <3>1. x = Model!Returns(s, -3)
      BY <2>3
    <3> HIDE DEF x
    <3>2. /\ x \in States /\ x.rc = -3 /\ x.ctx = s.ctx /\ x.undefined = s.undefined
          /\ Balance(x, s)
      BY <2>1, <3>1, ReturnsFacts
    <3>3. QED
      BY <2>3, <3>2 DEF BlobReady
  <2>4. CASE p.way # "blob" /\ s.ctx # <<>>
    <3>1. x = Model!Returns(s, 0)
      BY <2>4
    <3> HIDE DEF x
    <3>2. 0 \in -23..1
      OBVIOUS
    <3>3. Same(Model!Returns(s, 0), s, 0)
      BY <2>1, <3>2, ReturnsSame, Zenon
    <3>4. QED
      BY <2>4, <3>1, <3>3 DEF BlobReady, Same
  <2>5. QED
    BY <2>2, <2>3, <2>4
<1>3. BlobInv(x) /\ Balance(x, s) /\ x.undefined = s.undefined
  BY <1>2, BlobReadyInv DEF BlobReady
<1> HIDE DEF x
<1>4. CASE x.rc # 0
  BY <1>1, <1>3, <1>4 DEF Ran
<1>5. ASSUME x.rc = 0
      PROVE  /\ BlobInv(y) /\ Balance(y, s) /\ y.ctx # <<>>
             /\ KnownBound(y, x, ins, 0) /\ x.ctx # <<>> /\ x \in States
             /\ ins = Len(Ins) => y.rc = 0
  <2>1. x \in States /\ x.ctx # <<>>
    BY <1>2, <1>5 DEF BlobReady
  <2>2. x.ctx[1].graph = Source.graph
    BY <2>1, StateFields, ContextFields
  <2>3. PICK rc \in {0, -3} : /\ y = Model!Returns(Model!BindKnown(x, ins, 0), rc)
                              /\ ins \in DOMAIN Ins \/ ins = 0 => rc = 0
    BY <2>2 DEF Model!BindInputs, Model!HasInput, Ins
  <2>4. KnownBound(y, x, ins, 0) /\ y.rc = rc
    BY <2>1, <2>3, BoundReturns
  <2>5. ins = Len(Ins) => ins \in DOMAIN Ins \/ ins = 0
    BY DEF GraphGood
  <2>6. BlobInv(y) /\ Balance(y, x) /\ y.ctx # <<>>
    BY <1>3, <2>1, <2>4, KnownInv
  <2>7. QED
    BY <1>3, <2>1, <2>3, <2>4, <2>5, <2>6, BalanceChain
<1> HIDE DEF y
<1>6. CASE x.rc = 0 /\ y.rc # 0
  BY <1>1, <1>3, <1>5, <1>6 DEF Ran, KnownBound
<1>7. ASSUME x.rc = 0, y.rc = 0
      PROVE  /\ BlobInv(z) /\ Balance(z, s) /\ z.ctx # <<>>
             /\ KnownBound(z, y, 0, outs) /\ z \in States /\ z.undefined = s.undefined
             /\ outs = Len(Outs) => z.rc = 0
  <2>1. y \in States /\ y.ctx # <<>>
    BY <1>5, <1>7 DEF BlobInv
  <2>2. y.ctx[1].read = Found
    BY <2>1, StateFields, ContextFields
  <2>3. PICK rc \in {0, -3} : /\ z = Model!Returns(Model!BindKnown(y, 0, outs), rc)
                              /\ outs \in DOMAIN Outs \/ outs = 0 => rc = 0
    BY <2>2 DEF Model!BindOutputs, Model!HasOutput, Outs
  <2>4. KnownBound(z, y, 0, outs) /\ z.rc = rc
    BY <2>1, <2>3, BoundReturns
  <2>5. outs = Len(Outs) => outs \in DOMAIN Outs \/ outs = 0
    BY DEF GraphGood
  <2>6. BlobInv(z) /\ Balance(z, y) /\ z.ctx # <<>>
    BY <1>5, <1>7, <2>1, <2>4, KnownInv
  <2>7. z.undefined = s.undefined
    BY <1>3, <1>5, <1>7, <2>4 DEF KnownBound
  <2>8. QED
    BY <1>5, <1>7, <2>3, <2>4, <2>5, <2>6, <2>7, BalanceChain DEF BlobInv
<1> HIDE DEF z
<1>8. CASE x.rc = 0 /\ y.rc = 0 /\ z.rc # 0
  BY <1>1, <1>7, <1>8 DEF Ran
<1>9. CASE x.rc = 0 /\ y.rc = 0 /\ z.rc = 0
  <2>1. a = w
    BY <1>1, <1>9
  <2> HIDE DEF w
  <2>2. BlobInv(w) /\ Balance(w, z)
    BY <1>7, <1>9, RunInv DEF w
  <2>3. Balance(w, s)
    BY <1>7, <1>9, <2>2, BalanceChain
  <2>4. ASSUME ins = Len(Ins), outs = Len(Outs)
        PROVE  /\ w.undefined = s.undefined
               /\ w.ctx # <<>> /\ (Source.weights = "stored" => OutputsRight(w))
    <3>1. Placement(x)
      BY <1>3, <1>5, <1>9 DEF BlobInv
    <3>2. AllBound(z)
      BY <1>5, <1>7, <1>9, <2>4, <3>1, TwoBinds
    <3>3. Executed(w, z) /\ (Source.weights = "stored" => OutputsRight(w))
      BY <1>7, <1>9, <3>2, BoundRun DEF w
    <3>4. QED
      BY <1>7, <1>9, <3>3 DEF Executed
  <2>5. QED
    BY <2>1, <2>2, <2>3, <2>4 DEF Ran
<1>10. QED
  BY <1>4, <1>6, <1>8, <1>9

-----------------------------------------------------------------------------
(* The inline program: its statics are always there, their storage only    *)
(* when it is ready; a packed weight needs a run, and so a ready program.  *)
InlineInv(s) ==
    /\ s \in States /\ s.ctx # <<>> /\ PackedInv(s)
    /\ s.ready => Placement(s)

PackedReady(s) == ~s.ready => ~s.ctx[1].packed

InlineReady(a, s) ==
    /\ InlineInv(a) /\ Balance(a, s)
    /\ a.undefined = s.undefined
    /\ a.rc = 0 => a.ready
    /\ way = "inline" => a.rc = 0
    /\ PackedReady(s) => PackedReady(a)

\* The init of the inline program makes it ready, unless its weights file fails.
LEMMA InlineInitFacts ==
  ASSUME GraphGood, way \in Model!InlineWays, NEW s, InlineInv(s),
         NEW p, p.pkg = Source, p.way = way,
         NEW file, NEW f, NEW a, a = Model!InlineInit(s, p, file, f)
  PROVE  InlineReady(a, s)
<1> DEFINE external == way = "inlineExternal"
           e == Model!FileError(file, f)
           c == s.ctx[1]
           read == IF external THEN Model!Allocate(s, {"weights"}) ELSE s
           placed == [c EXCEPT !.place = Stored]
           u == Model!With(read, placed)
           v == [u EXCEPT !.ready = TRUE]
<1>1. s \in States /\ s.ctx # <<>> /\ c \in Contexts /\ PackedInv(s)
  BY StateFields DEF InlineInv
<1>2. c.place \in [1..N -> Places] /\ c.content \in [1..N -> Contents] /\ DOMAIN c.place = 1..N
  BY <1>1, ContextFields
<1>3. e \in {-20, -21, -22, 0}
  BY Zenon DEF Model!FileError
<1>4. \/ s.ready /\ a = Model!Returns(s, 0)
      \/ external /\ e # 0 /\ a = Model!Returns(s, e)
      \/ ~s.ready /\ a = Model!Returns(v, 0)
  <2> DEFINE g2 == p.pkg.graph
             place == [t \in DOMAIN c.place |-> Model!Storage(g2, t)]
             heap == IF p.way = "inlineExternal" THEN Model!Allocate(s, {"weights"}) ELSE s
  <2>1. \/ s.ready /\ a = Model!Returns(s, 0)
        \/ p.way = "inlineExternal" /\ e # 0 /\ a = Model!Returns(s, e)
        \/ ~s.ready /\ a = Model!Returns([Model!With(heap, [c EXCEPT !.place = place]) EXCEPT !.ready = TRUE], 0)
    BY Zenon DEF Model!InlineInit
  <2>2. place = Stored
    BY <1>2 DEF Stored
  <2>3. heap = read
    OBVIOUS
  <2> HIDE DEF place, heap, read, e
  <2>4. QED
    BY <2>1, <2>2, <2>3
<1>5. CASE s.ready /\ a = Model!Returns(s, 0)
  <2>1. /\ a \in States /\ a.rc = 0 /\ a.ctx = s.ctx /\ a.ready = s.ready
        /\ a.undefined = s.undefined /\ Balance(a, s)
    <3>1. 0 \in -23..1 /\ s \in States
      BY <1>1
    <3>2. Same(a, s, 0)
      BY <1>5, <3>1, ReturnsSame
    <3>3. QED
      BY <3>2 DEF Same
  <2>2. QED
    BY <1>1, <1>5, <2>1 DEF InlineReady, InlineInv, PackedInv, PackedReady, Placement
<1>6. CASE external /\ e # 0 /\ a = Model!Returns(s, e)
  <2>1. e \in -23..1
    BY <1>3
  <2> HIDE DEF e
  <2>2. Same(a, s, e)
    BY <1>1, <1>6, <2>1, ReturnsSame, Zenon
  <2>3. a.rc # 0 /\ way # "inline"
    BY <1>6, <2>2 DEF Same
  <2>4. QED
    BY <1>1, <2>2, <2>3 DEF Same, InlineReady, InlineInv, PackedInv, PackedReady, Placement
<1>7. CASE ~s.ready /\ a = Model!Returns(v, 0)
  <2>1. Moved(placed, c, Stored, c.content)
    BY <1>1, StoredPlaces, ContextPlace
  <2> HIDE DEF placed
  <2>2. /\ read \in States /\ read.undefined = s.undefined
        /\ external => \A own : Covered(s, own) => Covered(read, own \cup {"weights"})
        /\ external => \A own : Exact(s, own, Lost) /\ own \cap {"weights"} = {} => Exact(read, own \cup {"weights"}, Lost)
        /\ ~external => read = s
    <3>1. CASE external
      <4>1. read = Model!Allocate(s, {"weights"})
        BY <3>1
      <4> HIDE DEF read
      <4>2. read \in States /\ read.undefined = s.undefined
        BY <1>1, <4>1, StateAllocate
      <4>3. /\ \A own : Covered(s, own) => Covered(read, own \cup {"weights"})
            /\ \A own : Exact(s, own, Lost) /\ own \cap {"weights"} = {} => Exact(read, own \cup {"weights"}, Lost)
        BY <1>1, <4>1, AllocateHeap
      <4>4. QED
        BY <3>1, <4>2, <4>3
    <3>2. CASE ~external
      BY <1>1, <3>2
    <3>3. QED
      BY <3>1, <3>2
  <2> HIDE DEF read
  <2>3. /\ u \in States /\ u.ctx = <<placed>> /\ u.heap = read.heap /\ u.undefined = s.undefined
    BY <2>1, <2>2, StateWith DEF Moved
  <2> HIDE DEF u
  <2>4. /\ v \in States /\ v.ctx = <<placed>> /\ v.heap = read.heap /\ v.undefined = s.undefined
        /\ v.ready = TRUE
    BY <2>3, StateReady
  <2> HIDE DEF v
  <2>5. /\ a \in States /\ a.ctx = <<placed>> /\ a.heap = read.heap /\ a.undefined = s.undefined
        /\ a.ready /\ a.rc = 0
    BY <1>7, <2>4, ReturnsFacts
  <2>6. a.ctx # <<>> /\ a.ctx[1] = placed
    <3>1. <<placed>> # <<>> /\ <<placed>>[1] = placed
      OBVIOUS
    <3>2. QED
      BY <2>5, <3>1, Zenon
  <2>7. placed.packed = c.packed /\ placed.place = Stored
    BY <2>1 DEF Moved, SameOwner
  <2>8. /\ external => Own(a) = Own(s) \cup {"weights"} /\ Own(s) \cap {"weights"} = {}
        /\ ~external => Own(a) = Own(s)
    <3>1. /\ Own(s) = IF c.packed THEN {"packed"} ELSE {}
          /\ Own(a) = (IF c.packed THEN {"packed"} ELSE {}) \cup (IF external THEN {"weights"} ELSE {})
      BY <1>1, <1>7, <2>5, <2>6, <2>7 DEF Own
    <3>2. QED
      BY <3>1
  <2>9. Balance(a, s)
    <3>1. CASE external
      <4>1. Covered(s, Own(s)) => Covered(read, Own(a))
        BY <2>2, <2>8, <3>1
      <4>2. Exact(s, Own(s), Lost) => Exact(read, Own(a), Lost)
        BY <2>2, <2>8, <3>1
      <4>3. QED
        BY <2>5, <4>1, <4>2 DEF Balance, Covered, Exact
    <3>2. CASE ~external
      BY <2>2, <2>5, <2>8, <3>2 DEF Balance, Covered, Exact
    <3>3. QED
      BY <3>1, <3>2
  <2>10. Placement(a) /\ PackedInv(a)
    BY <1>1, <2>6, <2>7, StoredPlacement DEF PackedInv
  <2>11. QED
    BY <1>7, <2>5, <2>6, <2>9, <2>10 DEF InlineReady, InlineInv, PackedReady
<1>8. QED
  BY <1>4, <1>5, <1>6, <1>7

\* Running the inline program from a state with its storage.
LEMMA InlineExecute ==
  ASSUME GraphGood, NEW s, InlineInv(s), NEW ins, NEW outs,
         NEW a, a = Model!RunNodes(Model!BindKnown(s, ins, outs))
  PROVE  /\ InlineInv(a) /\ Balance(a, s) /\ a.ready = s.ready
         /\ s.ready => Ran(a, s, ins, outs)
<1> DEFINE b == Model!BindKnown(s, ins, outs)
<1>1. s \in States /\ s.ctx # <<>> /\ PackedInv(s) /\ (s.ready => Placement(s))
  BY DEF InlineInv
<1>2. KnownBound(b, s, ins, outs)
  BY <1>1, BindKnownFacts
<1> HIDE DEF b
<1>3. /\ b \in States /\ b.ctx # <<>> /\ b.ready = s.ready /\ b.undefined = s.undefined
      /\ Balance(b, s) /\ PackedInv(b)
      /\ s.ready => Placement(b)
  <2>1. Balance(b, s) /\ b.ctx[1].packed = s.ctx[1].packed
    BY <1>1, <1>2, ChangedBalance DEF KnownBound
  <2>2. s.ready => Placement(b)
    BY <1>1, <1>2, KnownPlacement
  <2>3. QED
    BY <1>1, <1>2, <2>1, <2>2 DEF KnownBound, Changed, PackedInv
<1>4. a = Model!RunNodes(b)
  BY DEF b
<1>5. a = Model!Undefined(b) \/ Executed(a, b)
  BY <1>3, <1>4, RunNodesFacts
<1>6. /\ a \in States /\ a.ctx # <<>> /\ PackedInv(a) /\ Balance(a, b) /\ a.ready = s.ready
      /\ s.ready => Placement(a)
  <2>1. CASE a = Model!Undefined(b)
    BY <1>3, <2>1, UndefinedFacts DEF PackedInv, Placement
  <2>2. CASE Executed(a, b)
    BY <1>3, <2>2, RunPlacement DEF Executed
  <2>3. QED
    BY <1>5, <2>1, <2>2
<1>7. Balance(a, s)
  BY <1>3, <1>6, BalanceChain
<1>8. ASSUME s.ready, ins = Len(Ins), outs = Len(Outs)
      PROVE  /\ a.undefined = s.undefined
             /\ a.ctx # <<>> /\ (Source.weights = "stored" => OutputsRight(a))
  <2>1. AllBound(b)
    BY <1>1, <1>2, <1>8, OneBind
  <2>2. Executed(a, b) /\ (Source.weights = "stored" => OutputsRight(a))
    BY <1>3, <1>4, <2>1, BoundRun
  <2>3. QED
    BY <1>3, <2>2 DEF Executed
<1>9. QED
  BY <1>6, <1>7, <1>8 DEF InlineInv, Ran

\* model_run of the inline program, which initialises it when that was not done.
LEMMA InlineRunFacts ==
  ASSUME GraphGood, way \in Model!InlineWays, NEW s, InlineInv(s),
         NEW p, p.pkg = Source, p.way = way, NEW a, a = Model!InlineRun(s, p)
  PROVE  /\ InlineInv(a) /\ Ran(a, s, 1, 1)
         /\ way = "inline" => a.ready
         /\ PackedReady(s) => PackedReady(a)
<1> DEFINE x == IF way = "inline" THEN Model!InlineInit(s, p, "right", "none")
                ELSE Model!Returns(s, IF s.ready THEN 0 ELSE -3)
           y == Model!RunNodes(Model!BindKnown(x, 1, 1))
<1>1. a = IF x.rc # 0 THEN x ELSE y
  BY DEF Model!InlineRun
<1>2. InlineReady(x, s)
  <2>1. CASE way = "inline"
    BY <2>1, InlineInitFacts
  <2>2. CASE way # "inline"
    <3> DEFINE rc == IF s.ready THEN 0 ELSE -3
    <3>1. s \in States /\ s.ctx # <<>> /\ PackedInv(s) /\ rc \in -23..1
      BY DEF InlineInv
    <3>2. x = Model!Returns(s, rc) /\ (rc = 0 => s.ready)
      BY <2>2
    <3> HIDE DEF rc
    <3>3. Same(x, s, rc)
      BY <3>1, <3>2, ReturnsSame, Zenon
    <3> HIDE DEF x
    <3>4. InlineInv(x) /\ (PackedReady(s) => PackedReady(x))
      BY <3>1, <3>3 DEF Same, InlineInv, PackedInv, Placement, PackedReady
    <3>5. QED
      BY <2>2, <3>2, <3>3, <3>4 DEF Same, InlineReady
  <2>3. QED
    BY <2>1, <2>2
<1> HIDE DEF x
<1>3. CASE x.rc # 0
  <2>1. a = x /\ way # "inline"
    BY <1>1, <1>2, <1>3 DEF InlineReady
  <2>2. QED
    BY <1>2, <1>3, <2>1 DEF InlineReady, Ran
<1>4. CASE x.rc = 0
  <2>1. a = y /\ x.ready /\ InlineInv(x)
    BY <1>1, <1>2, <1>4 DEF InlineReady
  <2>2. InlineInv(y) /\ Balance(y, x) /\ y.ready = x.ready /\ Ran(y, x, 1, 1)
    BY <2>1, InlineExecute
  <2> HIDE DEF y
  <2>3. Balance(y, s)
    BY <1>2, <2>2, BalanceChain DEF InlineReady
  <2>4. QED
    BY <1>2, <2>1, <2>2, <2>3 DEF InlineReady, Ran, PackedReady
<1>5. QED
  BY <1>3, <1>4

\* model_run_multi of the inline program, which needs an init of its own.
LEMMA InlineRunMultiFacts ==
  ASSUME GraphGood, way \in Model!InlineWays, NEW s, InlineInv(s),
         NEW p, p.pkg = Source, p.way = way, NEW ins, NEW outs,
         NEW a, a = Model!InlineRunMulti(s, p, ins, outs)
  PROVE  /\ InlineInv(a) /\ a.ready = s.ready
         /\ Balance(a, s)
         /\ (way = "inline" => s.ready) =>
               Ran(a, s, ins, outs) /\ (PackedReady(s) => PackedReady(a))
<1>1. CASE way = "inlineExternal" /\ ~s.ready
  <2>1. a = Model!Returns(s, -3)
    BY <1>1 DEF Model!InlineRunMulti
  <2>2. s \in States /\ s.ctx # <<>> /\ PackedInv(s) /\ -3 \in -23..1 /\ -3 # 0
    BY DEF InlineInv
  <2>3. Same(a, s, -3)
    BY <2>1, <2>2, ReturnsSame
  <2>4. a.rc # 0 /\ InlineInv(a) /\ (PackedReady(s) => PackedReady(a))
    BY <1>1, <2>2, <2>3 DEF Same, InlineInv, PackedInv, PackedReady
  <2>5. QED
    BY <1>1, <2>3, <2>4 DEF Same, Ran
<1>2. CASE ~(way = "inlineExternal" /\ ~s.ready)
  <2> DEFINE y == Model!RunNodes(Model!BindKnown(s, ins, outs))
  <2>1. a = y
    BY <1>2 DEF Model!InlineRunMulti
  <2>2. /\ InlineInv(y) /\ Balance(y, s) /\ y.ready = s.ready
        /\ s.ready => Ran(y, s, ins, outs)
    BY InlineExecute
  <2> HIDE DEF y
  <2>3. s.ready => (PackedReady(s) => PackedReady(y))
    BY <2>2 DEF PackedReady
  <2>4. way # "inline" => s.ready
    BY <1>2 DEF Model!InlineWays
  <2>5. QED
    BY <2>1, <2>2, <2>3, <2>4
<1>3. QED
  BY <1>1, <1>2

\* The free of the inline program gives back the weights and what was packed.
LEMMA InlineFreeFacts ==
  ASSUME way \in Model!InlineWays, NEW s, InlineInv(s),
         NEW p, p.pkg = Source, p.way = way, NEW a, a = Model!InlineFree(s, p)
  PROVE  /\ InlineInv(a) /\ Balance(a, s) /\ ~a.ready /\ a.undefined = s.undefined
         /\ PackedReady(s) => PackedReady(a)
<1>1. CASE ~s.ready
  <2>1. a = s
    BY <1>1 DEF Model!InlineFree
  <2>2. QED
    BY <1>1, <2>1 DEF Balance
<1>2. CASE s.ready
  <2> DEFINE c == s.ctx[1]
             freed == (IF c.packed THEN {"packed"} ELSE {})
                        \cup (IF way = "inlineExternal" THEN {"weights"} ELSE {})
             b == Model!Release(s, freed)
             d == [c EXCEPT !.packed = FALSE]
             u == Model!With(b, d)
  <2>1. a = [u EXCEPT !.ready = FALSE]
    BY <1>2 DEF Model!InlineFree
  <2>2. s \in States /\ s.ctx # <<>> /\ c \in Contexts
    BY StateFields DEF InlineInv
  <2>3. d \in Contexts /\ Packs(d, c, FALSE)
    BY <2>2, ContextPacks
  <2> HIDE DEF d
  <2>4. Own(s) = freed
    BY <1>2, <2>2 DEF Own
  <2> HIDE DEF freed
  <2>5. /\ b \in States /\ b.undefined = s.undefined
        /\ Covered(s, freed) => Covered(b, freed \ freed)
        /\ Exact(s, freed, Lost) => Exact(b, freed \ freed, Lost)
    BY <2>2, StateRelease, ReleaseHeap
  <2> HIDE DEF b
  <2>6. u \in States /\ u.ctx = <<d>> /\ u.heap = b.heap /\ u.undefined = s.undefined
    BY <2>3, <2>5, StateWith
  <2> HIDE DEF u
  <2>7. a \in States /\ a.ctx = <<d>> /\ a.heap = b.heap /\ a.undefined = s.undefined /\ a.ready = FALSE
    BY <2>1, <2>6, StateReady
  <2>8. a.ctx # <<>> /\ a.ctx[1] = d /\ ~d.packed
    <3>1. <<d>> # <<>> /\ <<d>>[1] = d
      OBVIOUS
    <3>2. QED
      BY <2>3, <2>7, <3>1, Zenon DEF Packs
  <2>9. Own(a) = freed \ freed
    BY <2>7, <2>8 DEF Own
  <2>10. Balance(a, s)
    BY <2>4, <2>5, <2>7, <2>9 DEF Balance, Covered, Exact
  <2>11. QED
    BY <2>7, <2>8, <2>10 DEF InlineInv, PackedInv, PackedReady
<1>3. QED
  BY <1>1, <1>2

-----------------------------------------------------------------------------
(* main_test.c, one run between init and free.                             *)
LEMMA MainTestBlob ==
  ASSUME GraphGood, way \notin Model!InlineWays, NEW s, BlobInv(s),
         NEW p, p.pkg = Source, p.way \in Model!BlobWays, NEW a, a = Model!MainTest(s, p, fail)
  PROVE  /\ BlobInv(a) /\ Balance(a, s)
         /\ Len(Ins) = 1 /\ Len(Outs) = 1 => a.undefined = s.undefined
<1> DEFINE x == Model!BlobRun(s, p, 1, 1, fail)
           y == Model!Free(x)
<1>1. \/ a = Model!Returns(s, 1)
      \/ a = x
      \/ a = Model!Returns(x, 1)
      \/ a = Model!Returns(y, 0)
  BY DEF Model!MainTest, Model!ModelRun, Model!ModelFree, Model!BlobWays
<1>2. BlobInv(x) /\ Ran(x, s, 1, 1)
  <2>1. 1 \in Nat
    OBVIOUS
  <2>2. QED
    BY <2>1, BlobRunFacts
<1> HIDE DEF x
<1>3. BlobInv(y) /\ Balance(y, x) /\ y.undefined = x.undefined
  <2>1. y.ctx = <<>> /\ y \in States /\ Balance(y, x) /\ y.undefined = x.undefined
    BY <1>2, FreeFacts DEF BlobInv
  <2>2. QED
    BY <2>1 DEF BlobInv, PackedInv
<1> HIDE DEF y
<1>4. ASSUME NEW b, BlobInv(b), NEW rc \in {0, 1}
      PROVE  /\ BlobInv(Model!Returns(b, rc)) /\ Balance(Model!Returns(b, rc), b)
             /\ Model!Returns(b, rc).undefined = b.undefined
  <2>1. b \in States /\ rc \in -23..1
    BY <1>4 DEF BlobInv
  <2>2. Same(Model!Returns(b, rc), b, rc)
    BY <2>1, ReturnsSame
  <2>3. QED
    BY <1>4, <2>2 DEF Same, BlobInv, PackedInv, Placement
<1>5. Balance(x, s) /\ Balance(y, s)
  BY <1>2, <1>3, BalanceChain DEF Ran
<1>6. /\ Balance(Model!Returns(x, 1), s)
      /\ Balance(Model!Returns(y, 0), s)
      /\ Balance(Model!Returns(s, 1), s)
  BY <1>2, <1>3, <1>4, <1>5, BalanceChain
<1>7. Len(Ins) = 1 /\ Len(Outs) = 1 => x.undefined = s.undefined
  BY <1>2 DEF Ran
<1>8. QED
  BY <1>1, <1>2, <1>3, <1>4, <1>5, <1>6, <1>7

\* The test program, inline: with one input and one output nothing is undefined.
LEMMA MainTestInline ==
  ASSUME GraphGood, way \in Model!InlineWays, NEW s, InlineInv(s),
         NEW p, p.pkg = Source, p.way = way, NEW a, a = Model!MainTest(s, p, fail)
  PROVE  /\ InlineInv(a) /\ Balance(a, s)
         /\ PackedReady(s) => PackedReady(a)
         /\ Len(Ins) = 1 /\ Len(Outs) = 1 => a.undefined = s.undefined
<1> DEFINE w == IF p.way = "inlineExternal" THEN Model!InlineInit(s, p, "right", fail) ELSE s
           x == Model!InlineRun(w, p)
           y == Model!InlineFree(x, p)
           Kept(b) == InlineInv(b) /\ Balance(b, s) /\ (PackedReady(s) => PackedReady(b))
<1>1. \/ a = Model!Returns(w, 1)
      \/ a = x
      \/ a = Model!Returns(x, 1)
      \/ a = Model!Returns(y, 0)
  BY DEF Model!MainTest, Model!ModelRun, Model!ModelFree, Model!BlobWays, Model!InlineWays
<1>2. Kept(w) /\ w.undefined = s.undefined
  <2>1. CASE p.way = "inlineExternal"
    <3>1. w = Model!InlineInit(s, p, "right", fail)
      BY <2>1
    <3> HIDE DEF w
    <3>2. InlineReady(w, s)
      BY <3>1, InlineInitFacts
    <3>3. QED
      BY <3>2 DEF InlineReady
  <2>2. CASE p.way # "inlineExternal"
    BY <2>2 DEF Balance
  <2>3. QED
    BY <2>1, <2>2
<1> HIDE DEF w
<1>3. /\ Kept(x)
      /\ Len(Ins) = 1 /\ Len(Outs) = 1 => x.undefined = s.undefined
  <2>1. InlineInv(x) /\ Ran(x, w, 1, 1) /\ (PackedReady(w) => PackedReady(x))
    BY <1>2, InlineRunFacts
  <2>2. Balance(x, s)
    BY <1>2, <2>1, BalanceChain DEF Ran
  <2>3. QED
    BY <1>2, <2>1, <2>2 DEF Ran
<1> HIDE DEF x
<1>4. Kept(y) /\ y.undefined = x.undefined
  <2>1. /\ InlineInv(y) /\ Balance(y, x) /\ y.undefined = x.undefined
        /\ PackedReady(x) => PackedReady(y)
    BY <1>3, InlineFreeFacts
  <2>2. Balance(y, s)
    BY <1>3, <2>1, BalanceChain
  <2>3. QED
    BY <1>3, <2>1, <2>2
<1> HIDE DEF y
<1>5. ASSUME NEW b, Kept(b), NEW rc \in {0, 1}
      PROVE  /\ Kept(Model!Returns(b, rc))
             /\ Model!Returns(b, rc).undefined = b.undefined
  <2>1. b \in States /\ rc \in -23..1
    BY <1>5 DEF InlineInv
  <2> DEFINE r == Model!Returns(b, rc)
  <2>2. Same(r, b, rc)
    BY <2>1, ReturnsSame
  <2> HIDE DEF r
  <2>3. Balance(r, s)
    BY <1>5, <2>2, BalanceChain DEF Same
  <2>4. InlineInv(r) /\ (PackedReady(b) => PackedReady(r)) /\ r.undefined = b.undefined
    BY <1>5, <2>2 DEF Same, InlineInv, PackedInv, Placement, PackedReady
  <2>5. QED
    BY <1>5, <2>3, <2>4 DEF r
<1>6. 0 \in {0, 1} /\ 1 \in {0, 1}
  OBVIOUS
<1> HIDE DEF Kept
<1>7. /\ Kept(a)
      /\ Len(Ins) = 1 /\ Len(Outs) = 1 => a.undefined = s.undefined
  BY <1>1, <1>2, <1>3, <1>4, <1>5, <1>6
<1>8. QED
  BY <1>7 DEF Kept

=============================================================================
