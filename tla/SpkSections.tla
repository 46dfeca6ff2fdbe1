---------------------------- MODULE SpkSections ----------------------------
(***************************************************************************)
(* What write_spk puts into a package: the sections of a compiled graph,   *)
(* the length of each, where the weights lie in theirs, and the finished   *)
(* file as a record of what a reader can tell about it                     *)
(* (compiler/packager/spk_writer.py).                                      *)
(*                                                                         *)
(* A compiled graph g is a record:                                         *)
(*   tensors    in id order, ids count from 1: [role, bytes, class, offset,*)
(*              nonzero], class being where the memory plan puts it and    *)
(*              nonzero whether the data of a weight has a byte that is    *)
(*              not 0                                                      *)
(*   nodes      how many                                                   *)
(*   specs      how many the kernel plan has, fallbacks included           *)
(*   outputs    tensor ids, in the order of the graph                      *)
(*   channels   of every quantized tensor, in the order of quant_params    *)
(*   protected  the nodes of the protection plan, or -1 without a plan     *)
(*   scratch    kernel scratch bytes, and protectionScratch on top of it   *)
(*   arena      planned_activation_bytes                                   *)
(*   text       bytes of [metadata, profile, strings]                      *)
(***************************************************************************)
EXTENDS Integers, Sequences

METADATA == 1
TARGET_PROFILE == 2
TENSOR_TABLE == 3
NODE_TABLE == 4
ATTRIBUTES == 5
WEIGHTS == 6
MEMORY_PLAN == 7
KERNEL_SPEC == 8
QUANTIZATION == 9
STRING_TABLE == 10
CHECKSUM_SECTION == 12
PROTECTION_PLAN == 13

\* The lengths of the packed records.
TENSOR == 68
NODE == 76
ATTR == 124
PLAN == 36
SPEC == 44
QUANT == 20
PROTECTION == 28

Align(value, alignment) ==
    ((value + alignment - 1) \div alignment) * alignment

Tensor == [role : {"WEIGHT", "INPUT", "OUTPUT", "ACTIVATION"}, bytes : Nat,
           class : {"WEIGHT", "ARENA", "EXTERNAL"}, offset : Nat, nonzero : BOOLEAN]

CompiledGraph ==
    [ tensors : Seq(Tensor), nodes : Nat, specs : Nat, outputs : Seq(Nat), channels : Seq(Nat),
      protected : Int, scratch : Nat, protectionScratch : Nat, arena : Nat,
      text : [metadata : Nat, profile : Nat, strings : Nat] ]

IsWeight(g, t) == g.tensors[t].role = "WEIGHT"

\* Mutant: weights are appended without padding, but keep aligned offsets.
WeightsEndUnpadded(g) ==
    LET end[t \in 0..Len(g.tensors)] ==
            IF t = 0 THEN 0
            ELSE IF IsWeight(g, t) THEN end[t - 1] + g.tensors[t].bytes
            ELSE end[t - 1]
    IN  end

(***************************************************************************)
(* _build_weights: WeightsEnd(g)[t] is the length of the blob once the     *)
(* tensors up to t are in it; a weight starts at the next 16 bytes.        *)
(***************************************************************************)
WeightsEnd(g) ==
    LET end[t \in 0..Len(g.tensors)] ==
            IF t = 0 THEN 0
            ELSE IF IsWeight(g, t) THEN Align(end[t - 1], 16) + g.tensors[t].bytes
            ELSE end[t - 1]
    IN  end

WeightOffset(g, t) == Align(WeightsEnd(g)[t - 1], 16)

(* data_offset of the tensor table: a place in the weights, or in the arena. *)
DataOffset(g, t) ==
    IF IsWeight(g, t) THEN WeightOffset(g, t) ELSE g.tensors[t].offset

(* How many bytes the function of the section returns.                     *)
TensorTableBytes(g) == TENSOR * Len(g.tensors)
NodeTableBytes(g) == NODE * g.nodes
AttrsBytes(g) == ATTR * g.nodes              \* _attr_bytes cuts every list to its field
MemoryPlanBytes(g) == PLAN * Len(g.tensors)
KernelSpecBytes(g) == SPEC * g.specs
ProtectionBytes(g) == PROTECTION * g.protected

(* Records first, then scales and zero points, four bytes each a channel.  *)
QuantizationSectionBytes(g) ==
    LET end[t \in 0..Len(g.channels)] ==
            IF t = 0 THEN QUANT * Len(g.channels) ELSE end[t - 1] + 8 * g.channels[t]
    IN  end[Len(g.channels)]

\* Mutant: data offsets count from the end of the records.
QuantFirstOffsetRelative(g) == 8 * g.channels[1]

\* data_offset of the first record, from which the loader counts the records.
QuantFirstOffset(g) == QUANT * Len(g.channels)

Sec(kind, bytes, align) == [kind |-> kind, bytes |-> bytes, align |-> align]

(* The list `sections` of write_spk.                                       *)
SectionsOf(g) ==
    << Sec(METADATA, g.text.metadata, 1),
       Sec(TARGET_PROFILE, g.text.profile, 1),
       Sec(TENSOR_TABLE, TensorTableBytes(g), 4),
       Sec(NODE_TABLE, NodeTableBytes(g), 4),
       Sec(ATTRIBUTES, AttrsBytes(g), 4),
       Sec(WEIGHTS, WeightsEnd(g)[Len(g.tensors)], 4096),
       Sec(MEMORY_PLAN, MemoryPlanBytes(g), 4),
       Sec(KERNEL_SPEC, KernelSpecBytes(g), 4) >>
    \o (IF g.channels = <<>> THEN <<>>
        ELSE << Sec(QUANTIZATION, QuantizationSectionBytes(g), 4) >>)
    \o (IF g.protected < 0 THEN <<>>
        ELSE << Sec(PROTECTION_PLAN, ProtectionBytes(g), 8) >>)
    \o << Sec(STRING_TABLE, g.text.strings, 1), Sec(CHECKSUM_SECTION, 4, 4) >>

(***************************************************************************)
(* The file: the header fields a reader uses, the directory, and the graph *)
(* its records describe.  `intact` says that the bytes the checksum covers *)
(* are those it was computed of, `weights` what the weights section holds. *)
(***************************************************************************)
Package(g, header, directory) ==
    [ size      |-> header.bytes,
      magic     |-> TRUE,
      major     |-> TRUE,
      dirEnd    |-> header.size + 32 * header.count,
      dir       |-> directory,
      tensors   |-> Len(g.tensors),
      nodes     |-> g.nodes,
      outputs   |-> Len(g.outputs),
      scratch   |-> g.scratch + (IF g.protected >= 0 THEN g.protectionScratch ELSE 0),
      arena     |-> g.arena,
      checksum  |-> 1,
      intact    |-> TRUE,
      weights   |-> "stored",
      graph     |-> g ]

(***************************************************************************)
(* What may happen to the file between compiler and device.  Bytes outside *)
(* the directory read as an entry (count or header_size damaged) are one   *)
(* that lies in the file and has no known kind, or one that does not.      *)
(***************************************************************************)
Garbage(pkg) == { [kind |-> 0, offset |-> 0, size |-> 0],
                  [kind |-> 0, offset |-> pkg.size + 1, size |-> 0] }

Damages == {"none", "magic", "major", "fewer sections", "more sections",
            "header size", "more tensors", "byte", "checksum type",
            "short header", "short directory", "last byte lost"}

Damaged(pkg, damage) ==
    LET hit == [pkg EXCEPT !.intact = FALSE]
    IN  CASE damage = "none"            -> {pkg}
          [] damage = "magic"           -> {[hit EXCEPT !.magic = FALSE]}
          [] damage = "major"           -> {[hit EXCEPT !.major = FALSE]}
          [] damage = "fewer sections"  -> {[hit EXCEPT !.dir = SubSeq(@, 1, Len(@) - 1),
                                                        !.dirEnd = @ - 32]}
          [] damage = "more sections"   -> {[hit EXCEPT !.dir = Append(pkg.dir, e),
                                                        !.dirEnd = @ + 32] :
                                              e \in Garbage(pkg)}
          [] damage = "header size"     -> {[hit EXCEPT !.dir = [i \in DOMAIN pkg.dir |-> e]] :
                                              e \in Garbage(pkg)}
          [] damage = "more tensors"    -> {[hit EXCEPT !.tensors = @ + 1]}
          [] damage = "byte"            -> {hit}
          [] damage = "checksum type"   -> {[hit EXCEPT !.checksum = 0]}
          [] damage = "short header"    -> {[pkg EXCEPT !.size = 67]}
          [] damage = "short directory" -> {[pkg EXCEPT !.size = pkg.dirEnd - 1]}
          [] damage = "last byte lost"  -> {[pkg EXCEPT !.size = @ - 1]}
=============================================================================
