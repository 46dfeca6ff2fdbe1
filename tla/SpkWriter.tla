----------------------------- MODULE SpkWriter -----------------------------
(***************************************************************************)
(* The layout of an SPK package: the loop of write_spk that gives every    *)
(* section its aligned place and its directory entry, and the header that  *)
(* is packed once all the places are known (compiler/packager/             *)
(* spk_writer.py).  Which sections a graph has, and how long they are, is  *)
(* the business of SpkSections; here a list of sections is any list that   *)
(* write_spk can build.                                                    *)
(***************************************************************************)
EXTENDS Integers, Sequences

CONSTANT SectionLists        \* lists of [kind, bytes, align], in file order

HeaderSize == 68             \* HEADER_STRUCT.size
EntrySize == 32              \* SECTION_STRUCT.size
CHECKSUM == 12               \* SECTION_CHECKSUM
Alignments == {1, 4, 8, 4096}
Section == [kind : Nat, bytes : Nat, align : Alignments]

(***************************************************************************)
(* write_spk appends the checksum section last, and only once.             *)
(***************************************************************************)
ASSUME SectionListsAssumption ==
    \A s \in SectionLists :
        /\ s \in Seq(Section)
        /\ Len(s) > 0
        /\ \A i \in 1..Len(s) : s[i].kind = CHECKSUM <=> i = Len(s)

VARIABLES
    sections,        \* the list `sections`, complete before the loop starts
    next,            \* the section the loop handles next
    offset,          \* bytes of the file so far, header and directory included
    directory,       \* the entries packed so far: [kind, offset, size]
    checksumOffset,  \* where the checksum goes; everything before is covered
    header           \* <<>> until it is packed, then [size, count, bytes]

writerVars == <<sections, next, offset, directory, checksumOffset, header>>

Base(s) == HeaderSize + EntrySize * Len(s)

AlignUp(value, alignment) ==
    ((value + alignment - 1) \div alignment) * alignment

Start(s) ==
    /\ sections = s
    /\ next = 1
    /\ offset = Base(s)
    /\ directory = <<>>
    /\ checksumOffset = 0
    /\ header = <<>>

\* Mutant: the entry is packed before the padding is added to the offset.
WritesBeforePadding ==
    /\ next <= Len(sections)
    /\ LET s  == sections[next]
       IN  /\ directory' = Append(directory,
                                  [kind |-> s.kind, offset |-> offset, size |-> s.bytes])
           /\ checksumOffset' = IF s.kind = CHECKSUM THEN offset ELSE checksumOffset
           /\ offset' = AlignUp(offset, s.align) + s.bytes
    /\ next' = next + 1
    /\ UNCHANGED <<sections, header>>

(* The body of the loop: pad to the section's alignment, enter it.         *)
WriteSection ==
    /\ next <= Len(sections)
    /\ LET s  == sections[next]
           at == AlignUp(offset, s.align)
       IN  /\ directory' = Append(directory,
                                  [kind |-> s.kind, offset |-> at, size |-> s.bytes])
           /\ checksumOffset' = IF s.kind = CHECKSUM THEN at ELSE checksumOffset
           /\ offset' = at + s.bytes
    /\ next' = next + 1
    /\ UNCHANGED <<sections, header>>

(* Once the loop is done: the header and the four bytes of the checksum.   *)
WriteHeader ==
    /\ next = Len(sections) + 1
    /\ header = <<>>
    /\ header' = <<[size |-> HeaderSize, count |-> Len(sections), bytes |-> offset]>>
    /\ UNCHANGED <<sections, next, offset, directory, checksumOffset>>

WriterInit == \E s \in SectionLists : Start(s)
WriterNext == WriteSection \/ WriteHeader
WriterSpec == WriterInit /\ [][WriterNext]_writerVars

Written == header # <<>>
-----------------------------------------------------------------------------
End(e) == e.offset + e.size

(***************************************************************************)
(* What the loader relies on.  The sections of a package follow header and *)
(* directory in the order of the list, none runs into the next, each sits  *)
(* at its alignment and keeps its length, and the checksum is the end of   *)
(* the file, so that it covers every byte of every other section           *)
(* (spk_writer.py: write_spk).                                             *)
(***************************************************************************)
SectionsLaidOut ==
    Written =>
        /\ Len(directory) = header[1].count
        /\ \A i \in 1..Len(sections) :
              /\ directory[i].offset >= header[1].size + EntrySize * header[1].count
              /\ directory[i].offset % sections[i].align = 0
              /\ directory[i].size = sections[i].bytes
              /\ i > 1 => End(directory[i - 1]) <= directory[i].offset
        /\ checksumOffset = directory[Len(sections)].offset
        /\ End(directory[Len(sections)]) = header[1].bytes
=============================================================================
