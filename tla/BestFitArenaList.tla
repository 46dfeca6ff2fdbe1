-------------------------- MODULE BestFitArenaList --------------------------
(***************************************************************************)
(* The packing loop with the data structures of the code: the free list is *)
(* a Python list that is sorted and merged in one pass, the active tensors *)
(* are a list that is rebuilt while it is scanned.  It implements          *)
(* BestFitArena, whose free list and active tensors are sets, so what is   *)
(* proved there holds of the lists.                                        *)
(***************************************************************************)
EXTENDS Integers, Sequences, SequencesExt

CONSTANTS Tensors, FirstUses, LastUses, ByteSizes, MaxArenaBytes

VARIABLES
  entries, peak, request, cursor, status,   \* as in BestFitArena
  free_list,      \* sequence of blocks, in order of offset
  active,         \* ids still to be scanned in this iteration
  still_active    \* ids the scan has kept

vars == <<entries, peak, request, cursor, status, free_list, active, still_active>>

Sets == INSTANCE BestFitArena WITH
  active <- ToSet(active) \cup ToSet(still_active),
  free_blocks <- ToSet(free_list)

ASSUME BestFitListAssumption ==
  /\ Tensors \subseteq Nat
  /\ FirstUses \subseteq Nat
  /\ LastUses \subseteq Nat
  /\ ByteSizes \subseteq Nat \ {0}      \* _should_allocate drops empty tensors
  /\ MaxArenaBytes \in Nat

-----------------------------------------------------------------------------
Before(a, b) == a.off < b.off \/ (a.off = b.off /\ a.size <= b.size)

\* The sorted list: the blocks of the list in another order.
Sorted(list) ==
  LET InOrder == {p \in Bijection(DOMAIN list, DOMAIN list) :
                    \A i, j \in DOMAIN list : i < j => Before(list[p[i]], list[p[j]])}
      order == CHOOSE p \in InOrder : TRUE
  IN  [i \in DOMAIN list |-> list[order[i]]]

\* One block of the sorted list is merged into the last merged one, or follows.
MergeNext(merged, b) ==
  IF merged # << >> /\ Last(merged).off + Last(merged).size = b.off
  THEN [merged EXCEPT ![Len(merged)].size = @ + b.size]
  ELSE Append(merged, b)

\* The merged list after each block.
MergedUpTo(list) ==
  LET merged[i \in 0 .. Len(list)] ==
        IF i = 0 THEN << >> ELSE MergeNext(merged[i - 1], list[i])
  IN  merged

Merged(list) == MergedUpTo(list)[Len(list)]

\* Mutant: the list is merged without being sorted.
InsertsUnsorted(list, off, size) ==
  IF size <= 0 THEN list ELSE Merged(Append(list, [off |-> off, size |-> size]))

InsertFreeBlock(list, off, size) ==
  IF size <= 0 THEN list ELSE Merged(Sorted(Append(list, [off |-> off, size |-> size])))

Fits(list, size) == {i \in DOMAIN list : list[i].size >= size}

\* Mutant: the scan keeps the last of the smallest blocks that fit.
LastBestIndex(list, size) ==
  CHOOSE i \in Fits(list, size) :
    \A j \in Fits(list, size) :
      list[i].size < list[j].size \/ (list[i].size = list[j].size /\ i >= j)

\* The scan keeps the first of the smallest blocks that fit.
BestIndex(list, size) ==
  CHOOSE i \in Fits(list, size) :
    \A j \in Fits(list, size) :
      list[i].size < list[j].size \/ (list[i].size = list[j].size /\ i <= j)

TakeBestFit(list, size) ==
  LET b == list[BestIndex(list, size)]
  IN  InsertFreeBlock(RemoveAt(list, BestIndex(list, size)), b.off + size, b.size - size)

-----------------------------------------------------------------------------
Init ==
  /\ entries = << >>
  /\ peak = 0
  /\ request = Sets!NoRequest
  /\ cursor = <<0, -1>>
  /\ status = "planning"
  /\ free_list = << >>
  /\ active = << >>
  /\ still_active = << >>

Consider(t, first, last, bytes) ==
  /\ status = "planning"
  /\ request = Sets!NoRequest
  /\ t \notin DOMAIN entries
  /\ \/ first > cursor[1]
     \/ first = cursor[1] /\ t > cursor[2]
  /\ last >= first
  /\ request' = [tensor_id |-> t, first |-> first, last |-> last, bytes |-> bytes]
  /\ cursor' = <<first, t>>
  /\ UNCHANGED <<entries, peak, status, free_list, active, still_active>>

\* The scan meets an active tensor: it is released, or kept for the next tensor.
ScanRelease ==
  /\ request # Sets!NoRequest
  /\ active # << >>
  /\ entries[Head(active)].last < request.first
  /\ active' = Tail(active)
  /\ free_list' = InsertFreeBlock(free_list, entries[Head(active)].off,
                                  entries[Head(active)].size)
  /\ UNCHANGED <<entries, peak, request, cursor, status, still_active>>

ScanKeep ==
  /\ request # Sets!NoRequest
  /\ active # << >>
  /\ entries[Head(active)].last >= request.first
  /\ active' = Tail(active)
  /\ still_active' = Append(still_active, Head(active))
  /\ UNCHANGED <<entries, peak, request, cursor, status, free_list>>

\* After the scan the tensor takes the best free block, or the arena grows.
Place ==
  LET size == Sets!Align(request.bytes)
      fits == Fits(free_list, size) # {}
      off  == IF fits THEN free_list[BestIndex(free_list, size)].off ELSE peak
      t    == request.tensor_id
  IN  /\ request # Sets!NoRequest
      /\ active = << >>
      /\ free_list' = IF fits THEN TakeBestFit(free_list, size) ELSE free_list
      /\ peak' = IF fits THEN peak ELSE peak + size
      /\ active' = Append(still_active, t)
      /\ still_active' = << >>
      /\ entries' = [x \in DOMAIN entries \cup {t} |->
                       IF x = t
                       THEN [off |-> off, size |-> size,
                             first |-> request.first, last |-> request.last]
                       ELSE entries[x]]
      /\ request' = Sets!NoRequest
      /\ UNCHANGED <<cursor, status>>

Finish ==
  /\ status = "planning"
  /\ request = Sets!NoRequest
  /\ status' = IF MaxArenaBytes > 0 /\ peak > MaxArenaBytes
               THEN "MemoryError"
               ELSE "planned"
  /\ UNCHANGED <<entries, peak, request, cursor, free_list, active, still_active>>

Next ==
  \/ \E t \in Tensors, first \in FirstUses, last \in LastUses, bytes \in ByteSizes :
        Consider(t, first, last, bytes)
  \/ ScanRelease
  \/ ScanKeep
  \/ Place
  \/ Finish

Spec == Init /\ [][Next]_vars

-----------------------------------------------------------------------------
\* The list is in order of offset and no id is listed twice: what the one-pass
\* merge and the rebuild of the active list rely on.
ListsWellFormed ==
  /\ \A i, j \in DOMAIN free_list :
        i < j => free_list[i].off + free_list[i].size < free_list[j].off
  /\ IsInjective(still_active \o active)
  /\ status # "planning" => still_active = << >>

\* The lists do what the sets of BestFitArena do, step by step.
ImplementsBestFit == Sets!Spec
=============================================================================
