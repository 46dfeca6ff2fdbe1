---------------------------- MODULE BestFitArena ----------------------------
(***************************************************************************)
(* The packing loop of compiler/planner/memory_plan.py.  plan_memory visits *)
(* the tensors in order of (first use, id); for each one it returns the    *)
(* blocks of the tensors whose last use has passed to the free list, takes *)
(* the smallest free block that fits (lowest offset among equals) or grows *)
(* the arena, and records the entry.                                       *)
(*                                                                         *)
(* The order is the only thing the loop knows of its input, so the input   *)
(* is chosen as the loop goes: Consider takes any tensor that may come     *)
(* next in that order, with any life and size.  The free list is a set     *)
(* here; BestFitArenaList keeps the list of the code and implements this.  *)
(***************************************************************************)
EXTENDS Integers

CONSTANTS
  Tensors,        \* tensor ids, the second sort key
  FirstUses,      \* node indices at which a tensor may be first used
  LastUses,       \* node indices at which it may be last used
  ByteSizes,      \* tensor sizes in bytes
  MaxArenaBytes   \* the target's limit, 0 for none

ASSUME BestFitAssumption ==
  /\ Tensors \subseteq Nat
  /\ FirstUses \subseteq Nat
  /\ LastUses \subseteq Nat
  /\ ByteSizes \subseteq Nat \ {0}      \* _should_allocate drops empty tensors
  /\ MaxArenaBytes \in Nat

VARIABLES
  entries,      \* tensor id -> MemoryPlanEntry, for the tensors placed so far
  active,       \* ids whose block has not been returned
  free_blocks,  \* the free list, as a set of blocks
  peak,         \* size of the arena
  request,      \* the tensor of the current iteration, NoRequest between two
  cursor,       \* sort key of the latest iteration: <<first use, id>>
  status        \* "planning", then "planned" or "MemoryError"

vars == <<entries, active, free_blocks, peak, request, cursor, status>>

ALIGNMENT == 16

NoRequest == [tensor_id |-> -1, first |-> 0, last |-> 0, bytes |-> 0]
Requests == [tensor_id: Tensors, first: Nat, last: Nat, bytes: Nat \ {0}]
Blocks == [off: Nat, size: Nat \ {0}]
EntryRecords == [off: Nat, size: Nat \ {0}, first: Nat, last: Nat]

-----------------------------------------------------------------------------
\* Mutant: sizes are not rounded up.
UnalignedSize(value) == value

Align(value) == ((value + ALIGNMENT - 1) \div ALIGNMENT) * ALIGNMENT

End(b) == b.off + b.size

Disjoint(a, b) == End(a) <= b.off \/ End(b) <= a.off

\* Mutant: only the block on the left is merged.
MergesLeftOnly(blocks, off, size) ==
  LET left == {b \in blocks : End(b) = off}
      low  == IF left = {} THEN off ELSE (CHOOSE b \in left : TRUE).off
  IN  IF size <= 0
      THEN blocks
      ELSE (blocks \ left) \cup {[off |-> low, size |-> off + size - low]}

\* Mutant: an empty block is inserted too.
InsertsEmptyBlock(blocks, off, size) ==
  LET left  == {b \in blocks : End(b) = off}
      right == {b \in blocks : b.off = off + size}
      low   == IF left = {} THEN off ELSE (CHOOSE b \in left : TRUE).off
      high  == IF right = {} THEN off + size ELSE End(CHOOSE b \in right : TRUE)
  IN  (blocks \ (left \cup right)) \cup {[off |-> low, size |-> high - low]}

\* A block joins the free ones and is merged with the neighbours it touches.
\* An empty block is not inserted.
InsertFreeBlock(blocks, off, size) ==
  LET left  == {b \in blocks : End(b) = off}
      right == {b \in blocks : b.off = off + size}
      low   == IF left = {} THEN off ELSE (CHOOSE b \in left : TRUE).off
      high  == IF right = {} THEN off + size ELSE End(CHOOSE b \in right : TRUE)
  IN  IF size <= 0
      THEN blocks
      ELSE (blocks \ (left \cup right)) \cup {[off |-> low, size |-> high - low]}

Fitting(blocks, size) == {b \in blocks : b.size >= size}

\* The smallest fitting block, the one with the lowest offset among equals.
BestFit(blocks, size) ==
  CHOOSE b \in Fitting(blocks, size) :
    \A c \in Fitting(blocks, size) :
      b.size < c.size \/ (b.size = c.size /\ b.off <= c.off)

\* Mutant: the chosen block stays in the free list.
KeepsChosenBlock(blocks, size) == blocks

\* The tail of the chosen block goes back to the free list.
TakeBestFit(blocks, size) ==
  LET b == BestFit(blocks, size)
  IN  InsertFreeBlock(blocks \ {b}, b.off + size, b.size - size)

\* Mutant: a tensor expires at its last use.
ExpiresAtLastUse(t, time) == entries[t].last <= time

Expired(t, time) == entries[t].last < time

-----------------------------------------------------------------------------
Init ==
  /\ entries = << >>
  /\ active = {}
  /\ free_blocks = {}
  /\ peak = 0
  /\ request = NoRequest
  /\ cursor = <<0, -1>>
  /\ status = "planning"

\* The loop moves to the next tensor in the order of (first use, id).
Consider(t, first, last, bytes) ==
  /\ status = "planning"
  /\ request = NoRequest
  /\ t \notin DOMAIN entries
  /\ \/ first > cursor[1]
     \/ first = cursor[1] /\ t > cursor[2]
  /\ last >= first
  /\ request' = [tensor_id |-> t, first |-> first, last |-> last, bytes |-> bytes]
  /\ cursor' = <<first, t>>
  /\ UNCHANGED <<entries, active, free_blocks, peak, status>>

\* One active tensor whose last use lies before the current first use.
Expire(t) ==
  /\ request # NoRequest
  /\ t \in active
  /\ Expired(t, request.first)
  /\ active' = active \ {t}
  /\ free_blocks' = InsertFreeBlock(free_blocks, entries[t].off, entries[t].size)
  /\ UNCHANGED <<entries, peak, request, cursor, status>>

AddEntry(off, size) ==
  LET t == request.tensor_id
  IN  /\ entries' = [x \in DOMAIN entries \cup {t} |->
                       IF x = t
                       THEN [off |-> off, size |-> size,
                             first |-> request.first, last |-> request.last]
                       ELSE entries[x]]
      /\ active' = active \cup {t}
      /\ request' = NoRequest
      /\ UNCHANGED <<cursor, status>>

ExpiryDone ==
  /\ request # NoRequest
  /\ \A t \in active : ~Expired(t, request.first)

PlaceInFree ==
  /\ ExpiryDone
  /\ LET size == Align(request.bytes)
     IN  /\ Fitting(free_blocks, size) # {}
         /\ AddEntry(BestFit(free_blocks, size).off, size)
         /\ free_blocks' = TakeBestFit(free_blocks, size)
  /\ UNCHANGED peak

\* Mutant: the arena grows by the size before rounding.
GrowsByRequest ==
  /\ ExpiryDone
  /\ LET size == Align(request.bytes)
     IN  /\ Fitting(free_blocks, size) = {}
         /\ AddEntry(peak, size)
         /\ peak' = peak + request.bytes
  /\ UNCHANGED free_blocks

PlaceAtPeak ==
  /\ ExpiryDone
  /\ LET size == Align(request.bytes)
     IN  /\ Fitting(free_blocks, size) = {}
         /\ AddEntry(peak, size)
         /\ peak' = peak + size
  /\ UNCHANGED free_blocks

\* After the last tensor the arena is compared with the target's limit.
Finish ==
  /\ status = "planning"
  /\ request = NoRequest
  /\ status' = IF MaxArenaBytes > 0 /\ peak > MaxArenaBytes
               THEN "MemoryError"
               ELSE "planned"
  /\ UNCHANGED <<entries, active, free_blocks, peak, request, cursor>>

\* One iteration of the loop, from the choice of the tensor to its entry.
Step ==
  \/ \E t \in Tensors : Expire(t)
  \/ PlaceInFree
  \/ PlaceAtPeak

Next ==
  \/ \E t \in Tensors, first \in FirstUses, last \in LastUses, bytes \in ByteSizes :
        Consider(t, first, last, bytes)
  \/ Step
  \/ Finish

Spec == Init /\ [][Next]_vars

-----------------------------------------------------------------------------
TypeOK ==
  /\ DOMAIN entries \subseteq Tensors
  /\ entries \in [DOMAIN entries -> EntryRecords]
  /\ active \subseteq DOMAIN entries
  /\ free_blocks \subseteq Blocks
  /\ peak \in Nat
  /\ request \in Requests \cup {NoRequest}
  /\ cursor \in Nat \X (Nat \cup {-1})
  /\ status \in {"planning", "planned", "MemoryError"}

LivesMeet(a, b) == a.first <= b.last /\ b.first <= a.last

\* Two tensors that are both needed at some node never share a byte, whatever
\* was freed, split and merged between their placements.
NoLiveOverlap ==
  \A t, u \in DOMAIN entries :
    t # u /\ LivesMeet(entries[t], entries[u]) => Disjoint(entries[t], entries[u])

\* Free blocks are apart and no two of them touch.
Coalesced(blocks) ==
  \A b, c \in blocks : b # c => Disjoint(b, c) /\ End(b) # c.off

InBlock(x, b) == b.off <= x /\ x < End(b)

\* No byte of the arena is lost and none is owned twice: the active blocks and
\* the free list tile [0, peak), and the free list holds no two touching blocks,
\* so a free range is never split in two that best fit would each find too small.
ArenaTiled ==
  /\ \A t, u \in active : t # u => Disjoint(entries[t], entries[u])
  /\ \A t \in active, b \in free_blocks : Disjoint(entries[t], b)
  /\ Coalesced(free_blocks)
  /\ \A x \in 0 .. peak - 1 :
       \/ \E t \in active : InBlock(x, entries[t])
       \/ \E b \in free_blocks : InBlock(x, b)
  /\ \A b \in free_blocks : End(b) <= peak

\* How the sort order, the current request and the expired tensors relate: with
\* the other invariants this is what makes each step preserve NoLiveOverlap.
PlanOrder ==
  /\ request # NoRequest =>
       /\ status = "planning"
       /\ request.first = cursor[1]
       /\ request.tensor_id \notin DOMAIN entries
       /\ request.first <= request.last
  /\ \A t \in DOMAIN entries : entries[t].first <= cursor[1]
  /\ \A t \in DOMAIN entries \ active : entries[t].last < cursor[1]

\* Every entry lies inside the arena that is reported, and inside the target's
\* limit when the plan is accepted.
EntriesInsideArena ==
  /\ \A t \in DOMAIN entries : End(entries[t]) <= peak
  /\ status = "planned" /\ MaxArenaBytes > 0 =>
       \A t \in DOMAIN entries : End(entries[t]) <= MaxArenaBytes

\* SIMD kernels load from tensor bases: offsets and sizes stay multiples of 16
\* through every split and merge.
Aligned ==
  /\ \A t \in DOMAIN entries : entries[t].off % ALIGNMENT = 0 /\ entries[t].size % ALIGNMENT = 0
  /\ \A b \in free_blocks : b.off % ALIGNMENT = 0 /\ b.size % ALIGNMENT = 0
  /\ peak % ALIGNMENT = 0

\* The inductive invariant of the loop.
IInv ==
  /\ TypeOK
  /\ PlanOrder
  /\ NoLiveOverlap
  /\ ArenaTiled
  /\ EntriesInsideArena

\* The loop is an arena in the sense of module Arena.
Abstract == INSTANCE Arena WITH
  grants <- entries, held <- active, top <- peak, clock <- cursor[1]

ImplementsArena == Abstract!Spec
=============================================================================
