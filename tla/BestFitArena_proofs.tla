------------------------ MODULE BestFitArena_proofs ------------------------
(***************************************************************************)
(* Proofs about the packing loop: for every set of tensors, of lives and   *)
(* of sizes, tensors that live together never overlap, the active and the  *)
(* free blocks tile the arena, and the loop implements module Arena.       *)
(***************************************************************************)
EXTENDS BestFitArena, NaturalOrder

-----------------------------------------------------------------------------
\* _alloc_best_fit returns one of the blocks that fit whenever there is one, and
\* no other is smaller, or of its size and lower.
LEMMA BestFitFits ==
  ASSUME NEW blocks, blocks \subseteq Blocks, NEW size \in Nat,
         Fitting(blocks, size) # {}
  PROVE  /\ BestFit(blocks, size) \in Fitting(blocks, size)
         /\ \A c \in Fitting(blocks, size) :
              LET b == BestFit(blocks, size)
              IN  b.size < c.size \/ (b.size = c.size /\ b.off <= c.off)
<1> DEFINE F == Fitting(blocks, size)
           Sizes == {b.size : b \in F}
<1>1. F \subseteq Blocks
  BY DEF Fitting
<1>2. PICK s \in Sizes : \A y \in Sizes : s <= y
  <2>1. Sizes \subseteq Nat /\ Sizes # {}
    BY <1>1 DEF Blocks
  <2> HIDE DEF Sizes
  <2>2. QED
    BY <2>1, LeastNatural
<1> DEFINE Offs == {b.off : b \in {c \in F : c.size = s}}
<1>3. PICK o \in Offs : \A y \in Offs : o <= y
  <2>1. Offs \subseteq Nat /\ Offs # {}
    BY <1>1 DEF Blocks
  <2> HIDE DEF Offs
  <2>2. QED
    BY <2>1, LeastNatural
<1>4. PICK b \in F : b.size = s /\ b.off = o
  BY <1>3
<1>5. \A c \in F : b.size < c.size \/ (b.size = c.size /\ b.off <= c.off)
  <2> TAKE c \in F
  <2>1. s <= c.size
    BY <1>2
  <2>2. c.size = s => o <= c.off
    BY <1>3
  <2>3. QED
    BY <1>1, <1>4, <2>1, <2>2 DEF Blocks
<1>6. QED
  BY <1>4, <1>5 DEF BestFit

-----------------------------------------------------------------------------
(* What _insert_free_block does to a free list.                            *)

\* Inserting a block that meets no free one keeps the free blocks apart and
\* untouching, frees exactly the bytes of the new block, and what was apart
\* from all of them stays so.
LEMMA InsertFreeBlockCorrect ==
  ASSUME NEW blocks, blocks \subseteq Blocks, Coalesced(blocks),
         NEW off \in Nat, NEW size \in Nat \ {0},
         \A b \in blocks : Disjoint(b, [off |-> off, size |-> size])
  PROVE  LET after == InsertFreeBlock(blocks, off, size)
         IN  /\ after \subseteq Blocks
             /\ Coalesced(after)
             /\ \A x \in Nat : (\E b \in after : InBlock(x, b)) <=>
                    (\/ \E b \in blocks : InBlock(x, b)
                     \/ off <= x /\ x < off + size)
             /\ \A e : /\ e.off \in Nat /\ e.size \in Nat \ {0}
                       /\ \A b \in blocks : Disjoint(e, b)
                       /\ Disjoint(e, [off |-> off, size |-> size])
                       => \A b \in after : Disjoint(e, b)
             /\ \A p \in Nat : (\A b \in blocks : End(b) <= p) /\ off + size <= p
                       => \A b \in after : End(b) <= p
<1> DEFINE left  == {b \in blocks : End(b) = off}
           right == {b \in blocks : b.off = off + size}
           low   == IF left = {} THEN off ELSE (CHOOSE b \in left : TRUE).off
           high  == IF right = {} THEN off + size ELSE End(CHOOSE b \in right : TRUE)
           merged == [off |-> low, size |-> high - low]
           rest  == blocks \ (left \cup right)
<1>1. InsertFreeBlock(blocks, off, size) = rest \cup {merged}
  BY DEF InsertFreeBlock
<1>2. /\ low \in Nat /\ low <= off
      /\ \/ left = {} /\ low = off
         \/ \E l \in blocks : End(l) = off /\ l.off = low /\ left = {l}
  <2>1. CASE left = {}
    BY <2>1
  <2>2. CASE left # {}
    <3> DEFINE l == CHOOSE b \in left : TRUE
    <3>1. l \in left
      BY <2>2
    <3>2. \A b \in left : b = l
      BY <3>1 DEF Coalesced, Disjoint, End, Blocks
    <3>3. low = l.off
      BY <2>2
    <3> HIDE DEF l, low
    <3>4. left = {l}
      BY <3>1, <3>2
    <3>5. QED
      BY <3>1, <3>3, <3>4 DEF Blocks, End
  <2>3. QED
    BY <2>1, <2>2
<1>3. /\ high \in Nat /\ off + size <= high
      /\ \/ right = {} /\ high = off + size
         \/ \E r \in blocks : r.off = off + size /\ End(r) = high /\ right = {r}
  <2>1. CASE right = {}
    BY <2>1
  <2>2. CASE right # {}
    <3> DEFINE r == CHOOSE b \in right : TRUE
    <3>1. r \in right
      BY <2>2
    <3>2. \A b \in right : b = r
      BY <3>1 DEF Coalesced, Disjoint, End, Blocks
    <3>3. high = End(r)
      BY <2>2
    <3> HIDE DEF r, high
    <3>4. right = {r}
      BY <3>1, <3>2
    <3>5. QED
      BY <3>1, <3>3, <3>4 DEF Blocks, End
  <2>3. QED
    BY <2>1, <2>2
<1> HIDE DEF low, high
<1>4. merged \in Blocks /\ End(merged) = high /\ merged.off = low
  BY <1>2, <1>3 DEF Blocks, End
<1> HIDE DEF merged
<1>5. rest \cup {merged} \subseteq Blocks
  BY <1>4
<1>6. \A b \in rest : /\ Disjoint(b, merged) /\ Disjoint(merged, b)
                      /\ End(b) # low /\ high # b.off
  <2> SUFFICES ASSUME NEW b \in rest
               PROVE  /\ Disjoint(b, merged)
                      /\ End(b) # low /\ high # b.off
    BY DEF Disjoint
  <2>1. b \in blocks /\ b \in Blocks /\ End(b) # off /\ b.off # off + size
    OBVIOUS
  <2>2. End(b) # low /\ (End(b) <= low \/ off + size <= b.off)
    <3>1. End(b) <= off \/ off + size <= b.off
      BY <2>1 DEF Disjoint, End
    <3>2. QED
      BY <1>2, <2>1, <3>1 DEF Coalesced, Disjoint, End, Blocks
  <2>3. high # b.off /\ (End(b) <= low \/ high <= b.off)
    BY <1>3, <2>1, <2>2 DEF Coalesced, Disjoint, End, Blocks
  <2>4. QED
    BY <1>4, <2>2, <2>3 DEF Disjoint
<1>7. Coalesced(rest \cup {merged})
  BY <1>4, <1>6 DEF Coalesced
<1>8. \A x \in Nat : (\E b \in rest \cup {merged} : InBlock(x, b)) <=>
                        (\/ \E b \in blocks : InBlock(x, b)
                         \/ off <= x /\ x < off + size)
  <2> TAKE x \in Nat
  <2>1. InBlock(x, merged) <=> \/ off <= x /\ x < off + size
                               \/ \E b \in left \cup right : InBlock(x, b)
    BY <1>2, <1>3, <1>4 DEF InBlock, End, Blocks
  <2>2. QED
    BY <2>1
<1>9. \A e : /\ e.off \in Nat /\ e.size \in Nat \ {0}
             /\ \A b \in blocks : Disjoint(e, b)
             /\ Disjoint(e, [off |-> off, size |-> size])
             => \A b \in rest \cup {merged} : Disjoint(e, b)
  <2> SUFFICES ASSUME NEW e, e.off \in Nat, e.size \in Nat \ {0},
                      \A b \in blocks : Disjoint(e, b),
                      Disjoint(e, [off |-> off, size |-> size])
               PROVE  Disjoint(e, merged)
    OBVIOUS
  <2>1. End(e) <= off \/ off + size <= e.off
    BY DEF Disjoint, End
  <2>2. End(e) <= low \/ off + size <= e.off
    BY <1>2, <2>1 DEF Disjoint, End, Blocks
  <2>3. End(e) <= low \/ high <= e.off
    BY <1>3, <2>2, <1>2 DEF Disjoint, End, Blocks
  <2>4. QED
    BY <1>4, <2>3 DEF Disjoint
<1>10. \A p \in Nat : (\A b \in blocks : End(b) <= p) /\ off + size <= p
             => \A b \in rest \cup {merged} : End(b) <= p
  BY <1>3, <1>4
<1>11. QED
  BY <1>1, <1>5, <1>7, <1>8, <1>9, <1>10, Zenon

\* Align rounds a positive size up to a positive one.
LEMMA AlignType == \A n \in Nat \ {0} : Align(n) \in Nat \ {0}
BY DEF Align, ALIGNMENT

\* The granted block meets nothing that stays free, the free blocks cover what
\* they covered before except for it, and what was apart from the free list is
\* apart from the granted block and from the new free list.
TakesOnly(got, blocks, after) ==
  /\ got.off \in Nat
  /\ \E b \in blocks : b.off = got.off /\ got.size <= b.size
  /\ after \subseteq Blocks
  /\ Coalesced(after)
  /\ \A b \in after : Disjoint(got, b)
  /\ \A x \in Nat : (\E b \in blocks : InBlock(x, b)) =>
         \/ \E b \in after : InBlock(x, b)
         \/ got.off <= x /\ x < got.off + got.size
  /\ \A e : /\ e.off \in Nat /\ e.size \in Nat \ {0}
            /\ \A b \in blocks : Disjoint(e, b)
            => /\ Disjoint(e, got)
               /\ \A b \in after : Disjoint(e, b)
  /\ \A p \in Nat : (\A b \in blocks : End(b) <= p)
            => /\ got.off + got.size <= p
               /\ \A b \in after : End(b) <= p

\* Taking the best fit, with its tail put back, takes exactly the granted bytes.
LEMMA TakeBestFitCorrect ==
  ASSUME NEW blocks, blocks \subseteq Blocks, Coalesced(blocks),
         NEW size \in Nat \ {0}, Fitting(blocks, size) # {}
  PROVE  TakesOnly([off |-> BestFit(blocks, size).off, size |-> size],
                   blocks, TakeBestFit(blocks, size))
<1> DEFINE b == BestFit(blocks, size)
           rest == blocks \ {b}
           off == b.off + size
           tail == b.size - size
           after == TakeBestFit(blocks, size)
           got == [off |-> b.off, size |-> size]
<1>1. b \in blocks /\ b \in Blocks /\ b.size >= size
  BY BestFitFits DEF Fitting
<1>2. after = InsertFreeBlock(rest, off, tail)
  BY DEF TakeBestFit
<1> HIDE DEF b
<1>3. b.off \in Nat /\ b.size \in Nat \ {0} /\ off \in Nat /\ tail \in Nat
  BY <1>1 DEF Blocks
<1>4. rest \subseteq Blocks /\ Coalesced(rest)
  BY DEF Coalesced
<1>5. \A c \in rest : Disjoint(c, b) /\ Disjoint(b, c)
  BY <1>1 DEF Coalesced, Disjoint
<1>6. \A c \in rest : Disjoint(got, c)
  BY <1>3, <1>4, <1>5, <1>1 DEF Disjoint, End, Blocks
<1>7. \A e : /\ e.off \in Nat /\ e.size \in Nat \ {0}
             /\ \A c \in blocks : Disjoint(e, c)
             => Disjoint(e, got)
  BY <1>1, <1>3 DEF Disjoint, End
<1>8. CASE tail = 0
  <2>1. after = rest
    BY <1>2, <1>8 DEF InsertFreeBlock
  <2>2. b.size = size /\ got.size = size
    BY <1>3, <1>8
  <2>3. \A x \in Nat : (\E c \in blocks : InBlock(x, c)) =>
                          \/ \E c \in rest : InBlock(x, c)
                          \/ got.off <= x /\ x < got.off + size
    BY <2>2 DEF InBlock, End
  <2>4. got.off \in Nat /\ \E c \in blocks : c.off = got.off /\ size <= c.size
    BY <1>1, <1>3
  <2>5. \A p \in Nat : (\A c \in blocks : End(c) <= p) => got.off + size <= p
    BY <1>1, <2>2 DEF End
  <2>6. \A c \in rest : c \in blocks
    OBVIOUS
  <2>7. TakesOnly(got, blocks, rest)
    <3> HIDE DEF rest, got
    <3>1. QED
      BY <1>4, <1>6, <1>7, <2>2, <2>3, <2>4, <2>5, <2>6 DEF TakesOnly
  <2> HIDE DEF rest, after
  <2>8. QED
    BY <2>1, <2>7 DEF after, b
<1>9. CASE tail # 0
  <2> DEFINE new == [off |-> off, size |-> tail]
  <2>1. tail \in Nat \ {0} /\ End(b) = off + tail /\ got.off + size = off
    BY <1>3, <1>9 DEF End
  <2>2. \A c \in rest : Disjoint(c, new)
    BY <1>3, <1>4, <1>5, <2>1 DEF Disjoint, End, Blocks
  <2>3. /\ after \subseteq Blocks
        /\ Coalesced(after)
        /\ \A x \in Nat : (\E c \in after : InBlock(x, c)) <=>
               (\/ \E c \in rest : InBlock(x, c)
                \/ off <= x /\ x < off + tail)
        /\ \A e : /\ e.off \in Nat /\ e.size \in Nat \ {0}
                  /\ \A c \in rest : Disjoint(e, c)
                  /\ Disjoint(e, new)
                  => \A c \in after : Disjoint(e, c)
        /\ \A p \in Nat : (\A c \in rest : End(c) <= p) /\ off + tail <= p
                  => \A c \in after : End(c) <= p
    <3> HIDE DEF rest, off, tail, after
    <3>1. QED
      BY <1>2, <1>3, <1>4, <2>1, <2>2, InsertFreeBlockCorrect
  <2>4. \A c \in after : Disjoint(got, c)
    <3>1. Disjoint(got, new)
      BY <1>3, <2>1 DEF Disjoint, End
    <3> HIDE DEF rest, after
    <3>2. got.off \in Nat /\ got.size \in Nat \ {0}
      BY <1>3
    <3>3. QED
      BY <1>6, <2>3, <3>1, <3>2
  <2>5. \A x \in Nat : (\E c \in blocks : InBlock(x, c)) =>
                          \/ \E c \in after : InBlock(x, c)
                          \/ got.off <= x /\ x < got.off + size
    <3> SUFFICES ASSUME NEW x \in Nat, NEW c \in blocks, InBlock(x, c),
                        ~(got.off <= x /\ x < got.off + size)
                 PROVE  \/ \E d \in rest : InBlock(x, d)
                        \/ off <= x /\ x < off + tail
      BY <2>3
    <3>1. CASE c = b
      BY <3>1, <1>3, <2>1 DEF InBlock
    <3>2. CASE c # b
      BY <3>2
    <3>3. QED
      BY <3>1, <3>2
  <2>6. \A e : /\ e.off \in Nat /\ e.size \in Nat \ {0}
               /\ \A c \in blocks : Disjoint(e, c)
               => \A c \in after : Disjoint(e, c)
    <3> SUFFICES ASSUME NEW e, e.off \in Nat, e.size \in Nat \ {0},
                        \A c \in blocks : Disjoint(e, c)
                 PROVE  Disjoint(e, new)
      BY <2>3
    <3>1. End(e) <= b.off \/ End(b) <= e.off
      BY <1>1 DEF Disjoint
    <3>2. QED
      BY <3>1, <1>3, <2>1 DEF Disjoint, End
  <2>7. \A p \in Nat : (\A c \in blocks : End(c) <= p)
                => got.off + size <= p /\ \A c \in after : End(c) <= p
    <3> SUFFICES ASSUME NEW p \in Nat, \A c \in blocks : End(c) <= p
                 PROVE  got.off + size <= p /\ off + tail <= p
      BY <2>3
    <3>1. QED
      BY <1>1, <1>3, <2>1
  <2>8. got.off \in Nat /\ \E c \in blocks : c.off = got.off /\ size <= c.size
    BY <1>1, <1>3
  <2>9. /\ after \subseteq Blocks
        /\ Coalesced(after)
    BY <2>3
  <2>10. got.size = size
    OBVIOUS
  <2>11. TakesOnly(got, blocks, after)
    <3> HIDE DEF rest, off, tail, after, got
    <3>1. QED
      BY <1>7, <2>4, <2>5, <2>6, <2>7, <2>8, <2>9, <2>10 DEF TakesOnly
  <2>12. QED
    BY <2>11 DEF b
<1>10. QED
  BY <1>8, <1>9

-----------------------------------------------------------------------------
(* The invariant, one lemma per action.                                    *)

\* The empty plan satisfies the invariant.
LEMMA InitIInv == Init => IInv
BY DEF Init, IInv, TypeOK, PlanOrder, NoLiveOverlap, ArenaTiled, EntriesInsideArena,
       Coalesced, NoRequest

\* Taking the next tensor of the order only moves the cursor forward.
LEMMA ConsiderIInv ==
  ASSUME IInv, NEW t \in Tensors, NEW first \in FirstUses, NEW last \in LastUses,
         NEW bytes \in ByteSizes, Consider(t, first, last, bytes)
  PROVE  IInv'
<1> USE BestFitAssumption DEF IInv, Consider
<1>1. TypeOK'
  BY DEF TypeOK, Requests
<1>2. PlanOrder'
  BY DEF PlanOrder, TypeOK, EntryRecords, NoRequest
<1>3. NoLiveOverlap' /\ ArenaTiled' /\ EntriesInsideArena'
  BY DEF NoLiveOverlap, ArenaTiled, EntriesInsideArena, InBlock, End, Disjoint, LivesMeet
<1>4. QED
  BY <1>1, <1>2, <1>3

\* Returning the block of an expired tensor keeps the arena tiled.
LEMMA ExpireIInv ==
  ASSUME IInv, NEW t \in Tensors, Expire(t)
  PROVE  IInv'
<1> DEFINE blk == entries[t]
<1>1. /\ blk \in EntryRecords
      /\ blk.off \in Nat /\ blk.size \in Nat \ {0}
      /\ free_blocks \subseteq Blocks /\ Coalesced(free_blocks)
  BY DEF IInv, TypeOK, ArenaTiled, Expire, EntryRecords
<1>2. \A b \in free_blocks : Disjoint(b, [off |-> blk.off, size |-> blk.size])
  BY DEF IInv, ArenaTiled, Expire, Disjoint, End
<1>3. /\ free_blocks' \subseteq Blocks
      /\ Coalesced(free_blocks')
      /\ \A x \in Nat : (\E b \in free_blocks' : InBlock(x, b)) <=>
             (\/ \E b \in free_blocks : InBlock(x, b)
              \/ blk.off <= x /\ x < blk.off + blk.size)
      /\ \A e : /\ e.off \in Nat /\ e.size \in Nat \ {0}
                /\ \A b \in free_blocks : Disjoint(e, b)
                /\ Disjoint(e, [off |-> blk.off, size |-> blk.size])
                => \A b \in free_blocks' : Disjoint(e, b)
      /\ \A p \in Nat : (\A b \in free_blocks : End(b) <= p) /\ blk.off + blk.size <= p
                => \A b \in free_blocks' : End(b) <= p
  <2>1. free_blocks' = InsertFreeBlock(free_blocks, blk.off, blk.size)
    BY DEF Expire
  <2> HIDE DEF blk
  <2>2. QED
    BY <1>1, <1>2, <2>1, InsertFreeBlockCorrect
<1>4. TypeOK'
  BY <1>3 DEF IInv, TypeOK, Expire
<1>5. PlanOrder'
  BY DEF IInv, TypeOK, PlanOrder, Expire, Expired
<1>6. NoLiveOverlap' /\ EntriesInsideArena'
  BY DEF IInv, NoLiveOverlap, EntriesInsideArena, Expire, End, Disjoint, LivesMeet
<1>7. ArenaTiled'
  <2>1. active' = active \ {t} /\ entries' = entries /\ peak' = peak /\ t \in active
    BY DEF Expire
  <2>2. \A u, v \in active' : u # v => Disjoint(entries[u], entries[v])
    BY <2>1 DEF IInv, ArenaTiled
  <2>3. \A u \in active', b \in free_blocks' : Disjoint(entries[u], b)
    <3> SUFFICES ASSUME NEW u \in active'
                 PROVE  \A b \in free_blocks' : Disjoint(entries[u], b)
      OBVIOUS
    <3>1. entries[u].off \in Nat /\ entries[u].size \in Nat \ {0}
      BY <2>1 DEF IInv, TypeOK, EntryRecords
    <3>2. Disjoint(entries[u], [off |-> blk.off, size |-> blk.size])
      BY <2>1 DEF IInv, ArenaTiled, Disjoint, End
    <3>3. \A b \in free_blocks : Disjoint(entries[u], b)
      BY <2>1 DEF IInv, ArenaTiled
    <3> HIDE DEF blk
    <3>4. QED
      BY <1>3, <3>1, <3>2, <3>3
  <2>4. \A x \in 0 .. peak - 1 : \/ \E u \in active' : InBlock(x, entries[u])
                                 \/ \E b \in free_blocks' : InBlock(x, b)
    <3> SUFFICES ASSUME NEW x \in 0 .. peak - 1
                 PROVE  \/ \E u \in active' : InBlock(x, entries[u])
                        \/ \E b \in free_blocks' : InBlock(x, b)
      OBVIOUS
    <3>1. x \in Nat
      BY DEF IInv, TypeOK
    <3>2. \/ \E u \in active : InBlock(x, entries[u])
          \/ \E b \in free_blocks : InBlock(x, b)
      BY DEF IInv, ArenaTiled
    <3>3. InBlock(x, blk) => blk.off <= x /\ x < blk.off + blk.size
      BY DEF InBlock, End
    <3> HIDE DEF blk
    <3>4. QED
      BY <1>3, <2>1, <3>1, <3>2, <3>3 DEF blk
  <2>5. \A b \in free_blocks' : End(b) <= peak
    <3>1. blk.off + blk.size <= peak /\ peak \in Nat
      BY <2>1 DEF IInv, TypeOK, EntriesInsideArena, End
    <3> HIDE DEF blk
    <3>2. QED
      BY <1>3, <3>1 DEF IInv, ArenaTiled
  <2>6. QED
    BY <1>3, <2>1, <2>2, <2>3, <2>4, <2>5 DEF ArenaTiled
<1>8. QED
  BY <1>4, <1>5, <1>6, <1>7 DEF IInv

\* Closing the plan changes no block.
LEMMA FinishIInv ==
  ASSUME IInv, Finish
  PROVE  IInv'
<1> USE BestFitAssumption DEF IInv, Finish
<1>1. TypeOK' /\ PlanOrder' /\ NoLiveOverlap' /\ ArenaTiled'
  BY DEF TypeOK, PlanOrder, NoLiveOverlap, ArenaTiled, InBlock, End, Disjoint, LivesMeet
<1>2. EntriesInsideArena'
  <2>1. \A t \in DOMAIN entries : End(entries[t]) \in Nat
    BY DEF TypeOK, EntryRecords, End
  <2>2. QED
    BY <2>1 DEF TypeOK, EntriesInsideArena, End
<1>3. QED
  BY <1>1, <1>2

\* A new entry whose block meets no active and no free one keeps the invariant:
\* the tensors it could still overlap have expired, so they do not live with it.
LEMMA AddEntryIInv ==
  ASSUME IInv, ExpiryDone, NEW off \in Nat, NEW size \in Nat \ {0},
         AddEntry(off, size),
         free_blocks' \subseteq Blocks, Coalesced(free_blocks'),
         peak' \in Nat, peak <= peak', off + size <= peak',
         \A a \in active : Disjoint(entries[a], [off |-> off, size |-> size]),
         \A a \in active, b \in free_blocks' : Disjoint(entries[a], b),
         \A b \in free_blocks' : Disjoint([off |-> off, size |-> size], b),
         \A b \in free_blocks' : End(b) <= peak',
         \A x \in 0 .. peak' - 1 : \/ \E a \in active : InBlock(x, entries[a])
                                   \/ \E b \in free_blocks' : InBlock(x, b)
                                   \/ off <= x /\ x < off + size
  PROVE  IInv'
<1> DEFINE t == request.tensor_id
           blk == [off |-> off, size |-> size,
                   first |-> request.first, last |-> request.last]
<1>1. /\ t \in Tensors /\ t \notin DOMAIN entries
      /\ blk \in EntryRecords
      /\ request.first = cursor[1] /\ request.first <= request.last
      /\ status = "planning"
  BY DEF IInv, TypeOK, PlanOrder, ExpiryDone, Requests, EntryRecords
<1>2. /\ DOMAIN entries' = DOMAIN entries \cup {t}
      /\ entries'[t] = blk
      /\ \A u \in DOMAIN entries : entries'[u] = entries[u]
      /\ active' = active \cup {t}
      /\ request' = NoRequest /\ cursor' = cursor /\ status' = status
  BY <1>1 DEF AddEntry
<1>3. entries' = [x \in DOMAIN entries' |-> entries'[x]]
  BY DEF AddEntry
<1>4. /\ \A u \in DOMAIN entries : entries[u] \in EntryRecords
      /\ active \subseteq DOMAIN entries
  BY DEF IInv, TypeOK
<1>5. /\ blk.off = off /\ blk.size = size
      /\ blk.first = request.first /\ blk.last = request.last
  OBVIOUS
<1> HIDE DEF t, blk
<1>6. TypeOK'
  <2>1. entries' \in [DOMAIN entries' -> EntryRecords]
    BY <1>1, <1>2, <1>3, <1>4
  <2>2. QED
    BY <1>1, <1>2, <2>1 DEF IInv, TypeOK
<1>7. PlanOrder'
  <2>1. \A u \in DOMAIN entries' : entries'[u].first <= cursor'[1]
    BY <1>1, <1>2, <1>5 DEF IInv, PlanOrder, EntryRecords
  <2>2. \A u \in DOMAIN entries' \ active' : entries'[u].last < cursor'[1]
    BY <1>2, <1>4 DEF IInv, PlanOrder
  <2>3. QED
    BY <1>2, <2>1, <2>2 DEF PlanOrder
<1>8. NoLiveOverlap'
  <2>1. \A u \in DOMAIN entries : LivesMeet(blk, entries[u]) => Disjoint(blk, entries[u])
    <3> TAKE u \in DOMAIN entries
    <3>1. CASE u \in active
      BY <3>1, <1>5 DEF Disjoint, End
    <3>2. CASE u \notin active
      BY <3>2, <1>1, <1>4, <1>5 DEF IInv, PlanOrder, LivesMeet, EntryRecords
    <3>3. QED
      BY <3>1, <3>2
  <2>2. \A u \in DOMAIN entries : LivesMeet(entries[u], blk) => Disjoint(entries[u], blk)
    BY <2>1 DEF LivesMeet, Disjoint
  <2>3. QED
    BY <1>2, <2>1, <2>2 DEF IInv, NoLiveOverlap
<1>9. ArenaTiled'
  <2>1. \A u, v \in active' : u # v => Disjoint(entries'[u], entries'[v])
    <3>1. \A u \in active : Disjoint(entries[u], blk) /\ Disjoint(blk, entries[u])
      BY <1>5 DEF Disjoint, End
    <3>2. QED
      BY <1>2, <1>4, <3>1 DEF IInv, ArenaTiled
  <2>2. \A u \in active', b \in free_blocks' : Disjoint(entries'[u], b)
    <3>1. \A b \in free_blocks' : Disjoint(blk, b)
      BY <1>5 DEF Disjoint, End
    <3>2. QED
      BY <1>2, <1>4, <3>1
  <2>3. \A x \in 0 .. peak' - 1 : \/ \E u \in active' : InBlock(x, entries'[u])
                                  \/ \E b \in free_blocks' : InBlock(x, b)
    <3> SUFFICES ASSUME NEW x \in 0 .. peak' - 1
                 PROVE  \/ \E u \in active' : InBlock(x, entries'[u])
                        \/ \E b \in free_blocks' : InBlock(x, b)
      OBVIOUS
    <3>1. CASE \E a \in active : InBlock(x, entries[a])
      BY <3>1, <1>2, <1>4
    <3>2. CASE off <= x /\ x < off + size
      BY <3>2, <1>2, <1>5 DEF InBlock, End
    <3>3. QED
      BY <3>1, <3>2
  <2>4. QED
    BY <2>1, <2>2, <2>3 DEF ArenaTiled
<1>10. EntriesInsideArena'
  <2>1. \A u \in DOMAIN entries' : End(entries'[u]) <= peak'
    <3>1. End(blk) <= peak'
      BY <1>5 DEF End
    <3>2. \A u \in DOMAIN entries : End(entries[u]) <= peak'
      BY <1>4 DEF IInv, TypeOK, EntriesInsideArena, End, EntryRecords
    <3>3. QED
      BY <1>2, <3>1, <3>2 DEF End
  <2>2. QED
    BY <1>1, <1>2, <2>1 DEF EntriesInsideArena
<1>11. QED
  BY <1>6, <1>7, <1>8, <1>9, <1>10 DEF IInv

\* A tensor that fits takes the best free block.
LEMMA PlaceInFreeIInv ==
  ASSUME IInv, PlaceInFree
  PROVE  IInv'
<1> DEFINE size == Align(request.bytes)
           got == [off |-> BestFit(free_blocks, size).off, size |-> size]
<1>1. size \in Nat \ {0}
  BY AlignType DEF IInv, TypeOK, PlaceInFree, ExpiryDone, Requests
<1>2. /\ free_blocks \subseteq Blocks /\ Coalesced(free_blocks)
      /\ Fitting(free_blocks, size) # {}
      /\ ExpiryDone /\ AddEntry(got.off, size)
      /\ free_blocks' = TakeBestFit(free_blocks, size) /\ peak' = peak
  BY DEF IInv, TypeOK, ArenaTiled, PlaceInFree
<1> HIDE DEF size
<1>3. TakesOnly(got, free_blocks, free_blocks') /\ got.size = size
  BY <1>1, <1>2, TakeBestFitCorrect
<1> HIDE DEF got
<1>4. \A a \in active : /\ Disjoint(entries[a], got)
                        /\ \A b \in free_blocks' : Disjoint(entries[a], b)
  <2>1. \A a \in active : /\ entries[a].off \in Nat /\ entries[a].size \in Nat \ {0}
                          /\ \A b \in free_blocks : Disjoint(entries[a], b)
    BY DEF IInv, TypeOK, ArenaTiled, EntryRecords
  <2>2. QED
    BY <1>3, <2>1 DEF TakesOnly
<1>5. got.off + size <= peak /\ \A b \in free_blocks' : End(b) <= peak
  BY <1>3 DEF TakesOnly, IInv, TypeOK, ArenaTiled
<1>6. \A x \in 0 .. peak - 1 : \/ \E a \in active : InBlock(x, entries[a])
                               \/ \E b \in free_blocks' : InBlock(x, b)
                               \/ got.off <= x /\ x < got.off + size
  <2> TAKE x \in 0 .. peak - 1
  <2>1. x \in Nat
    BY DEF IInv, TypeOK
  <2>2. \/ \E a \in active : InBlock(x, entries[a])
        \/ \E b \in free_blocks : InBlock(x, b)
    BY DEF IInv, ArenaTiled
  <2>3. QED
    BY <1>3, <2>1, <2>2 DEF TakesOnly
<1>7. \A a \in active : Disjoint(entries[a], [off |-> got.off, size |-> size])
  BY <1>3, <1>4 DEF Disjoint, End
<1>8. \A b \in free_blocks' : Disjoint([off |-> got.off, size |-> size], b)
  BY <1>3 DEF TakesOnly, Disjoint, End
<1>9. peak \in Nat /\ got.off \in Nat /\ free_blocks' \subseteq Blocks /\ Coalesced(free_blocks')
  BY <1>3 DEF IInv, TypeOK, TakesOnly
<1>10. QED
  BY <1>1, <1>2, <1>4, <1>5, <1>6, <1>7, <1>8, <1>9, AddEntryIInv

\* A tensor that fits nowhere goes on top of the arena.
LEMMA PlaceAtPeakIInv ==
  ASSUME IInv, PlaceAtPeak
  PROVE  IInv'
<1> DEFINE size == Align(request.bytes)
           got == [off |-> peak, size |-> size]
<1>1. size \in Nat \ {0}
  BY AlignType DEF IInv, TypeOK, PlaceAtPeak, ExpiryDone, Requests
<1>2. /\ ExpiryDone /\ AddEntry(peak, size)
      /\ free_blocks' = free_blocks /\ peak' = peak + size
  BY DEF PlaceAtPeak
<1> HIDE DEF size
<1>3. peak \in Nat /\ free_blocks' \subseteq Blocks /\ Coalesced(free_blocks')
  BY <1>2 DEF IInv, TypeOK, ArenaTiled
<1>4. /\ \A a \in active : Disjoint(entries[a], got)
      /\ \A a \in active, b \in free_blocks' : Disjoint(entries[a], b)
      /\ \A b \in free_blocks' : Disjoint(got, b)
  BY <1>2 DEF IInv, TypeOK, ArenaTiled, EntriesInsideArena, Disjoint, End
<1>5. \A b \in free_blocks' : End(b) <= peak'
  <2>1. \A b \in free_blocks : End(b) \in Nat /\ End(b) <= peak
    BY DEF IInv, TypeOK, ArenaTiled, Blocks, End
  <2>2. QED
    BY <1>1, <1>2, <1>3, <2>1
<1>6. \A x \in 0 .. peak' - 1 : \/ \E a \in active : InBlock(x, entries[a])
                                \/ \E b \in free_blocks' : InBlock(x, b)
                                \/ peak <= x /\ x < peak + size
  BY <1>1, <1>2, <1>3 DEF IInv, ArenaTiled
<1>7. QED
  BY <1>1, <1>2, <1>3, <1>4, <1>5, <1>6, AddEntryIInv

\* Every step of the loop keeps the invariant.
LEMMA NextIInv == IInv /\ [Next]_vars => IInv'
<1> SUFFICES ASSUME IInv, [Next]_vars
             PROVE  IInv'
  OBVIOUS
<1>1. CASE UNCHANGED vars
  BY <1>1 DEF vars, IInv, TypeOK, PlanOrder, NoLiveOverlap, ArenaTiled,
              EntriesInsideArena, InBlock, End, Disjoint, LivesMeet, Coalesced
<1>2. CASE Next
  BY <1>2, ConsiderIInv, ExpireIInv, PlaceInFreeIInv, PlaceAtPeakIInv, FinishIInv
     DEF Next, Step
<1>3. QED
  BY <1>1, <1>2

-----------------------------------------------------------------------------
(* The theorems.                                                           *)

\* plan_memory keeps its invariant for all tensors, lives, sizes and limits.
THEOREM PlanInvariant == Spec => []IInv
BY InitIInv, NextIInv, PTL DEF Spec

\* The state of the loop always has its type.
THEOREM TypeCorrect == Spec => []TypeOK
BY PlanInvariant, PTL DEF IInv

\* No two tensors that are needed at the same node share a byte of the arena.
THEOREM LiveTensorsDisjoint == Spec => []NoLiveOverlap
BY PlanInvariant, PTL DEF IInv

\* The active blocks and the coalesced free list tile the arena.
THEOREM ArenaAlwaysTiled == Spec => []ArenaTiled
BY PlanInvariant, PTL DEF IInv

\* Every entry lies in the arena, and within the target's limit once accepted.
THEOREM EntriesFit == Spec => []EntriesInsideArena
BY PlanInvariant, PTL DEF IInv

-----------------------------------------------------------------------------
(* Alignment.                                                              *)

\* A multiple of the alignment, as best fit and merging see it.
LEMMA AlignIsMultiple == \A n \in Nat : Align(n) % ALIGNMENT = 0
BY DEF Align, ALIGNMENT

\* Merging and splitting add and subtract multiples of 16.
LEMMA InsertAligned ==
  ASSUME NEW blocks, blocks \subseteq Blocks,
         NEW off \in Nat, NEW size \in Nat,
         off % ALIGNMENT = 0, size % ALIGNMENT = 0,
         \A b \in blocks : b.off % ALIGNMENT = 0 /\ b.size % ALIGNMENT = 0
  PROVE  \A b \in InsertFreeBlock(blocks, off, size) :
            b.off % ALIGNMENT = 0 /\ b.size % ALIGNMENT = 0
<1> DEFINE left  == {b \in blocks : End(b) = off}
           right == {b \in blocks : b.off = off + size}
           low   == IF left = {} THEN off ELSE (CHOOSE b \in left : TRUE).off
           high  == IF right = {} THEN off + size ELSE End(CHOOSE b \in right : TRUE)
<1>1. low \in Nat /\ low % ALIGNMENT = 0
  <2>1. CASE left = {}
    BY <2>1
  <2>2. CASE left # {}
    <3>1. (CHOOSE b \in left : TRUE) \in blocks
      BY <2>2
    <3>2. QED
      BY <2>2, <3>1 DEF Blocks
  <2>3. QED
    BY <2>1, <2>2
<1>2. high \in Nat /\ high % ALIGNMENT = 0
  <2>1. CASE right = {}
    BY <2>1 DEF ALIGNMENT
  <2>2. CASE right # {}
    <3> DEFINE r == CHOOSE b \in right : TRUE
    <3>1. r \in blocks /\ high = End(r)
      BY <2>2
    <3> HIDE DEF r, high
    <3>2. QED
      BY <3>1 DEF Blocks, End, ALIGNMENT
  <2>3. QED
    BY <2>1, <2>2
<1> HIDE DEF low, high
<1>3. (high - low) % ALIGNMENT = 0
  BY <1>1, <1>2 DEF ALIGNMENT
<1>4. InsertFreeBlock(blocks, off, size) \subseteq
         blocks \cup {[off |-> low, size |-> high - low]}
  BY DEF InsertFreeBlock, low, high
<1>5. QED
  BY <1>1, <1>3, <1>4

\* Every step of the loop keeps offsets and sizes multiples of 16.
LEMMA NextAligned == IInv /\ Aligned /\ [Next]_vars => Aligned'
<1> SUFFICES ASSUME IInv, Aligned, [Next]_vars
             PROVE  Aligned'
  OBVIOUS
<1>1. ASSUME NEW t \in Tensors, Expire(t)
      PROVE  Aligned'
  <2>1. \A b \in free_blocks' : b.off % ALIGNMENT = 0 /\ b.size % ALIGNMENT = 0
    <3>1. /\ entries[t].off \in Nat /\ entries[t].size \in Nat
          /\ entries[t].off % ALIGNMENT = 0 /\ entries[t].size % ALIGNMENT = 0
          /\ free_blocks \subseteq Blocks
      BY <1>1 DEF Aligned, IInv, TypeOK, EntryRecords, Expire
    <3>2. QED
      BY <1>1, <3>1, InsertAligned DEF Aligned, Expire
  <2>2. QED
    BY <1>1, <2>1 DEF Aligned, Expire
<1>2. ASSUME NEW off \in Nat, NEW size \in Nat, AddEntry(off, size),
             off % ALIGNMENT = 0, size % ALIGNMENT = 0
      PROVE  \A t \in DOMAIN entries' : /\ entries'[t].off % ALIGNMENT = 0
                                        /\ entries'[t].size % ALIGNMENT = 0
  BY <1>2 DEF AddEntry, Aligned
<1>3. CASE PlaceInFree
  <2> DEFINE size == Align(request.bytes)
             b == BestFit(free_blocks, size)
  <2>1. size \in Nat \ {0} /\ size % ALIGNMENT = 0
    BY <1>3, AlignType, AlignIsMultiple
       DEF IInv, TypeOK, PlaceInFree, ExpiryDone, Requests
  <2>2. /\ AddEntry(b.off, size) /\ peak' = peak
        /\ free_blocks' = InsertFreeBlock(free_blocks \ {b}, b.off + size, b.size - size)
        /\ Fitting(free_blocks, size) # {} /\ free_blocks \subseteq Blocks
    BY <1>3 DEF PlaceInFree, TakeBestFit, IInv, TypeOK
  <2> HIDE DEF size
  <2>3. b \in Fitting(free_blocks, size)
    BY <2>1, <2>2, BestFitFits
  <2> HIDE DEF b
  <2>4. /\ b.off \in Nat /\ b.off % ALIGNMENT = 0
        /\ b.off + size \in Nat /\ (b.off + size) % ALIGNMENT = 0
        /\ b.size - size \in Nat /\ (b.size - size) % ALIGNMENT = 0
    BY <2>1, <2>2, <2>3 DEF Fitting, Blocks, Aligned, ALIGNMENT
  <2>5. \A c \in free_blocks' : c.off % ALIGNMENT = 0 /\ c.size % ALIGNMENT = 0
    BY <2>2, <2>4, InsertAligned DEF Aligned
  <2>6. QED
    BY <1>2, <2>1, <2>2, <2>4, <2>5 DEF Aligned
<1>4. CASE PlaceAtPeak
  <2> DEFINE size == Align(request.bytes)
  <2>1. size \in Nat \ {0} /\ size % ALIGNMENT = 0
    BY <1>4, AlignType, AlignIsMultiple
       DEF IInv, TypeOK, PlaceAtPeak, ExpiryDone, Requests
  <2>2. AddEntry(peak, size) /\ free_blocks' = free_blocks /\ peak' = peak + size
    BY <1>4 DEF PlaceAtPeak
  <2> HIDE DEF size
  <2>3. peak \in Nat /\ peak % ALIGNMENT = 0 /\ (peak + size) % ALIGNMENT = 0
    BY <2>1 DEF IInv, TypeOK, Aligned, ALIGNMENT
  <2>4. QED
    BY <1>2, <2>1, <2>2, <2>3 DEF Aligned
<1>5. ASSUME UNCHANGED <<entries, free_blocks, peak>>
      PROVE  Aligned'
  BY <1>5 DEF Aligned
<1>6. QED
  BY <1>1, <1>3, <1>4, <1>5 DEF Next, Step, Consider, Finish, vars

\* Offsets and sizes are multiples of 16 for every input.
THEOREM AlwaysAligned == Spec => []Aligned
<1>1. Init => Aligned
  BY DEF Init, Aligned, ALIGNMENT
<1>2. QED
  BY <1>1, PlanInvariant, NextAligned, PTL DEF Spec

-----------------------------------------------------------------------------
(* Refinement.                                                             *)

\* Every step of the loop is an allowed step of the abstract arena.
LEMMA StepImplements ==
  IInv /\ IInv' /\ [Next]_vars => [Abstract!Next]_(Abstract!vars)
<1> SUFFICES ASSUME IInv, IInv', Next
             PROVE  Abstract!Next \/ UNCHANGED Abstract!vars
  BY DEF vars, Abstract!vars
<1>1. ASSUME NEW t \in Tensors, NEW first \in FirstUses, NEW last \in LastUses,
             NEW bytes \in ByteSizes, Consider(t, first, last, bytes)
      PROVE  Abstract!Advance
  <2>1. cursor' = <<first, t>> /\ first \in Nat /\ first >= cursor[1]
    BY <1>1, BestFitAssumption DEF Consider, IInv, TypeOK
  <2>2. QED
    BY <1>1, <2>1 DEF Consider, Abstract!Advance
<1>2. ASSUME NEW t \in Tensors, Expire(t)
      PROVE  Abstract!Release(t)
  BY <1>2 DEF Expire, Expired, Abstract!Release, IInv, PlanOrder
<1>3. ASSUME NEW off, NEW size, AddEntry(off, size), ExpiryDone, peak <= peak'
      PROVE  \E t \in Tensors : Abstract!Grant(t)
  <2> DEFINE t == request.tensor_id
  <2>1. t \in Tensors /\ t \notin DOMAIN entries /\ request.first = cursor[1]
    BY <1>3 DEF IInv, TypeOK, PlanOrder, ExpiryDone, Requests
  <2>2. /\ DOMAIN entries' = DOMAIN entries \cup {t}
        /\ \A x \in DOMAIN entries : entries'[x] = entries[x]
        /\ entries'[t].first = request.first
        /\ active' = active \cup {t} /\ cursor' = cursor
    BY <1>3, <2>1 DEF AddEntry
  <2> HIDE DEF t
  <2>3. entries'[t] \in Abstract!Regions /\ peak' \in Nat
    BY <2>2 DEF IInv, TypeOK, EntryRecords, Abstract!Regions
  <2>4. \A h \in active : Abstract!Apart(entries'[t], entries[h])
    <3> SUFFICES ASSUME NEW h \in active
                 PROVE  Abstract!Apart(entries'[t], entries[h])
      OBVIOUS
    <3>1. h \in DOMAIN entries /\ h # t /\ h \in active' /\ t \in active'
      BY <2>1, <2>2 DEF IInv, TypeOK
    <3>2. Disjoint(entries'[t], entries'[h])
      BY <3>1 DEF IInv, ArenaTiled, Disjoint, End
    <3>3. QED
      BY <2>2, <3>1, <3>2 DEF Disjoint, End, Abstract!Apart
  <2>5. entries'[t].off + entries'[t].size <= peak'
    BY <2>2 DEF IInv, EntriesInsideArena, End
  <2>6. Abstract!Grant(t)
    BY <1>3, <2>1, <2>2, <2>3, <2>4, <2>5 DEF Abstract!Grant
  <2>7. QED
    BY <2>1, <2>6
<1>4. CASE PlaceInFree
  BY <1>3, <1>4 DEF PlaceInFree, Abstract!Next, IInv, TypeOK
<1>5. CASE PlaceAtPeak
  <2>1. peak <= peak'
    BY <1>5, AlignType DEF PlaceAtPeak, ExpiryDone, IInv, TypeOK, Requests
  <2>2. QED
    BY <1>3, <1>5, <2>1 DEF PlaceAtPeak, Abstract!Next
<1>6. CASE Finish
  BY <1>6 DEF Finish, Abstract!vars
<1>7. QED
  BY <1>1, <1>2, <1>4, <1>5, <1>6 DEF Next, Step, Abstract!Next

\* plan_memory's loop implements the arena of module Arena.
THEOREM PlannerImplementsArena == Spec => ImplementsArena
<1>1. Init => Abstract!Init
  BY DEF Init, Abstract!Init
<1>2. QED
  BY <1>1, PlanInvariant, StepImplements, PTL DEF Spec, Abstract!Spec, ImplementsArena
=============================================================================
