---------------------- MODULE BestFitArenaList_proofs -----------------------
(***************************************************************************)
(* Proofs about the lists of the packing loop: for every set of tensors,   *)
(* of lives and of sizes, the sorted list that is merged in one pass and   *)
(* the list that is rebuilt while it is scanned do what the sets of        *)
(* BestFitArena do, so that its theorems are theorems about the lists.     *)
(***************************************************************************)
EXTENDS BestFitArenaList, NaturalOrder, SequenceTheorems

\* BestFitArena with its theorems, on the sets of the lists' elements.
P == INSTANCE BestFitArena_proofs WITH
  active <- ToSet(active) \cup ToSet(still_active),
  free_blocks <- ToSet(free_list)

-----------------------------------------------------------------------------
(* Sets of blocks.                                                         *)

\* The numbers of a block.
LEMMA BlockNumbers ==
  ASSUME NEW b \in P!Blocks
  PROVE  /\ b.off \in Nat /\ b.size \in Nat \ {0}
         /\ P!End(b) = b.off + b.size /\ P!End(b) \in Nat
BY DEF P!Blocks, P!End

\* A block that begins where another one has ended begins higher.
LEMMA BeginsHigher ==
  ASSUME NEW a \in P!Blocks, NEW b \in P!Blocks, P!End(a) <= b.off
  PROVE  a.off < b.off /\ ~(P!End(b) <= a.off)
<1>1. /\ a.off \in Nat /\ a.size \in Nat \ {0} /\ b.off \in Nat /\ b.size \in Nat \ {0}
      /\ P!End(a) = a.off + a.size /\ P!End(b) = b.off + b.size
  BY BlockNumbers
<1>2. QED
  BY <1>1

\* Coalesced sets of blocks that cover the same bytes are the same.
LEMMA CoverDetermines ==
  ASSUME NEW A, A \subseteq P!Blocks, P!Coalesced(A),
         NEW B, B \subseteq P!Blocks, P!Coalesced(B),
         \A x \in Nat : (\E a \in A : P!InBlock(x, a)) <=> (\E b \in B : P!InBlock(x, b))
  PROVE  A \subseteq B
<1> SUFFICES ASSUME NEW a \in A PROVE a \in B
  OBVIOUS
<1>1. a.off \in Nat /\ a.size \in Nat \ {0} /\ P!InBlock(a.off, a)
  BY DEF P!Blocks, P!InBlock, P!End
<1>2. PICK b \in B : P!InBlock(a.off, b)
  BY <1>1
<1>3. b.off \in Nat /\ b.size \in Nat \ {0}
  BY DEF P!Blocks
<1>4. b.off = a.off
  <2> SUFFICES ASSUME b.off # a.off PROVE FALSE
    OBVIOUS
  <2>1. b.off <= a.off - 1 /\ a.off - 1 \in Nat /\ P!InBlock(a.off - 1, b)
    BY <1>1, <1>2, <1>3 DEF P!InBlock, P!End
  <2>2. PICK c \in A : P!InBlock(a.off - 1, c)
    BY <2>1
  <2>3. c.off \in Nat /\ c.size \in Nat \ {0} /\ c.off <= a.off - 1 /\ a.off - 1 < c.off + c.size
    BY <2>2 DEF P!Blocks, P!InBlock, P!End
  <2>4. c # a
    BY <1>1, <2>3
  <2>5. P!Disjoint(a, c) /\ P!End(c) # a.off
    BY <2>4 DEF P!Coalesced
  <2>6. QED
    BY <1>1, <2>3, <2>5 DEF P!Disjoint, P!End
<1>5. b.size <= a.size
  <2> SUFFICES ASSUME ~(b.size <= a.size) PROVE FALSE
    OBVIOUS
  <2> DEFINE x == a.off + a.size
  <2>1. x \in Nat /\ P!InBlock(x, b)
    BY <1>1, <1>3, <1>4 DEF P!InBlock, P!End
  <2>2. PICK c \in A : P!InBlock(x, c)
    BY <2>1
  <2>3. c.off \in Nat /\ c.size \in Nat \ {0} /\ c.off <= x /\ x < c.off + c.size
    BY <2>2 DEF P!Blocks, P!InBlock, P!End
  <2>4. c # a
    BY <1>1, <2>3
  <2>5. P!Disjoint(a, c) /\ P!End(a) # c.off
    BY <2>4 DEF P!Coalesced
  <2>6. QED
    BY <1>1, <2>3, <2>5 DEF P!Disjoint, P!End
<1>6. a.size <= b.size
  <2> SUFFICES ASSUME ~(a.size <= b.size) PROVE FALSE
    OBVIOUS
  <2> DEFINE x == b.off + b.size
  <2>1. x \in Nat /\ P!InBlock(x, a)
    BY <1>1, <1>3, <1>4 DEF P!InBlock, P!End
  <2>2. PICK c \in B : P!InBlock(x, c)
    BY <2>1
  <2>3. c.off \in Nat /\ c.size \in Nat \ {0} /\ c.off <= x /\ x < c.off + c.size
    BY <2>2 DEF P!Blocks, P!InBlock, P!End
  <2>4. c # b
    BY <1>3, <2>3
  <2>5. P!Disjoint(b, c) /\ P!End(b) # c.off
    BY <2>4 DEF P!Coalesced
  <2>6. QED
    BY <1>3, <2>3, <2>5 DEF P!Disjoint, P!End
<1>7. a = b
  BY <1>1, <1>3, <1>4, <1>5, <1>6 DEF P!Blocks
<1>8. QED
  BY <1>7

-----------------------------------------------------------------------------
(* Lists of blocks.                                                        *)

\* In order of offset, with room between any two.
Gapped(list) ==
  \A i, j \in 1 .. Len(list) : i < j => P!End(list[i]) < list[j].off

\* In order of offset, perhaps touching.
Ordered(list) ==
  \A i, j \in 1 .. Len(list) : i < j => P!End(list[i]) <= list[j].off

\* The byte x is in one of the first n blocks.
CoveredBy(list, n, x) == \E i \in 1 .. n : P!InBlock(x, list[i])

\* A list of the free list's kind is a coalesced set.
LEMMA GappedIsCoalesced ==
  ASSUME NEW list \in Seq(P!Blocks), Gapped(list)
  PROVE  /\ ToSet(list) \subseteq P!Blocks /\ P!Coalesced(ToSet(list))
         /\ \A x \in Nat : (\E b \in ToSet(list) : P!InBlock(x, b))
                             <=> CoveredBy(list, Len(list), x)
<1>1. /\ Len(list) \in Nat /\ DOMAIN list = 1 .. Len(list)
      /\ \A i \in 1 .. Len(list) : list[i] \in P!Blocks
  OBVIOUS
<1>2. ToSet(list) = {list[i] : i \in 1 .. Len(list)}
  BY <1>1 DEF ToSet
<1>3. ToSet(list) \subseteq P!Blocks
  BY <1>1, <1>2
<1>4. ASSUME NEW i \in 1 .. Len(list), NEW j \in 1 .. Len(list), list[i] # list[j]
      PROVE  P!Disjoint(list[i], list[j]) /\ P!End(list[i]) # list[j].off
  <2>1. list[i] \in P!Blocks /\ list[j] \in P!Blocks
    BY <1>1
  <2>2. i < j \/ j < i
    BY <1>4
  <2>3. P!End(list[i]) < list[j].off \/ P!End(list[j]) < list[i].off
    BY <2>2 DEF Gapped
  <2>4. QED
    BY <2>1, <2>3 DEF P!Disjoint, P!End, P!Blocks
<1>5. P!Coalesced(ToSet(list))
  BY <1>2, <1>4 DEF P!Coalesced
<1>6. QED
  BY <1>2, <1>3, <1>5 DEF CoveredBy

\* The length of a list that got one more block, and its blocks.
LEMMA AppendFacts ==
  ASSUME NEW T, NEW q \in Seq(T), NEW b \in T
  PROVE  LET r == Append(q, b)
         IN  /\ r \in Seq(T) /\ Len(q) \in Nat /\ Len(r) = Len(q) + 1
             /\ DOMAIN r = 1 .. Len(q) + 1 /\ r[Len(q) + 1] = b
             /\ \A i \in 1 .. Len(q) : r[i] = q[i]
  OBVIOUS

\* A list of distinct blocks that is in order but for its last one can be put in
\* order.
LEMMA OrderExists ==
  ASSUME NEW q \in Seq(P!Blocks), Gapped(q), NEW b \in P!Blocks,
         \A i \in 1 .. Len(q) : P!Disjoint(q[i], b)
  PROVE  LET list == Append(q, b)
         IN  \E p \in Bijection(DOMAIN list, DOMAIN list) :
                \A i, j \in DOMAIN list : i < j => Before(list[p[i]], list[p[j]])
<1> DEFINE list == Append(q, b)
           N == Len(q)
           D == 1 .. N + 1
           Lower == {i \in 1 .. N : q[i].off < b.off}
<1>1. /\ N \in Nat /\ DOMAIN list = D /\ list[N + 1] = b
      /\ \A i \in 1 .. N : list[i] = q[i] /\ q[i] \in P!Blocks
  <2> DEFINE T == P!Blocks
  <2>1. q \in Seq(T) /\ b \in T
    OBVIOUS
  <2> HIDE DEF T
  <2>2. /\ N \in Nat /\ DOMAIN list = D /\ list[N + 1] = b
        /\ \A i \in 1 .. N : list[i] = q[i] /\ q[i] \in T
    BY <2>1
  <2>3. QED
    BY <2>2 DEF T
<1> HIDE DEF list, N
<1>2. PICK k \in 0 .. N : \A i \in 1 .. N : i <= k <=> q[i].off < b.off
  <2>1. CASE Lower = {}
    <3>1. 0 \in 0 .. N /\ \A i \in 1 .. N : i <= 0 <=> q[i].off < b.off
      BY <1>1, <2>1
    <3>2. QED
      BY <3>1
  <2>2. CASE Lower # {}
    <3>1. Lower \subseteq 0 .. N
      BY <1>1
    <3> HIDE DEF Lower
    <3>2. PICK k \in Lower : \A i \in Lower : i <= k
      BY <1>1, <2>2, <3>1, GreatestNatural
    <3>3. k \in 1 .. N /\ q[k].off < b.off
      BY <3>2 DEF Lower
    <3>4. ASSUME NEW i \in 1 .. N, i <= k PROVE q[i].off < b.off
      <4>1. i = k \/ P!End(q[i]) < q[k].off
        BY <1>1, <3>3, <3>4 DEF Gapped, N
      <4>2. q[i] \in P!Blocks /\ q[k] \in P!Blocks
        BY <1>1, <3>3
      <4>3. i # k => P!End(q[i]) <= q[k].off
        BY <4>1, <4>2, BlockNumbers
      <4>4. i # k => q[i].off < q[k].off
        BY <4>2, <4>3, BeginsHigher
      <4>5. q[i].off \in Nat /\ q[k].off \in Nat /\ b.off \in Nat
        BY <4>2, BlockNumbers
      <4>6. QED
        BY <3>3, <4>4, <4>5
    <3>5. \A i \in 1 .. N : q[i].off < b.off => i <= k
      BY <3>2 DEF Lower
    <3>6. k \in 0 .. N /\ \A i \in 1 .. N : i <= k <=> q[i].off < b.off
      BY <1>1, <3>3, <3>4, <3>5
    <3>7. QED
      BY <3>6
  <2>3. QED
    BY <2>1, <2>2
<1> DEFINE p == [i \in D |-> IF i <= k THEN i ELSE IF i = k + 1 THEN N + 1 ELSE i - 1]
<1>3. p \in [D -> D]
  BY <1>1
<1>4. \A i, j \in D : p[i] = p[j] => i = j
  BY <1>1
<1>5. \A j \in D : \E i \in D : p[i] = j
  <2> TAKE j \in D
  <2>1. CASE j <= k
    BY <1>1, <2>1
  <2>2. CASE j = N + 1
    <3>1. k + 1 \in D /\ p[k + 1] = N + 1
      BY <1>1
    <3>2. QED
      BY <2>2, <3>1
  <2>3. CASE j > k /\ j # N + 1
    <3>1. j + 1 \in D /\ p[j + 1] = j
      BY <1>1, <2>3
    <3>2. QED
      BY <3>1
  <2>4. QED
    BY <1>1, <2>1, <2>2, <2>3
<1>6. p \in Bijection(D, D)
  <2> HIDE DEF p, D
  <2>1. QED
    BY <1>3, <1>4, <1>5 DEF Bijection, Injection, Surjection, IsInjective
<1>7. ASSUME NEW i \in D, NEW j \in D, i < j
      PROVE  Before(list[p[i]], list[p[j]])
  <2>1. \A m \in 1 .. N : k < m => b.off < q[m].off
    <3> SUFFICES ASSUME NEW m \in 1 .. N, k < m PROVE b.off < q[m].off
      OBVIOUS
    <3>1. ~(q[m].off < b.off) /\ q[m] \in P!Blocks /\ P!Disjoint(q[m], b)
      BY <1>1, <1>2 DEF N
    <3>2. QED
      BY <3>1 DEF P!Disjoint, P!End, P!Blocks
  <2>2. \A m, n \in 1 .. N : m < n => q[m].off < q[n].off
    <3> SUFFICES ASSUME NEW m \in 1 .. N, NEW n \in 1 .. N, m < n PROVE q[m].off < q[n].off
      OBVIOUS
    <3>1. P!End(q[m]) < q[n].off /\ q[m] \in P!Blocks /\ q[n] \in P!Blocks
      BY <1>1 DEF Gapped, N
    <3>2. P!End(q[m]) <= q[n].off
      BY <3>1, BlockNumbers
    <3>3. QED
      BY <3>1, <3>2, BeginsHigher
  <2>3. list[p[i]].off < list[p[j]].off
    <3>1. CASE j <= k
      <4>1. p[i] = i /\ p[j] = j /\ i \in 1 .. N /\ j \in 1 .. N
        BY <1>1, <1>7, <3>1
      <4>2. QED
        BY <1>1, <1>7, <2>2, <4>1
    <3>2. CASE j = k + 1
      <4>1. p[i] = i /\ p[j] = N + 1 /\ i \in 1 .. N /\ i <= k
        BY <1>1, <1>7, <3>2
      <4>2. QED
        BY <1>1, <1>2, <4>1
    <3>3. CASE j > k + 1 /\ i = k + 1
      <4>1. p[i] = N + 1 /\ p[j] = j - 1 /\ j - 1 \in 1 .. N /\ k < j - 1
        BY <1>1, <1>7, <3>3
      <4>2. QED
        BY <1>1, <2>1, <4>1
    <3>4. CASE j > k + 1 /\ i <= k
      <4>1. p[i] = i /\ p[j] = j - 1 /\ i \in 1 .. N /\ j - 1 \in 1 .. N /\ i < j - 1
        BY <1>1, <1>7, <3>4
      <4>2. QED
        BY <1>1, <2>2, <4>1
    <3>5. CASE j > k + 1 /\ i > k + 1
      <4>1. p[i] = i - 1 /\ p[j] = j - 1 /\ i - 1 \in 1 .. N /\ j - 1 \in 1 .. N /\ i - 1 < j - 1
        BY <1>1, <1>7, <3>5
      <4>2. QED
        BY <1>1, <2>2, <4>1
    <3>6. QED
      BY <1>1, <1>7, <3>1, <3>2, <3>3, <3>4, <3>5
  <2>4. QED
    BY <2>3 DEF Before
<1>8. QED
  <2> HIDE DEF p
  <2>1. QED
    BY <1>1, <1>6, <1>7 DEF list

\* free_blocks.sort() on such a list.
LEMMA SortOrders ==
  ASSUME NEW q \in Seq(P!Blocks), Gapped(q), NEW b \in P!Blocks,
         \A i \in 1 .. Len(q) : P!Disjoint(q[i], b)
  PROVE  LET s == Sorted(Append(q, b))
         IN  /\ s \in Seq(P!Blocks) /\ Len(s) = Len(q) + 1 /\ Ordered(s)
             /\ \A x \in Nat : CoveredBy(s, Len(s), x)
                                 <=> CoveredBy(q, Len(q), x) \/ P!InBlock(x, b)
<1> DEFINE list == Append(q, b)
           N == Len(q)
           D == 1 .. N + 1
           InOrder == {p \in Bijection(DOMAIN list, DOMAIN list) :
                         \A i, j \in DOMAIN list : i < j => Before(list[p[i]], list[p[j]])}
           order == CHOOSE p \in InOrder : TRUE
           s == Sorted(list)
           T == P!Blocks
<1>1. InOrder # {}
  BY OrderExists
<1>2. order \in InOrder
  BY <1>1
<1>3. s = [i \in DOMAIN list |-> list[order[i]]]
  BY DEF Sorted
<1> HIDE DEF order, s
<1>4. /\ N \in Nat /\ DOMAIN list = D /\ list[N + 1] = b
      /\ \A i \in 1 .. N : list[i] = q[i] /\ q[i] \in T
  <2>1. q \in Seq(T) /\ b \in T
    OBVIOUS
  <2> HIDE DEF T
  <2>2. QED
    BY <2>1
<1>5. \A i \in D : list[i] \in T
  BY <1>4
<1>6. /\ order \in [D -> D] /\ \A j \in D : \E i \in D : order[i] = j
      /\ \A i, j \in D : order[i] = order[j] => i = j
      /\ \A i, j \in D : i < j => Before(list[order[i]], list[order[j]])
  BY <1>2, <1>4 DEF Bijection, Injection, Surjection, IsInjective
<1>7. ASSUME NEW i \in D, NEW j \in D, i # j
      PROVE  P!End(list[i]) <= list[j].off \/ P!End(list[j]) <= list[i].off
  <2>1. ASSUME NEW m \in 1 .. N, NEW n \in 1 .. N, m < n
        PROVE  P!End(q[m]) <= q[n].off
    <3>1. P!End(q[m]) < q[n].off /\ q[m] \in P!Blocks /\ q[n] \in P!Blocks
      BY <1>4, <2>1 DEF Gapped
    <3>2. P!End(q[m]) \in Nat /\ q[n].off \in Nat
      BY <3>1, BlockNumbers
    <3>3. QED
      BY <3>1, <3>2
  <2>2. \A m \in 1 .. N : P!End(q[m]) <= b.off \/ P!End(b) <= q[m].off
    BY DEF P!Disjoint
  <2>3. (i \in 1 .. N \/ i = N + 1) /\ (j \in 1 .. N \/ j = N + 1)
    BY <1>4
  <2>4. i \in 1 .. N /\ j \in 1 .. N => i < j \/ j < i
    BY <1>4, <1>7
  <2> HIDE DEF list, N
  <2>5. QED
    BY <1>4, <1>7, <2>1, <2>2, <2>3, <2>4
<1> HIDE DEF list, N
<1>8. s \in Seq(T) /\ Len(s) = N + 1 /\ \A i \in D : s[i] = list[order[i]] /\ s[i] \in T
  <2>1. s \in [1 .. N + 1 -> T]
    BY <1>3, <1>4, <1>5, <1>6
  <2>2. \A i \in D : s[i] = list[order[i]]
    BY <1>3, <1>4
  <2> HIDE DEF T
  <2>3. QED
    BY <1>4, <2>1, <2>2
<1>9. Ordered(s)
  <2> SUFFICES ASSUME NEW i \in D, NEW j \in D, i < j PROVE P!End(s[i]) <= s[j].off
    BY <1>8 DEF Ordered
  <2>1. order[i] # order[j] /\ order[i] \in D /\ order[j] \in D
    <3>1. i # j
      BY <1>4
    <3> HIDE DEF D
    <3>2. QED
      BY <1>6, <3>1
  <2>2. P!End(s[i]) <= s[j].off \/ P!End(s[j]) <= s[i].off
    BY <1>7, <1>8, <2>1
  <2>3. s[i] \in T /\ s[j] \in T /\ Before(s[i], s[j])
    BY <1>6, <1>8
  <2>4. s[i].off \in Nat /\ s[j].off \in Nat /\ s[i].off <= s[j].off
    BY <2>3, BlockNumbers DEF Before
  <2>5. P!End(s[j]) <= s[i].off => s[j].off < s[i].off
    BY <2>3, BeginsHigher
  <2>6. QED
    BY <2>2, <2>4, <2>5
<1>10. \A x \in Nat : CoveredBy(s, Len(s), x) <=> CoveredBy(q, N, x) \/ P!InBlock(x, b)
  <2> TAKE x \in Nat
  <2>1. CoveredBy(s, Len(s), x) <=> \E i \in D : P!InBlock(x, list[order[i]])
    BY <1>4, <1>8 DEF CoveredBy
  <2>2. (\E i \in D : P!InBlock(x, list[order[i]])) <=> \E i \in D : P!InBlock(x, list[i])
    BY <1>6
  <2>3. (\E i \in D : P!InBlock(x, list[i])) <=> CoveredBy(q, N, x) \/ P!InBlock(x, b)
    <3>1. \A i : i \in D <=> i \in 1 .. N \/ i = N + 1
      BY <1>4
    <3> HIDE DEF D
    <3>2. QED
      BY <1>4, <3>1 DEF CoveredBy
  <2>4. QED
    BY <2>1, <2>2, <2>3
<1>11. QED
  BY <1>8, <1>9, <1>10 DEF N, list, s

\* What the merging pass has made of the first n blocks of a sorted list.
MergedSoFar(merged, s, n) ==
  /\ merged \in Seq(P!Blocks) /\ Gapped(merged)
  /\ \A x \in Nat : CoveredBy(merged, Len(merged), x) <=> CoveredBy(s, n, x)
  /\ n = 0 => merged = << >>
  /\ n > 0 => /\ merged # << >> /\ Len(merged) > 0
              /\ P!End(merged[Len(merged)]) = P!End(s[n])

\* A block that takes in the one it ends at.
LEMMA GrownBlock ==
  ASSUME NEW a \in P!Blocks, NEW b \in P!Blocks, P!End(a) = b.off
  PROVE  LET grown == [a EXCEPT !.size = @ + b.size]
         IN  grown \in P!Blocks /\ grown.off = a.off /\ P!End(grown) = P!End(b)
BY DEF P!Blocks, P!End

\* One block of the pass.
LEMMA MergeStep ==
  ASSUME NEW s \in Seq(P!Blocks), Ordered(s), NEW n \in Nat, n + 1 <= Len(s),
         NEW merged, MergedSoFar(merged, s, n)
  PROVE  MergedSoFar(MergeNext(merged, s[n + 1]), s, n + 1)
<1> DEFINE b == s[n + 1]
           L == Len(merged)
           last == merged[L]
           r == MergeNext(merged, b)
           T == P!Blocks
<1>1. /\ merged \in Seq(T) /\ L \in Nat /\ DOMAIN merged = 1 .. L
      /\ \A i \in 1 .. L : merged[i] \in T
  BY DEF MergedSoFar
<1>2. Len(s) \in Nat /\ n + 1 \in 1 .. Len(s) /\ b \in T
  OBVIOUS
<1>3. b.off \in Nat /\ b.size \in Nat \ {0} /\ P!End(b) = b.off + b.size
  BY <1>2, BlockNumbers
<1>4. \A x \in Nat : CoveredBy(s, n + 1, x) <=> CoveredBy(merged, L, x) \/ P!InBlock(x, b)
  <2> TAKE x \in Nat
  <2>1. \A i : i \in 1 .. n + 1 <=> i \in 1 .. n \/ i = n + 1
    OBVIOUS
  <2>2. CoveredBy(s, n + 1, x) <=> CoveredBy(s, n, x) \/ P!InBlock(x, b)
    BY <2>1 DEF CoveredBy
  <2>3. QED
    BY <2>2 DEF MergedSoFar
<1>5. ASSUME merged # << >>
      PROVE  /\ L \in 1 .. L /\ last \in T /\ P!End(last) <= b.off
             /\ last.off \in Nat /\ last.size \in Nat \ {0} /\ P!End(last) = last.off + last.size
  <2>1. n > 0 /\ L > 0 /\ P!End(last) = P!End(s[n])
    BY <1>5 DEF MergedSoFar
  <2>2. P!End(s[n]) <= b.off
    BY <1>2, <2>1 DEF Ordered
  <2>3. L \in 1 .. L /\ last \in T
    BY <1>1, <2>1
  <2>4. QED
    BY <2>1, <2>2, <2>3, BlockNumbers
<1>6. \A i, j \in 1 .. L : i < j => P!End(merged[i]) < merged[j].off
  <2>1. Gapped(merged)
    BY DEF MergedSoFar
  <2>2. QED
    BY <2>1 DEF Gapped
<1> HIDE DEF b, L, last
<1>7. CASE merged # << >> /\ P!End(last) = b.off
  <2>1. r = [merged EXCEPT ![L].size = @ + b.size]
    BY <1>5, <1>7 DEF MergeNext, Last, last, L
  <2> DEFINE grown == [last EXCEPT !.size = @ + b.size]
  <2>2. grown \in T /\ grown.off = last.off /\ P!End(grown) = P!End(b)
    BY <1>2, <1>5, <1>7, GrownBlock
  <2>3. r = [merged EXCEPT ![L] = grown]
    BY <2>1 DEF last
  <2> HIDE DEF grown
  <2>4. /\ r \in [1 .. L -> T] /\ r[L] = grown
        /\ \A i \in 1 .. L : i # L => r[i] = merged[i]
    <3> HIDE DEF r, T
    <3>1. merged \in [1 .. L -> T]
      BY <1>1
    <3>2. QED
      BY <1>5, <1>7, <2>2, <2>3, <3>1
  <2> HIDE DEF r
  <2>5. r \in Seq(T) /\ Len(r) = L
    <3> HIDE DEF T
    <3>1. QED
      BY <1>1, <2>4
  <2>6. Gapped(r)
    <3> SUFFICES ASSUME NEW i \in 1 .. L, NEW j \in 1 .. L, i < j
                 PROVE  P!End(r[i]) < r[j].off
      BY <2>5 DEF Gapped
    <3>1. r[i] = merged[i] /\ P!End(merged[i]) < merged[j].off
      BY <1>6, <2>4
    <3>2. r[j].off = merged[j].off
      BY <2>2, <2>4 DEF last
    <3>3. QED
      BY <3>1, <3>2
  <2>7. \A x \in Nat : CoveredBy(r, L, x) <=> CoveredBy(merged, L, x) \/ P!InBlock(x, b)
    <3> TAKE x \in Nat
    <3>1. P!InBlock(x, grown) <=> P!InBlock(x, last) \/ P!InBlock(x, b)
      <4>1. P!End(grown) = b.off + b.size /\ P!End(b) = b.off + b.size
        BY <1>3, <2>2
      <4>2. /\ x \in Nat /\ b.off \in Nat /\ b.size \in Nat /\ last.off \in Nat
            /\ last.size \in Nat /\ last.off + last.size = b.off
            /\ P!End(last) = b.off /\ grown.off = last.off
        BY <1>3, <1>5, <1>7, <2>2
      <4>3. QED
        BY ONLY <4>1, <4>2 DEF P!InBlock
    <3>2. \A i \in 1 .. L : i # L => (P!InBlock(x, r[i]) <=> P!InBlock(x, merged[i]))
      BY <2>4
    <3>3. QED
      BY <1>5, <1>7, <2>4, <3>1, <3>2 DEF CoveredBy, last
  <2>8. r # << >> /\ L > 0
    BY <1>5, <1>7, <2>5
  <2>9. P!End(r[L]) = P!End(s[n + 1])
    BY <2>2, <2>4 DEF b
  <2>10. MergedSoFar(r, s, n + 1)
    BY <1>4, <2>5, <2>6, <2>7, <2>8, <2>9 DEF MergedSoFar
  <2>11. QED
    BY <2>10 DEF r, b
<1>8. CASE ~(merged # << >> /\ P!End(last) = b.off)
  <2>1. r = Append(merged, b)
    BY <1>5, <1>8 DEF MergeNext, Last, last, L
  <2> HIDE DEF r
  <2>2. /\ r \in Seq(T) /\ Len(r) = L + 1 /\ r[L + 1] = b
        /\ \A i \in 1 .. L : r[i] = merged[i]
    <3> HIDE DEF T
    <3>1. QED
      BY <1>1, <1>2, <2>1, AppendFacts DEF L, b
  <2>3. ASSUME NEW i \in 1 .. L PROVE P!End(merged[i]) < b.off
    <3>1. merged # << >>
      BY <1>1, <2>3
    <3>2. merged # << >> /\ P!End(last) < b.off
      <4>1. P!End(last) # b.off
        BY <1>8, <3>1
      <4>2. P!End(last) \in Nat /\ P!End(last) <= b.off
        BY <1>5, <3>1
      <4>3. QED
        BY <1>3, <3>1, <4>1, <4>2
    <3>3. i = L \/ P!End(merged[i]) < last.off
      BY <1>6, <1>1, <1>5, <2>3, <3>2 DEF last
    <3>4. P!End(merged[i]) \in Nat
      BY <1>1, BlockNumbers
    <3>5. QED
      BY <1>3, <1>5, <3>2, <3>3, <3>4 DEF last
  <2>4. Gapped(r)
    <3> SUFFICES ASSUME NEW i \in 1 .. L + 1, NEW j \in 1 .. L + 1, i < j
                 PROVE  P!End(r[i]) < r[j].off
      BY <2>2 DEF Gapped
    <3>1. CASE j = L + 1
      BY <1>1, <2>2, <2>3, <3>1
    <3>2. CASE j # L + 1
      BY <1>6, <1>1, <2>2, <3>2
    <3>3. QED
      BY <3>1, <3>2
  <2>5. \A x \in Nat : CoveredBy(r, L + 1, x) <=> CoveredBy(merged, L, x) \/ P!InBlock(x, b)
    <3> TAKE x \in Nat
    <3>1. \A i : i \in 1 .. L + 1 <=> i \in 1 .. L \/ i = L + 1
      BY <1>1
    <3>2. QED
      BY <2>2, <3>1 DEF CoveredBy
  <2>6. r # << >> /\ L + 1 > 0
    BY <1>1, <2>2
  <2>7. P!End(r[L + 1]) = P!End(s[n + 1])
    BY <2>2 DEF b
  <2>8. MergedSoFar(r, s, n + 1)
    BY <1>4, <2>2, <2>4, <2>5, <2>6, <2>7 DEF MergedSoFar
  <2>9. QED
    BY <2>8 DEF r, b
<1>9. QED
  BY <1>7, <1>8

\* The merging pass, over a sorted list of any length.
LEMMA MergeKeeps ==
  ASSUME NEW s \in Seq(P!Blocks), Ordered(s)
  PROVE  MergedSoFar(Merged(s), s, Len(s))
<1> DEFINE Step(m, i) == MergeNext(m, s[i])
           Body(f, n) == [i \in 0 .. n |-> IF i = 0 THEN << >> ELSE Step(f[i - 1], i)]
           Done == {n \in Nat : \E f : f = Body(f, n)}
           N == Len(s)
           merged == CHOOSE f : f = Body(f, N)
           Kept == {n \in Nat : n <= N => MergedSoFar(merged[n], s, n)}
<1>1. N \in Nat
  OBVIOUS
<1> HIDE DEF Step, N
<1>2. \A n \in Nat : n \in Done
  <2>1. 0 \in Done
    <3> DEFINE f == [i \in 0 .. 0 |-> << >>]
    <3>1. f = Body(f, 0)
      OBVIOUS
    <3>2. QED
      BY <3>1
  <2>2. ASSUME NEW n \in Nat, n \in Done PROVE n + 1 \in Done
    <3>1. PICK f : f = Body(f, n)
      BY <2>2
    <3> DEFINE h == [i \in 0 .. (n + 1) |-> IF i <= n THEN f[i] ELSE Step(f[n], n + 1)]
    <3>2. \A i \in 0 .. (n + 1) : h[i] = IF i = 0 THEN << >> ELSE Step(h[i - 1], i)
      <4>1. \A i \in 1 .. (n + 1) : i - 1 \in 0 .. n /\ h[i - 1] = f[i - 1]
        OBVIOUS
      <4>2. \A i \in 0 .. n : f[i] = IF i = 0 THEN << >> ELSE Step(f[i - 1], i)
        BY <3>1
      <4>3. h[n + 1] = Step(f[n], n + 1) /\ \A i \in 0 .. n : h[i] = f[i]
        OBVIOUS
      <4> HIDE DEF h
      <4> SUFFICES ASSUME NEW i \in 0 .. (n + 1)
                   PROVE  h[i] = IF i = 0 THEN << >> ELSE Step(h[i - 1], i)
        OBVIOUS
      <4>4. CASE i = n + 1
        <5>1. i # 0 /\ i - 1 = n /\ n \in 0 .. n
          BY <4>4
        <5>2. QED
          BY <4>3, <4>4, <5>1
      <4>5. CASE i \in 0 .. n
        <5>1. i # 0 => h[i - 1] = f[i - 1]
          BY <4>1, <4>5
        <5>2. QED
          BY <4>2, <4>3, <4>5, <5>1
      <4>6. QED
        BY <4>4, <4>5
    <3>3. h = [i \in 0 .. (n + 1) |-> h[i]]
      OBVIOUS
    <3> HIDE DEF h
    <3>4. h = Body(h, n + 1)
      BY <3>2, <3>3
    <3>5. QED
      BY <3>4
  <2> HIDE DEF Done
  <2>3. QED
    BY <2>1, <2>2, NaturalInduction
<1>3. merged = Body(merged, N)
  <2>1. \E f : f = Body(f, N)
    BY <1>1, <1>2
  <2> HIDE DEF Body
  <2>2. QED
    BY <2>1
<1>4. MergedUpTo(s) = merged
  BY Zenon DEF MergedUpTo, Step, N
<1> HIDE DEF merged
<1>5. merged[0] = << >> /\ \A n \in Nat : n + 1 <= N => merged[n + 1] = Step(merged[n], n + 1)
  BY <1>1, <1>3
<1>6. \A n \in Nat : n \in Kept
  <2>1. 0 \in Kept
    <3>1. Gapped(<< >>) /\ << >> \in Seq(P!Blocks)
      BY DEF Gapped
    <3>2. \A x \in Nat : CoveredBy(<< >>, Len(<< >>), x) <=> CoveredBy(s, 0, x)
      BY DEF CoveredBy
    <3>3. MergedSoFar(<< >>, s, 0)
      BY <3>1, <3>2 DEF MergedSoFar
    <3>4. QED
      BY <1>5, <3>3
  <2>2. ASSUME NEW n \in Nat, n \in Kept PROVE n + 1 \in Kept
    <3> SUFFICES ASSUME n + 1 <= N PROVE MergedSoFar(merged[n + 1], s, n + 1)
      OBVIOUS
    <3>1. MergedSoFar(merged[n], s, n)
      BY <1>1, <2>2
    <3>2. merged[n + 1] = MergeNext(merged[n], s[n + 1])
      BY <1>5 DEF Step
    <3>3. QED
      BY <3>1, <3>2, MergeStep DEF N
  <2> HIDE DEF Kept
  <2>3. QED
    BY <2>1, <2>2, NaturalInduction
<1>7. QED
  BY <1>1, <1>4, <1>6 DEF Merged, N

\* _insert_free_block on the list frees the blocks that it frees on the set.
LEMMA InsertInList ==
  ASSUME NEW list \in Seq(P!Blocks), Gapped(list), NEW off \in Nat, NEW size \in Nat,
         size > 0 => \A i \in 1 .. Len(list) :
                        P!Disjoint(list[i], [off |-> off, size |-> size])
  PROVE  LET after == InsertFreeBlock(list, off, size)
         IN  /\ after \in Seq(P!Blocks) /\ Gapped(after)
             /\ ToSet(after) = P!InsertFreeBlock(ToSet(list), off, size)
<1>1. CASE size = 0
  <2>1. InsertFreeBlock(list, off, size) = list
    BY <1>1 DEF InsertFreeBlock
  <2>2. P!InsertFreeBlock(ToSet(list), off, size) = ToSet(list)
    BY <1>1 DEF P!InsertFreeBlock
  <2>3. QED
    BY <2>1, <2>2
<1>2. CASE size > 0
  <2> DEFINE b == [off |-> off, size |-> size]
             s == Sorted(Append(list, b))
             after == Merged(s)
             blocks == ToSet(list)
             set == P!InsertFreeBlock(blocks, off, size)
  <2>1. b \in P!Blocks /\ b.off = off /\ b.size = size
    BY <1>2 DEF P!Blocks
  <2>2. InsertFreeBlock(list, off, size) = after
    BY <1>2 DEF InsertFreeBlock
  <2>3. \A i \in 1 .. Len(list) : P!Disjoint(list[i], b)
    BY <1>2
  <2> HIDE DEF b
  <2>4. /\ s \in Seq(P!Blocks) /\ Ordered(s)
        /\ \A x \in Nat : CoveredBy(s, Len(s), x)
                            <=> CoveredBy(list, Len(list), x) \/ P!InBlock(x, b)
    BY <2>1, <2>3, SortOrders
  <2> HIDE DEF s
  <2>5. MergedSoFar(after, s, Len(s))
    BY <2>4, MergeKeeps
  <2> HIDE DEF after
  <2>6. after \in Seq(P!Blocks) /\ Gapped(after)
    BY <2>5 DEF MergedSoFar
  <2>7. \A x \in Nat : CoveredBy(after, Len(after), x) <=> CoveredBy(s, Len(s), x)
    BY <2>5 DEF MergedSoFar
  <2>8. /\ ToSet(after) \subseteq P!Blocks /\ P!Coalesced(ToSet(after))
        /\ \A x \in Nat : (\E c \in ToSet(after) : P!InBlock(x, c))
                            <=> CoveredBy(after, Len(after), x)
    BY <2>6, GappedIsCoalesced
  <2>9. /\ blocks \subseteq P!Blocks /\ P!Coalesced(blocks)
        /\ \A x \in Nat : (\E c \in blocks : P!InBlock(x, c))
                            <=> CoveredBy(list, Len(list), x)
    BY GappedIsCoalesced
  <2>10. \A c \in blocks : P!Disjoint(c, b)
    <3>1. \A c \in blocks : \E i \in 1 .. Len(list) : c = list[i]
      BY DEF ToSet
    <3>2. QED
      BY <2>3, <3>1
  <2> HIDE DEF blocks
  <2>11. /\ set \subseteq P!Blocks /\ P!Coalesced(set)
         /\ \A x \in Nat : (\E c \in set : P!InBlock(x, c))
                  <=> (\E c \in blocks : P!InBlock(x, c)) \/ (off <= x /\ x < off + size)
    BY <1>2, <2>9, <2>10, P!InsertFreeBlockCorrect, BestFitListAssumption DEF b
  <2> HIDE DEF set
  <2>12. \A x \in Nat : P!InBlock(x, b) <=> off <= x /\ x < off + size
    BY <2>1 DEF P!InBlock, P!End
  <2>13. \A x \in Nat : (\E c \in ToSet(after) : P!InBlock(x, c))
                          <=> (\E c \in set : P!InBlock(x, c))
    BY <2>4, <2>7, <2>8, <2>9, <2>11, <2>12
  <2>14. ToSet(after) \subseteq set
    BY <2>8, <2>11, <2>13, CoverDetermines
  <2>15. set \subseteq ToSet(after)
    BY <2>8, <2>11, <2>13, CoverDetermines
  <2>16. QED
    BY <2>2, <2>6, <2>14, <2>15 DEF set, blocks
<1>3. QED
  BY <1>1, <1>2

-----------------------------------------------------------------------------
(* The scan for the best block.                                            *)

\* The list and the set hold the same fitting blocks.
LEMMA FitsInList ==
  ASSUME NEW list \in Seq(P!Blocks), NEW size \in Nat
  PROVE  P!Fitting(ToSet(list), size) = {list[i] : i \in Fits(list, size)}
BY DEF P!Fitting, Fits, ToSet

\* The first smallest block of the list is the smallest, lowest block of the set.
LEMMA BestInList ==
  ASSUME NEW list \in Seq(P!Blocks), Gapped(list), NEW size \in Nat,
         Fits(list, size) # {}
  PROVE  /\ BestIndex(list, size) \in 1 .. Len(list)
         /\ list[BestIndex(list, size)] = P!BestFit(ToSet(list), size)
         /\ list[BestIndex(list, size)].size >= size
<1> DEFINE F == Fits(list, size)
           best == P!BestFit(ToSet(list), size)
           i == BestIndex(list, size)
           N == Len(list)
<1>1. /\ N \in Nat /\ F \subseteq 1 .. N
      /\ \A j \in 1 .. N : list[j] \in P!Blocks
  BY DEF Fits
<1>2. P!Fitting(ToSet(list), size) = {list[j] : j \in F}
  BY FitsInList
<1>3. \A j \in 1 .. N : list[j].off \in Nat /\ list[j].size \in Nat \ {0}
  BY <1>1, BlockNumbers
<1>4. \A j, k \in 1 .. N : j < k => list[j].off < list[k].off
  <2> SUFFICES ASSUME NEW j \in 1 .. N, NEW k \in 1 .. N, j < k
               PROVE  list[j].off < list[k].off
    OBVIOUS
  <2>1. P!End(list[j]) < list[k].off
    BY DEF Gapped
  <2>2. P!End(list[j]) = list[j].off + list[j].size
    BY <1>1, BlockNumbers
  <2>3. QED
    BY <1>3, <2>1, <2>2
<1>5. /\ best \in P!Fitting(ToSet(list), size)
      /\ \A c \in P!Fitting(ToSet(list), size) :
           best.size < c.size \/ (best.size = c.size /\ best.off <= c.off)
  <2>1. ToSet(list) \subseteq P!Blocks
    BY GappedIsCoalesced
  <2>2. P!Fitting(ToSet(list), size) # {}
    BY <1>2
  <2>3. QED
    BY <2>1, <2>2, P!BestFitFits, BestFitListAssumption
<1> HIDE DEF best, F
<1>6. PICK k \in F : best = list[k]
  BY <1>2, <1>5
<1>7. \A j \in F : list[k].size < list[j].size \/ (list[k].size = list[j].size /\ k <= j)
  <2> SUFFICES ASSUME NEW j \in F
               PROVE  list[k].size < list[j].size \/ (list[k].size = list[j].size /\ k <= j)
    OBVIOUS
  <2>1. list[k].size < list[j].size \/ (list[k].size = list[j].size /\ list[k].off <= list[j].off)
    BY <1>2, <1>5, <1>6
  <2>2. j < k => list[j].off < list[k].off
    BY <1>1, <1>4
  <2>3. j \in 1 .. N /\ k \in 1 .. N /\ list[k].off \in Nat /\ list[j].off \in Nat
    BY <1>1, <1>3
  <2>4. QED
    BY <1>1, <2>1, <2>2, <2>3
<1>8. /\ i \in F
      /\ \A j \in F : list[i].size < list[j].size \/ (list[i].size = list[j].size /\ i <= j)
  BY <1>7 DEF BestIndex, F
<1> HIDE DEF i
<1>9. i = k
  <2>1. i \in Nat /\ k \in Nat /\ list[i].size \in Nat /\ list[k].size \in Nat
    BY <1>1, <1>3, <1>8
  <2>2. list[i].size < list[k].size \/ (list[i].size = list[k].size /\ i <= k)
    BY <1>8
  <2>3. list[k].size < list[i].size \/ (list[k].size = list[i].size /\ k <= i)
    BY <1>7, <1>8
  <2>4. QED
    BY <2>1, <2>2, <2>3
<1>10. list[i].size >= size
  BY <1>8 DEF F, Fits
<1>11. QED
  BY <1>1, <1>6, <1>8, <1>9, <1>10 DEF best, i

\* A list without one of its elements.
LEMMA RemoveFacts ==
  ASSUME NEW T, NEW q \in Seq(T), NEW k \in 1 .. Len(q)
  PROVE  LET r == RemoveAt(q, k)
         IN  /\ r \in Seq(T) /\ Len(r) = Len(q) - 1 /\ Len(q) \in Nat
             /\ \A i \in 1 .. Len(q) - 1 : r[i] = IF i < k THEN q[i] ELSE q[i + 1]
<1>1. Len(q) \in Nat /\ k \in Nat /\ k >= 1 /\ k <= Len(q)
  OBVIOUS
<1> DEFINE low  == SubSeq(q, 1, k - 1)
           high == SubSeq(q, k + 1, Len(q))
<1>2. low \in Seq(T) /\ Len(low) = k - 1 /\ \A i \in 1 .. k - 1 : low[i] = q[i]
  <2>1. \A i \in 1 .. k - 1 : q[i] \in T
    BY <1>1
  <2>2. QED
    BY <1>1, <2>1, SubSeqProperties
<1>3. /\ high \in Seq(T) /\ Len(high) = Len(q) - k
      /\ \A i \in 1 .. Len(q) - k : high[i] = q[k + i]
  <2>1. \A i \in k + 1 .. Len(q) : q[i] \in T
    BY <1>1
  <2>2. \A m \in Int : m = k + 1 =>
           LET h == SubSeq(q, m, Len(q))
           IN  /\ h \in Seq(T) /\ Len(h) = IF m <= Len(q) THEN Len(q) - m + 1 ELSE 0
               /\ \A i \in 1 .. Len(q) - m + 1 : h[i] = q[m + i - 1]
    BY <1>1, <2>1, SubSeqProperties
  <2>3. k + 1 \in Int
    BY <1>1
  <2>4. /\ high \in Seq(T) /\ Len(high) = IF k + 1 <= Len(q) THEN Len(q) - (k + 1) + 1 ELSE 0
        /\ \A i \in 1 .. Len(q) - (k + 1) + 1 : high[i] = q[(k + 1) + i - 1]
    BY <2>2, <2>3
  <2>5. QED
    BY <1>1, <2>4
<1> HIDE DEF low, high
<1>4. /\ low \o high \in Seq(T) /\ Len(low \o high) = Len(q) - 1
      /\ \A i \in 1 .. Len(q) - 1 : (low \o high)[i] =
            IF i <= k - 1 THEN low[i] ELSE high[i - (k - 1)]
  <2>1. Len(low) + Len(high) = Len(q) - 1
    BY <1>1, <1>2, <1>3
  <2>2. /\ low \o high \in Seq(T) /\ Len(low \o high) = Len(low) + Len(high)
        /\ \A i \in 1 .. Len(low) + Len(high) : (low \o high)[i] =
              IF i <= Len(low) THEN low[i] ELSE high[i - Len(low)]
    <3>1. low \in Seq(T) /\ high \in Seq(T)
      BY <1>2, <1>3
    <3>2. QED
      BY ONLY <3>1, ConcatProperties
  <2>3. Len(low) = k - 1
    BY <1>2
  <2>4. QED
    BY <2>1, <2>2, <2>3
<1>5. RemoveAt(q, k) = low \o high
  BY DEF RemoveAt, low, high
<1>6. ASSUME NEW i \in 1 .. Len(q) - 1
      PROVE  (low \o high)[i] = IF i < k THEN q[i] ELSE q[i + 1]
  <2>1. CASE i < k
    <3>1. i \in 1 .. k - 1
      BY <1>1, <2>1
    <3>2. QED
      BY <1>1, <1>2, <1>4, <2>1, <3>1
  <2>2. CASE ~(i < k)
    <3>1. i - (k - 1) \in 1 .. Len(q) - k /\ k + (i - (k - 1)) = i + 1
      BY <1>1, <2>2
    <3>2. high[i - (k - 1)] = q[i + 1]
      BY <1>3, <3>1
    <3>3. QED
      BY <1>1, <1>4, <2>2, <3>2
  <2>3. QED
    BY <2>1, <2>2
<1>7. QED
  BY <1>1, <1>4, <1>5, <1>6

\* Taking the best block of the list, its tail put back, is taking it of the set.
LEMMA TakeInList ==
  ASSUME NEW list \in Seq(P!Blocks), Gapped(list), NEW size \in Nat,
         Fits(list, size) # {}
  PROVE  LET after == TakeBestFit(list, size)
         IN  /\ after \in Seq(P!Blocks) /\ Gapped(after)
             /\ ToSet(after) = P!TakeBestFit(ToSet(list), size)
<1> DEFINE k == BestIndex(list, size)
           b == list[k]
           rest == RemoveAt(list, k)
           N == Len(list)
           T == P!Blocks
<1>1. k \in 1 .. N /\ b = P!BestFit(ToSet(list), size) /\ b.size >= size
  BY BestInList
<1>2. N \in Nat /\ \A i \in 1 .. N : list[i] \in T
  OBVIOUS
<1>3. TakeBestFit(list, size) = InsertFreeBlock(rest, b.off + size, b.size - size)
  BY DEF TakeBestFit
<1>4. P!TakeBestFit(ToSet(list), size)
        = P!InsertFreeBlock(ToSet(list) \ {b}, b.off + size, b.size - size)
  BY <1>1 DEF P!TakeBestFit
<1>5. b \in T /\ b.off \in Nat /\ b.size \in Nat /\ P!End(b) = b.off + b.size
  BY <1>1, <1>2, BlockNumbers
<1>6. \A i, j \in 1 .. N : i < j => P!End(list[i]) < list[j].off
  BY DEF Gapped
<1> HIDE DEF k
<1>7. /\ rest \in Seq(T) /\ Len(rest) = N - 1
      /\ \A i \in 1 .. N - 1 : rest[i] = IF i < k THEN list[i] ELSE list[i + 1]
  BY <1>1, RemoveFacts
<1> HIDE DEF rest, b
<1>8. \A i \in 1 .. N - 1 : \E j \in 1 .. N :
        /\ rest[i] = list[j] /\ j # k
        /\ \A m \in 1 .. N - 1 : i < m => \E n \in 1 .. N : rest[m] = list[n] /\ j < n
  <2> TAKE i \in 1 .. N - 1
  <2> DEFINE Old(m) == IF m < k THEN m ELSE m + 1
  <2>1. \A m \in 1 .. N - 1 : Old(m) \in 1 .. N /\ Old(m) # k /\ rest[m] = list[Old(m)]
    BY <1>1, <1>2, <1>7
  <2>2. \A m \in 1 .. N - 1 : i < m => Old(i) < Old(m)
    BY <1>1, <1>2
  <2> HIDE DEF Old
  <2>3. /\ rest[i] = list[Old(i)] /\ Old(i) # k /\ Old(i) \in 1 .. N
        /\ \A m \in 1 .. N - 1 : i < m => \E n \in 1 .. N : rest[m] = list[n] /\ Old(i) < n
    BY <2>1, <2>2
  <2>4. QED
    BY <2>3
<1>9. Gapped(rest)
  <2>1. \A i, m \in 1 .. N - 1 : i < m => P!End(rest[i]) < rest[m].off
    BY <1>6, <1>8
  <2>2. QED
    BY <1>7, <2>1 DEF Gapped
<1>10. \A j \in 1 .. N : j # k => P!Disjoint(list[j], b) /\ list[j] # b
  <2> SUFFICES ASSUME NEW j \in 1 .. N, j # k
               PROVE  P!Disjoint(list[j], b) /\ list[j] # b
    OBVIOUS
  <2>1. /\ list[j].off \in Nat /\ list[j].size \in Nat \ {0}
        /\ P!End(list[j]) = list[j].off + list[j].size
    BY <1>2, BlockNumbers
  <2>2. P!End(list[j]) < b.off \/ P!End(b) < list[j].off
    <3>1. j < k \/ k < j
      BY <1>1, <1>2
    <3>2. QED
      BY <1>1, <1>6, <3>1 DEF b
  <2>3. P!Disjoint(list[j], b)
    BY <1>5, <2>1, <2>2 DEF P!Disjoint
  <2>4. list[j].off # b.off
    BY <1>5, <2>1, <2>2
  <2>5. QED
    BY <2>3, <2>4
<1>11. ToSet(rest) = ToSet(list) \ {b}
  <2>1. \A c : c \in ToSet(rest) <=> \E i \in 1 .. N - 1 : c = rest[i]
    BY <1>7 DEF ToSet
  <2>2. \A c : c \in ToSet(list) <=> \E i \in 1 .. N : c = list[i]
    BY DEF ToSet
  <2>3. ASSUME NEW c \in ToSet(rest) PROVE c \in ToSet(list) \ {b}
    <3>1. PICK i \in 1 .. N - 1 : c = rest[i]
      BY <2>1, <2>3
    <3>2. PICK j \in 1 .. N : rest[i] = list[j] /\ j # k
      BY <1>8
    <3>3. QED
      BY <1>10, <2>2, <3>1, <3>2
  <2>4. ASSUME NEW c \in ToSet(list) \ {b} PROVE c \in ToSet(rest)
    <3>1. PICK i \in 1 .. N : c = list[i] /\ i # k
      BY <2>2, <2>4 DEF b
    <3>2. CASE i < k
      <4>1. i \in 1 .. N - 1 /\ rest[i] = list[i]
        BY <1>1, <1>2, <1>7, <3>2
      <4>2. QED
        BY <2>1, <3>1, <4>1
    <3>3. CASE i > k
      <4>1. PICK m \in 1 .. N - 1 : m + 1 = i /\ ~(m < k)
        <5>1. i - 1 \in 1 .. N - 1 /\ (i - 1) + 1 = i /\ ~(i - 1 < k)
          BY <1>1, <1>2, <3>3
        <5>2. QED
          BY <5>1
      <4>2. rest[m] = list[i]
        BY <1>7, <4>1
      <4>3. QED
        BY <2>1, <3>1, <4>2
    <3>4. QED
      BY <1>1, <1>2, <3>1, <3>2, <3>3
  <2>5. QED
    BY <2>3, <2>4
<1> DEFINE off == b.off + size
           tail == b.size - size
<1>12. off \in Nat /\ tail \in Nat
  BY <1>1, <1>5
<1>13. off + tail = P!End(b) /\ off >= b.off
  BY <1>1, <1>5
<1>14. tail > 0 => \A i \in 1 .. Len(rest) :
                     P!Disjoint(rest[i], [off |-> off, size |-> tail])
  <2> SUFFICES ASSUME NEW i \in 1 .. N - 1
               PROVE  P!Disjoint(rest[i], [off |-> off, size |-> tail])
    BY <1>7
  <2>1. PICK j \in 1 .. N : rest[i] = list[j] /\ P!Disjoint(list[j], b)
    BY <1>8, <1>10
  <2>2. rest[i] \in T
    BY <1>2, <2>1
  <2>3. rest[i].off \in Nat /\ rest[i].size \in Nat /\ P!Disjoint(rest[i], b)
    BY <2>1, <2>2, BlockNumbers
  <2>4. P!End(rest[i]) \in Nat /\ (P!End(rest[i]) <= b.off \/ P!End(b) <= rest[i].off)
    BY <2>2, <2>3, BlockNumbers DEF P!Disjoint
  <2> HIDE DEF off, tail
  <2>5. P!End(rest[i]) <= off \/ off + tail <= rest[i].off
    BY <1>5, <1>12, <1>13, <2>3, <2>4
  <2>6. QED
    BY <2>5 DEF P!Disjoint, P!End
<1> HIDE DEF off, tail
<1>15. LET after == InsertFreeBlock(rest, off, tail)
       IN  /\ after \in Seq(P!Blocks) /\ Gapped(after)
           /\ ToSet(after) = P!InsertFreeBlock(ToSet(rest), off, tail)
  BY <1>7, <1>9, <1>12, <1>14, InsertInList
<1>16. QED
  BY <1>3, <1>4, <1>11, <1>15 DEF off, tail, b, rest

-----------------------------------------------------------------------------
(* The scan of the active tensors.                                         *)

\* No id is listed twice.
Distinct(ids) == \A i, j \in 1 .. Len(ids) : i # j => ids[i] # ids[j]

\* A list of ids is its head and the others.
LEMMA HeadAndTail ==
  ASSUME NEW T, NEW q \in Seq(T), q # << >>, Distinct(q)
  PROVE  /\ Head(q) \in T /\ Tail(q) \in Seq(T) /\ Distinct(Tail(q))
         /\ ToSet(q) = ToSet(Tail(q)) \cup {Head(q)}
         /\ Head(q) \notin ToSet(Tail(q))
<1> DEFINE N == Len(q)
           rest == Tail(q)
<1>1. N \in Nat /\ N > 0 /\ Head(q) = q[1] /\ \A i \in 1 .. N : q[i] \in T
  OBVIOUS
<1>2. Head(q) \in T /\ rest \in Seq(T) /\ Len(rest) = N - 1
      /\ \A i \in 1 .. N - 1 : rest[i] = q[i + 1]
  BY HeadTailProperties
<1>3. \A x : x \in ToSet(q) <=> \E i \in 1 .. N : x = q[i]
  BY DEF ToSet
<1> HIDE DEF rest
<1>4. \A x : x \in ToSet(rest) <=> \E i \in 1 .. N - 1 : x = rest[i]
  BY <1>2 DEF ToSet
<1>5. ASSUME NEW i \in 1 .. N - 1
      PROVE  i + 1 \in 1 .. N /\ i + 1 # 1 /\ rest[i] = q[i + 1] /\ rest[i] # q[1]
  <2>1. i + 1 \in 1 .. N /\ i + 1 # 1 /\ 1 \in 1 .. N
    BY <1>1
  <2>2. QED
    BY <1>2, <2>1 DEF Distinct
<1>6. Distinct(rest)
  <2> SUFFICES ASSUME NEW i \in 1 .. N - 1, NEW j \in 1 .. N - 1, i # j
               PROVE  rest[i] # rest[j]
    BY <1>2 DEF Distinct
  <2>1. i + 1 # j + 1
    BY <1>1
  <2>2. QED
    BY <1>5, <2>1 DEF Distinct
<1>7. ASSUME NEW x, x \in ToSet(q) PROVE x \in ToSet(rest) \cup {Head(q)}
  <2>1. PICK i \in 1 .. N : x = q[i]
    BY <1>3, <1>7
  <2>2. CASE i = 1
    BY <1>1, <2>1, <2>2
  <2>3. CASE i # 1
    <3>1. PICK m \in 1 .. N - 1 : m + 1 = i
      <4>1. i - 1 \in 1 .. N - 1 /\ (i - 1) + 1 = i
        BY <1>1, <2>3
      <4>2. QED
        BY <4>1
    <3>2. QED
      BY <1>4, <1>5, <2>1, <3>1
  <2>4. QED
    BY <2>2, <2>3
<1>8. ASSUME NEW x, x \in ToSet(rest) PROVE x \in ToSet(q) /\ x # Head(q)
  <2>1. PICK i \in 1 .. N - 1 : x = rest[i]
    BY <1>4, <1>8
  <2>2. QED
    BY <1>1, <1>3, <1>5, <2>1
<1>9. Head(q) \in ToSet(q)
  <2>1. 1 \in 1 .. N
    BY <1>1
  <2>2. QED
    BY <1>1, <1>3, <2>1
<1>10. QED
  BY <1>2, <1>6, <1>7, <1>8, <1>9 DEF rest

\* A list of ids that gets one more.
LEMMA OneMore ==
  ASSUME NEW T, NEW q \in Seq(T), Distinct(q), NEW x \in T, x \notin ToSet(q)
  PROVE  /\ Append(q, x) \in Seq(T) /\ Distinct(Append(q, x))
         /\ ToSet(Append(q, x)) = ToSet(q) \cup {x}
<1> DEFINE N == Len(q)
           r == Append(q, x)
<1>1. /\ r \in Seq(T) /\ N \in Nat /\ Len(r) = N + 1 /\ DOMAIN r = 1 .. N + 1
      /\ r[N + 1] = x /\ \A i \in 1 .. N : r[i] = q[i]
  BY AppendFacts
<1>2. \A y : y \in ToSet(q) <=> \E i \in 1 .. N : y = q[i]
  BY DEF ToSet
<1> HIDE DEF r
<1>3. \A y : y \in ToSet(r) <=> \E i \in 1 .. N + 1 : y = r[i]
  BY <1>1 DEF ToSet
<1>4. \A i : i \in 1 .. N + 1 <=> i \in 1 .. N \/ i = N + 1
  BY <1>1
<1>5. \A i \in 1 .. N : q[i] # x
  BY <1>2
<1>6. Distinct(r)
  <2> SUFFICES ASSUME NEW i \in 1 .. N + 1, NEW j \in 1 .. N + 1, i # j
               PROVE  r[i] # r[j]
    BY <1>1 DEF Distinct
  <2>1. (i \in 1 .. N \/ i = N + 1) /\ (j \in 1 .. N \/ j = N + 1)
    BY <1>4
  <2>2. QED
    BY <1>1, <1>5, <2>1 DEF Distinct
<1>7. ToSet(r) = ToSet(q) \cup {x}
  <2>1. ASSUME NEW y PROVE y \in ToSet(r) <=> y \in ToSet(q) \/ y = x
    BY <1>1, <1>2, <1>3, <1>4
  <2>2. QED
    BY <2>1
<1>8. QED
  BY <1>1, <1>6, <1>7 DEF r

-----------------------------------------------------------------------------
(* The inductive invariant of the lists.                                   *)

\* The free list is in order of offset and no two of its blocks touch.
FreeListInOrder == free_list \in Seq(P!Blocks) /\ Gapped(free_list)

\* The scan keeps every active tensor in one of its two lists; the kept ones
\* have not expired.
ScanInOrder ==
  /\ active \in Seq(Tensors) /\ Distinct(active)
  /\ still_active \in Seq(Tensors) /\ Distinct(still_active)
  /\ \A t \in ToSet(still_active) :
        t \notin ToSet(active) /\ ~P!Expired(t, request.first)
  /\ request = P!NoRequest => still_active = << >>

\* The lists are in order, and the sets of their elements satisfy the invariant of
\* BestFitArena.
ListInv == FreeListInOrder /\ ScanInOrder /\ P!IInv

\* An empty list is in order and has no elements.
LEMMA NoElements ==
  /\ \A T : << >> \in Seq(T) /\ ToSet(<< >>) = {}
  /\ Gapped(<< >>) /\ Distinct(<< >>)
BY DEF ToSet, Gapped, Distinct

LEMMA InitListInv == Init => P!Init /\ ListInv
<1> SUFFICES ASSUME Init PROVE P!Init /\ ListInv
  OBVIOUS
<1>1. free_list = << >> /\ active = << >> /\ still_active = << >>
  BY DEF Init
<1>2. ToSet(free_list) = {} /\ ToSet(active) \cup ToSet(still_active) = {}
  BY <1>1, NoElements
<1>3. P!Init
  BY <1>2 DEF Init, P!Init, P!NoRequest, Sets!NoRequest
<1>4. P!IInv
  BY <1>3, P!InitIInv, BestFitListAssumption
<1>5. FreeListInOrder /\ ScanInOrder
  BY <1>1, NoElements DEF FreeListInOrder, ScanInOrder
<1>6. QED
  BY <1>3, <1>4, <1>5 DEF ListInv

\* The loop moves to the next tensor, in the lists and in the sets.
LEMMA ConsiderStep ==
  ASSUME ListInv,
         NEW t \in Tensors, NEW first \in FirstUses, NEW last \in LastUses,
         NEW bytes \in ByteSizes, Consider(t, first, last, bytes)
  PROVE  P!Next /\ FreeListInOrder' /\ ScanInOrder'
<1>1. P!Consider(t, first, last, bytes)
  BY DEF Consider, P!Consider, Sets!NoRequest, P!NoRequest
<1>2. P!Next
  BY <1>1 DEF P!Next
<1>3. /\ free_list' = free_list /\ active' = active /\ still_active' = still_active
      /\ request = P!NoRequest
      /\ request' # P!NoRequest
  <2>1. /\ request' = [tensor_id |-> t, first |-> first, last |-> last, bytes |-> bytes]
        /\ bytes # 0
    BY BestFitListAssumption DEF Consider
  <2>2. request' # P!NoRequest
    BY <2>1 DEF P!NoRequest
  <2>3. QED
    BY <2>2 DEF Consider, Sets!NoRequest, P!NoRequest
<1>4. FreeListInOrder'
  BY <1>3 DEF ListInv, FreeListInOrder
<1>5. still_active = << >>
  BY <1>3 DEF ListInv, ScanInOrder
<1>6. ScanInOrder'
  BY <1>3, <1>5, NoElements DEF ListInv, ScanInOrder
<1>7. QED
  BY <1>2, <1>4, <1>6

\* The head of the active list is one of the active tensors, and no tensor is in
\* both lists.
LEMMA ScannedTensor ==
  ASSUME ListInv, active # << >>
  PROVE  LET t == Head(active)
         IN  /\ t \in Tensors /\ t \in DOMAIN entries
             /\ Tail(active) \in Seq(Tensors) /\ Distinct(Tail(active))
             /\ ToSet(active) = ToSet(Tail(active)) \cup {t}
             /\ t \notin ToSet(Tail(active)) /\ t \notin ToSet(still_active)
             /\ entries[t].off \in Nat /\ entries[t].size \in Nat \ {0}
<1>1. active \in Seq(Tensors) /\ Distinct(active)
  BY DEF ListInv, ScanInOrder
<1>2. /\ Head(active) \in Tensors /\ Tail(active) \in Seq(Tensors)
      /\ Distinct(Tail(active)) /\ Head(active) \notin ToSet(Tail(active))
      /\ ToSet(active) = ToSet(Tail(active)) \cup {Head(active)}
  BY <1>1, HeadAndTail
<1>3. Head(active) \notin ToSet(still_active)
  BY <1>2 DEF ListInv, ScanInOrder
<1>4. P!TypeOK
  BY DEF ListInv, P!IInv
<1>5. Head(active) \in DOMAIN entries /\ entries[Head(active)] \in P!EntryRecords
  BY <1>2, <1>4 DEF P!TypeOK
<1>6. entries[Head(active)].off \in Nat /\ entries[Head(active)].size \in Nat \ {0}
  BY <1>5 DEF P!EntryRecords
<1>7. QED
  BY <1>2, <1>3, <1>5, <1>6

\* The scan meets a tensor whose last use has passed: it expires, in the set.
LEMMA ReleaseStep ==
  ASSUME ListInv, ScanRelease
  PROVE  P!Next /\ FreeListInOrder' /\ ScanInOrder'
<1> DEFINE t == Head(active)
           off == entries[t].off
           size == entries[t].size
<1>1. /\ request # P!NoRequest /\ active # << >> /\ P!Expired(t, request.first)
      /\ active' = Tail(active) /\ free_list' = InsertFreeBlock(free_list, off, size)
      /\ UNCHANGED <<entries, peak, request, cursor, status, still_active>>
  BY DEF ScanRelease, Sets!NoRequest, P!NoRequest, P!Expired
<1>2. /\ t \in Tensors /\ t \in DOMAIN entries
      /\ Tail(active) \in Seq(Tensors) /\ Distinct(Tail(active))
      /\ ToSet(active) = ToSet(Tail(active)) \cup {t}
      /\ t \notin ToSet(Tail(active)) /\ t \notin ToSet(still_active)
      /\ off \in Nat /\ size \in Nat \ {0}
  BY <1>1, ScannedTensor
<1>3. free_list \in Seq(P!Blocks) /\ Gapped(free_list)
  BY DEF ListInv, FreeListInOrder
<1>4. \A i \in 1 .. Len(free_list) : P!Disjoint(free_list[i], [off |-> off, size |-> size])
  <2>1. P!ArenaTiled
    BY DEF ListInv, P!IInv
  <2>2. t \in ToSet(active) \cup ToSet(still_active)
    BY <1>2
  <2>3. \A b \in ToSet(free_list) : P!Disjoint(entries[t], b)
    BY <2>1, <2>2 DEF P!ArenaTiled
  <2>4. \A i \in 1 .. Len(free_list) : free_list[i] \in ToSet(free_list)
    BY <1>3 DEF ToSet
  <2> SUFFICES ASSUME NEW i \in 1 .. Len(free_list)
               PROVE  P!Disjoint(free_list[i], [off |-> off, size |-> size])
    OBVIOUS
  <2>5. P!Disjoint(entries[t], free_list[i])
    BY <2>3, <2>4
  <2>6. QED
    BY <2>5 DEF P!Disjoint, P!End
<1> HIDE DEF off, size
<1>5. /\ free_list' \in Seq(P!Blocks) /\ Gapped(free_list')
      /\ ToSet(free_list') = P!InsertFreeBlock(ToSet(free_list), off, size)
  BY <1>1, <1>2, <1>3, <1>4, InsertInList
<1>6. FreeListInOrder'
  BY <1>5 DEF FreeListInOrder
<1>7. ScanInOrder'
  <2>1. ToSet(active') \subseteq ToSet(active)
    BY <1>1, <1>2
  <2>2. QED
    BY <1>1, <1>2, <2>1 DEF ListInv, ScanInOrder, P!Expired
<1>8. P!Expire(t)
  <2>1. ToSet(active') \cup ToSet(still_active')
          = (ToSet(active) \cup ToSet(still_active)) \ {t}
    BY <1>1, <1>2
  <2>2. t \in ToSet(active) \cup ToSet(still_active)
    BY <1>2
  <2>3. QED
    BY <1>1, <1>5, <2>1, <2>2 DEF P!Expire, off, size
<1>9. P!Next
  BY <1>2, <1>8 DEF P!Next, P!Step
<1>10. QED
  BY <1>6, <1>7, <1>9

\* The scan meets a tensor that is still needed: the sets stay as they are.
LEMMA KeepStep ==
  ASSUME ListInv, ScanKeep
  PROVE  UNCHANGED P!vars /\ FreeListInOrder' /\ ScanInOrder'
<1> DEFINE t == Head(active)
<1>1. /\ request # P!NoRequest /\ active # << >> /\ entries[t].last >= request.first
      /\ active' = Tail(active) /\ still_active' = Append(still_active, t)
      /\ UNCHANGED <<entries, peak, request, cursor, status, free_list>>
  BY DEF ScanKeep, Sets!NoRequest, P!NoRequest
<1>2. /\ t \in Tensors /\ t \in DOMAIN entries
      /\ Tail(active) \in Seq(Tensors) /\ Distinct(Tail(active))
      /\ ToSet(active) = ToSet(Tail(active)) \cup {t}
      /\ t \notin ToSet(Tail(active)) /\ t \notin ToSet(still_active)
  BY <1>1, ScannedTensor
<1>3. /\ still_active' \in Seq(Tensors) /\ Distinct(still_active')
      /\ ToSet(still_active') = ToSet(still_active) \cup {t}
  BY <1>1, <1>2, OneMore DEF ListInv, ScanInOrder
<1>4. ~P!Expired(t, request.first)
  <2>1. P!TypeOK
    BY DEF ListInv, P!IInv
  <2>2. entries[t] \in P!EntryRecords /\ request \in P!Requests
    BY <1>1, <1>2, <2>1 DEF P!TypeOK
  <2>3. entries[t].last \in Nat /\ request.first \in Nat
    BY <2>2 DEF P!EntryRecords, P!Requests
  <2>4. QED
    BY <1>1, <2>3 DEF P!Expired
<1>5. ScanInOrder'
  <2>1. \A u \in ToSet(still_active') : u \notin ToSet(active') /\ ~P!Expired(u, request.first)
    BY <1>1, <1>2, <1>3, <1>4 DEF ListInv, ScanInOrder
  <2>2. QED
    BY <1>1, <1>2, <1>3, <2>1 DEF ScanInOrder, P!Expired
<1>6. FreeListInOrder'
  BY <1>1 DEF ListInv, FreeListInOrder
<1>7. UNCHANGED P!vars
  <2>1. ToSet(active') \cup ToSet(still_active')
          = ToSet(active) \cup ToSet(still_active)
    BY <1>1, <1>2, <1>3
  <2>2. ToSet(free_list') = ToSet(free_list)
    BY <1>1
  <2>3. QED
    BY <1>1, <2>1, <2>2 DEF P!vars
<1>8. QED
  BY <1>5, <1>6, <1>7

\* After the scan the tensor is placed, in the lists and in the sets.
LEMMA PlaceStep ==
  ASSUME ListInv, Place
  PROVE  P!Next /\ FreeListInOrder' /\ ScanInOrder'
<1> DEFINE size == P!Align(request.bytes)
           t == request.tensor_id
           fits == Fits(free_list, size) # {}
           off == IF fits THEN free_list[BestIndex(free_list, size)].off ELSE peak
           blocks == ToSet(free_list)
           ids == ToSet(active) \cup ToSet(still_active)
<1>1. /\ request # P!NoRequest /\ active = << >>
      /\ free_list' = IF fits THEN TakeBestFit(free_list, size) ELSE free_list
      /\ peak' = IF fits THEN peak ELSE peak + size
      /\ active' = Append(still_active, t) /\ still_active' = << >>
      /\ entries' = [x \in DOMAIN entries \cup {t} |->
                       IF x = t
                       THEN [off |-> off, size |-> size,
                             first |-> request.first, last |-> request.last]
                       ELSE entries[x]]
      /\ request' = P!NoRequest
      /\ UNCHANGED <<cursor, status>>
  <2>1. Sets!NoRequest = P!NoRequest
    BY DEF Sets!NoRequest, P!NoRequest
  <2>2. Sets!Align(request.bytes) = P!Align(request.bytes)
    BY DEF Sets!Align, P!Align, Sets!ALIGNMENT, P!ALIGNMENT
  <2>3. QED
    BY <2>1, <2>2 DEF Place
<1> HIDE DEF off
<1>2. P!TypeOK /\ P!PlanOrder
  BY DEF ListInv, P!IInv
<1>3. request \in P!Requests
  BY <1>1, <1>2 DEF P!TypeOK
<1>4. t \in Tensors /\ t \notin DOMAIN entries /\ request.bytes \in Nat \ {0}
  BY <1>1, <1>2, <1>3 DEF P!Requests, P!PlanOrder
<1>5. size \in Nat \ {0}
  BY <1>4, P!AlignType, BestFitListAssumption
<1> HIDE DEF size, t
<1>6. ids \subseteq DOMAIN entries /\ ids = ToSet(still_active)
  BY <1>1, <1>2, NoElements DEF P!TypeOK
<1>7. /\ active' \in Seq(Tensors) /\ Distinct(active')
      /\ ToSet(active') = ids \cup {t}
  <2>1. still_active \in Seq(Tensors) /\ Distinct(still_active) /\ t \notin ToSet(still_active)
    BY <1>4, <1>6 DEF ListInv, ScanInOrder
  <2>2. QED
    BY <1>1, <1>4, <1>6, <2>1, OneMore
<1>8. ScanInOrder'
  BY <1>1, <1>7, NoElements DEF ScanInOrder
<1>9. free_list \in Seq(P!Blocks) /\ Gapped(free_list)
  BY DEF ListInv, FreeListInOrder
<1>10. fits <=> P!Fitting(blocks, size) # {}
  <2>1. P!Fitting(blocks, size) = {free_list[i] : i \in Fits(free_list, size)}
    BY <1>5, <1>9, FitsInList
  <2>2. QED
    BY ONLY <2>1
<1>11. P!ExpiryDone
  BY <1>1, <1>6 DEF P!ExpiryDone, ListInv, ScanInOrder
<1>12. P!AddEntry(off, size)
  <2>1. ToSet(active') \cup ToSet(still_active') = ids \cup {t}
    BY <1>1, <1>7, NoElements
  <2>2. QED
    BY <1>1, <2>1 DEF P!AddEntry, t
<1>13. CASE fits
  <2>1. /\ free_list' \in Seq(P!Blocks) /\ Gapped(free_list')
        /\ ToSet(free_list') = P!TakeBestFit(blocks, size)
    BY <1>1, <1>5, <1>9, <1>13, TakeInList
  <2>2. off = P!BestFit(blocks, size).off
    BY <1>5, <1>9, <1>13, BestInList DEF off
  <2>3. P!PlaceInFree
    BY <1>1, <1>10, <1>11, <1>12, <1>13, <2>1, <2>2 DEF P!PlaceInFree, size
  <2>4. P!Next
    BY <2>3 DEF P!Next, P!Step
  <2>5. QED
    BY <1>8, <2>1, <2>4 DEF FreeListInOrder
<1>14. CASE ~fits
  <2>1. free_list' = free_list /\ peak' = peak + size /\ off = peak
    BY <1>1, <1>14 DEF off
  <2>2. P!PlaceAtPeak
    BY <1>10, <1>11, <1>12, <1>14, <2>1 DEF P!PlaceAtPeak, size
  <2>3. P!Next
    BY <2>2 DEF P!Next, P!Step
  <2>4. QED
    BY <1>8, <1>9, <2>1, <2>3 DEF FreeListInOrder
<1>15. QED
  BY <1>13, <1>14

\* The loop ends, in the lists and in the sets.
LEMMA FinishStep ==
  ASSUME ListInv, Finish
  PROVE  P!Next /\ FreeListInOrder' /\ ScanInOrder'
<1>1. P!Finish
  BY DEF Finish, P!Finish, Sets!NoRequest, P!NoRequest
<1>2. P!Next
  BY <1>1 DEF P!Next
<1>3. FreeListInOrder'
  BY DEF Finish, ListInv, FreeListInOrder
<1>4. ScanInOrder'
  BY DEF Finish, ListInv, ScanInOrder, P!Expired, P!NoRequest
<1>5. QED
  BY <1>2, <1>3, <1>4

\* Every step of the lists keeps the invariant and is a step of the sets.
LEMMA NextListInv == ListInv /\ [Next]_vars => [P!Next]_P!vars /\ ListInv'
<1> SUFFICES ASSUME ListInv, [Next]_vars PROVE [P!Next]_P!vars /\ ListInv'
  OBVIOUS
<1>1. [P!Next]_P!vars /\ FreeListInOrder' /\ ScanInOrder'
  <2>1. CASE UNCHANGED vars
    BY <2>1 DEF vars, P!vars, ListInv, FreeListInOrder, ScanInOrder, P!Expired, P!NoRequest
  <2>2. CASE Next
    <3>1. ASSUME NEW t \in Tensors, NEW first \in FirstUses, NEW last \in LastUses,
                 NEW bytes \in ByteSizes, Consider(t, first, last, bytes)
          PROVE  P!Next /\ FreeListInOrder' /\ ScanInOrder'
      BY <3>1, ConsiderStep
    <3>2. QED
      BY <2>2, <3>1, ReleaseStep, KeepStep, PlaceStep, FinishStep DEF Next
  <2>3. QED
    BY <2>1, <2>2
<1>2. P!IInv'
  BY <1>1, P!NextIInv, BestFitListAssumption DEF ListInv
<1>3. QED
  BY <1>1, <1>2 DEF ListInv

-----------------------------------------------------------------------------
(* The theorems.                                                           *)

\* The two instances of BestFitArena say the same of the lists.
LEMMA SameStates == P!Init => Sets!Init
BY Zenon DEF P!Init, Sets!Init, P!NoRequest, Sets!NoRequest

LEMMA SameSteps == [P!Next]_P!vars => [Sets!Next]_Sets!vars
BY Zenon DEF P!Next, Sets!Next, P!vars, Sets!vars, P!Step, Sets!Step,
       P!Consider, Sets!Consider, P!Expire, Sets!Expire, P!Expired, Sets!Expired,
       P!PlaceInFree, Sets!PlaceInFree, P!PlaceAtPeak, Sets!PlaceAtPeak,
       P!ExpiryDone, Sets!ExpiryDone, P!AddEntry, Sets!AddEntry,
       P!Finish, Sets!Finish, P!NoRequest, Sets!NoRequest,
       P!Align, Sets!Align, P!ALIGNMENT, Sets!ALIGNMENT,
       P!Fitting, Sets!Fitting, P!BestFit, Sets!BestFit,
       P!TakeBestFit, Sets!TakeBestFit, P!InsertFreeBlock, Sets!InsertFreeBlock,
       P!End, Sets!End

\* The free list and the scan keep their invariant, for all tensors, lives, sizes
\* and limits.
THEOREM ListInvariant == Spec => []ListInv
BY InitListInv, NextListInv, PTL DEF Spec

\* The sorted list merged in one pass and the list rebuilt while it is scanned do,
\* step by step, what the sets of BestFitArena do: the loop of plan_memory
\* implements the packing loop whose plans are proved free of overlaps.
THEOREM ListsImplementBestFit == Spec => ImplementsBestFit
<1>1. Init => Sets!Init
  BY InitListInv, SameStates
<1>2. ListInv /\ [Next]_vars => [Sets!Next]_Sets!vars
  BY NextListInv, SameSteps
<1>3. QED
  BY <1>1, <1>2, ListInvariant, PTL DEF Spec, ImplementsBestFit, Sets!Spec

\* So no two tensors that are needed at the same node share a byte of an arena that
\* the lists have packed.
THEOREM ListPlansDisjoint == Spec => []P!NoLiveOverlap
BY ListInvariant, PTL DEF ListInv, P!IInv

\* The list stays in order of offset with a gap after every block, no active tensor
\* is listed twice, and no scan is left unfinished when the loop ends.
THEOREM ListsAlwaysWellFormed == Spec => []ListsWellFormed
<1>1. ListInv => ListsWellFormed
  <2> SUFFICES ASSUME ListInv PROVE ListsWellFormed
    OBVIOUS
  <2>1. \A i, j \in DOMAIN free_list :
          i < j => free_list[i].off + free_list[i].size < free_list[j].off
    <3>1. free_list \in Seq(P!Blocks) /\ Gapped(free_list)
      BY DEF ListInv, FreeListInOrder
    <3>2. DOMAIN free_list = 1 .. Len(free_list)
      BY <3>1
    <3>3. QED
      BY <3>1, <3>2 DEF Gapped, P!End
  <2>2. IsInjective(still_active \o active)
    <3> DEFINE K == Len(still_active)
               M == Len(active)
               ids == still_active \o active
    <3>1. /\ active \in Seq(Tensors) /\ Distinct(active)
          /\ still_active \in Seq(Tensors) /\ Distinct(still_active)
          /\ \A t \in ToSet(still_active) : t \notin ToSet(active)
      BY DEF ListInv, ScanInOrder
    <3>2. /\ ids \in Seq(Tensors) /\ Len(ids) = K + M
          /\ \A i \in 1 .. K + M : ids[i] = IF i <= K THEN still_active[i] ELSE active[i - K]
      BY <3>1, ConcatProperties
    <3>3. K \in Nat /\ M \in Nat
      BY <3>1
    <3>4. /\ \A i \in 1 .. K : still_active[i] \in ToSet(still_active)
          /\ \A i \in 1 .. M : active[i] \in ToSet(active)
      BY <3>1 DEF ToSet
    <3> HIDE DEF ids, K, M
    <3>5. ASSUME NEW i \in 1 .. K + M, NEW j \in 1 .. K + M, i < j PROVE ids[i] # ids[j]
      <4>1. CASE j <= K
        <5>1. /\ i \in 1 .. K /\ j \in 1 .. K /\ i # j
              /\ ids[i] = still_active[i] /\ ids[j] = still_active[j]
          BY <3>2, <3>3, <3>5, <4>1
        <5>2. QED
          BY <3>1, <5>1 DEF Distinct, K
      <4>2. CASE i <= K /\ ~(j <= K)
        <5>1. /\ i \in 1 .. K /\ j - K \in 1 .. M
              /\ ids[i] = still_active[i] /\ ids[j] = active[j - K]
          BY <3>2, <3>3, <4>2
        <5>2. QED
          BY <3>1, <3>4, <5>1
      <4>3. CASE ~(i <= K)
        <5>1. /\ i - K \in 1 .. M /\ j - K \in 1 .. M /\ i - K # j - K
              /\ ids[i] = active[i - K] /\ ids[j] = active[j - K]
          BY <3>2, <3>3, <3>5, <4>3
        <5>2. QED
          BY <3>1, <5>1 DEF Distinct, M
      <4>4. QED
        BY <3>3, <3>5, <4>1, <4>2, <4>3
    <3>6. DOMAIN ids = 1 .. K + M
      BY <3>2, <3>3
    <3>7. \A i, j \in 1 .. K + M : ids[i] = ids[j] => i = j
      <4> SUFFICES ASSUME NEW i \in 1 .. K + M, NEW j \in 1 .. K + M, i # j
                   PROVE  ids[i] # ids[j]
        OBVIOUS
      <4>1. i < j \/ j < i
        BY <3>3
      <4>2. QED
        BY <3>5, <4>1
    <3>8. QED
      BY <3>6, <3>7 DEF IsInjective, ids
  <2>3. status # "planning" => still_active = << >>
    BY DEF ListInv, ScanInOrder, P!IInv, P!PlanOrder
  <2>4. QED
    BY <2>1, <2>2, <2>3 DEF ListsWellFormed
<1>2. QED
  BY <1>1, ListInvariant, PTL
=============================================================================
