----------------------- MODULE KernelDispatch_proofs ------------------------
(***************************************************************************)
(* Theorems about the choice of kernels and their execution: for every     *)
(* graph, profile, build and conversion, every table of host kernels and   *)
(* every number of runs.                                                   *)
(***************************************************************************)
EXTENDS KernelDispatch, NaturalOrder

-----------------------------------------------------------------------------
(* The registry.                                                           *)

\* The ops of the graph, and the names of backends and kinds that specs use.
Ops == {graph.nodes[node].op : node \in Nodes}
Backends == {"ref", "cpu", "simd"}
Kinds == SimdConvKinds \cup {"reference", "direct", "int8_im2col_gemm", "bnns_fp32"}

\* An entry of the host's table: Register copies op, backend and kind from a spec.
UserKernel ==
    [op : Ops, backend : Backends, kind : Kinds, priority : Int, supports : BOOLEAN]

\* The entries of the host's table have numbers for priorities.
LEMMA UsersTyped ==
  ASSUME users \in Seq(UserKernel)
  PROVE  /\ Len(users) \in Nat /\ DOMAIN users = 1..Len(users)
         /\ \A j \in 1..Len(users) : /\ users[j].priority \in Int
                                     /\ users[j].supports \in BOOLEAN
<1>1. \A u \in UserKernel : u.priority \in Int /\ u.supports \in BOOLEAN
  BY DEF UserKernel
<1>2. \A j \in 1..Len(users) : users[j] \in UserKernel
  OBVIOUS
<1>3. Len(users) \in Nat /\ DOMAIN users = 1..Len(users)
  OBVIOUS
<1>4. QED
  BY <1>1, <1>2, <1>3

\* The best of the host's first n kernels for an op and a spec: none has a
\* higher priority, and an earlier one has a lower.
Best(b, op, spec, n) ==
    \/ /\ b.kernel = Found("none", 0) /\ b.priority = -1
       /\ \A j \in 1..n : IsFor(j, op, spec) => users[j].priority < 0
    \/ \E i \in 1..n :
          /\ b.kernel = Found("user", i) /\ b.priority = users[i].priority
          /\ IsFor(i, op, spec) /\ users[i].priority >= 0
          /\ \A j \in 1..n : IsFor(j, op, spec) =>
                /\ users[j].priority <= users[i].priority
                /\ j < i => users[j].priority < users[i].priority

\* The loop of find_kernel over the host's table keeps the best so far.
LEMMA LoopKeepsBest ==
  ASSUME NEW op, NEW spec, users \in Seq(UserKernel)
  PROVE  Best(BestUser(op, spec)[Len(users)], op, spec, Len(users))
<1> DEFINE start == [kernel |-> Found("none", 0), priority |-> -1]
           Step(b, i) == IF IsFor(i, op, spec) /\ users[i].priority > b.priority
                         THEN [kernel |-> Found("user", i), priority |-> users[i].priority]
                         ELSE b
           Body(f, n) == [i \in 0..n |-> IF i = 0 THEN start ELSE Step(f[i - 1], i)]
           Done == {n \in Nat : \E f : f = Body(f, n)}
           best == CHOOSE f : f = Body(f, Len(users))
           Kept == {n \in Nat : n <= Len(users) => Best(best[n], op, spec, n)}
<1> HIDE DEF start, Step
<1>1. Len(users) \in Nat /\ DOMAIN users = 1..Len(users)
  OBVIOUS
<1>2. \A n \in Nat : n \in Done
  <2>1. 0 \in Done
    <3> DEFINE f == [i \in 0..0 |-> start]
    <3>1. f = Body(f, 0)
      OBVIOUS
    <3>2. QED
      BY <3>1
  <2>2. ASSUME NEW n \in Nat, n \in Done PROVE n + 1 \in Done
    <3>1. PICK f : f = Body(f, n)
      BY <2>2
    <3> DEFINE h == [i \in 0..(n + 1) |-> IF i <= n THEN f[i] ELSE Step(f[n], n + 1)]
    <3>2. \A i \in 0..(n + 1) : h[i] = IF i = 0 THEN start ELSE Step(h[i - 1], i)
      <4>1. \A i \in 1..(n + 1) : i - 1 \in 0..n /\ h[i - 1] = f[i - 1]
        OBVIOUS
      <4>2. \A i \in 0..n : f[i] = IF i = 0 THEN start ELSE Step(f[i - 1], i)
        BY <3>1
      <4>3. QED
        BY <4>1, <4>2
    <3>3. h = [i \in 0..(n + 1) |-> h[i]]
      OBVIOUS
    <3> HIDE DEF h
    <3>4. h = Body(h, n + 1)
      BY <3>2, <3>3
    <3>5. QED
      BY <3>4
  <2> HIDE DEF Done
  <2>3. QED
    BY <2>1, <2>2, NaturalInduction
<1>3. best = Body(best, Len(users))
  <2>1. \E f : f = Body(f, Len(users))
    BY <1>1, <1>2
  <2> HIDE DEF Body
  <2>2. QED
    BY <2>1
<1>4. BestUser(op, spec) = best
  BY Zenon DEF BestUser, start, Step
<1> HIDE DEF best
<1>5. best[0] = start /\ \A n \in Nat : n + 1 <= Len(users) => best[n + 1] = Step(best[n], n + 1)
  BY <1>1, <1>3
<1>6. \A n \in Nat : n \in Kept
  <2>1. 0 \in Kept
    BY <1>5 DEF Best, start
  <2>2. ASSUME NEW n \in Nat, n \in Kept PROVE n + 1 \in Kept
    <3> SUFFICES ASSUME n + 1 <= Len(users) PROVE Best(best[n + 1], op, spec, n + 1)
      OBVIOUS
    <3>1. Best(best[n], op, spec, n) /\ best[n + 1] = Step(best[n], n + 1)
      BY <1>5, <2>2
    <3>2. \A j \in 1..(n + 1) : users[j].priority \in Int /\ (j \in 1..n \/ j = n + 1)
      BY <1>1, UsersTyped
    <3>3. best[n].priority \in Int /\ best[n].priority >= -1
      BY <3>1, <3>2 DEF Best
    <3>4. CASE IsFor(n + 1, op, spec) /\ users[n + 1].priority > best[n].priority
      <4>1. /\ best[n + 1].kernel = Found("user", n + 1)
            /\ best[n + 1].priority = users[n + 1].priority
        BY <3>1, <3>4 DEF Step
      <4>2. /\ users[n + 1].priority >= 0
            /\ \A j \in 1..n : IsFor(j, op, spec) => users[j].priority < users[n + 1].priority
        BY <3>1, <3>2, <3>3, <3>4 DEF Best
      <4>3. QED
        BY <3>2, <3>4, <4>1, <4>2 DEF Best
    <3>5. CASE ~(IsFor(n + 1, op, spec) /\ users[n + 1].priority > best[n].priority)
      <4>1. best[n + 1] = best[n]
        BY <3>1, <3>5 DEF Step
      <4>2. QED
        BY <3>1, <3>2, <3>3, <3>5, <4>1 DEF Best
    <3>6. QED
      BY <3>4, <3>5
  <2> HIDE DEF Kept
  <2>3. QED
    BY <2>1, <2>2, NaturalInduction
<1>7. QED
  BY <1>1, <1>4, <1>6

\* find_kernel, for a table of any length.
LEMMA FoundIsPreferred ==
  ASSUME NEW op, NEW spec, users \in Seq(UserKernel)
  PROVE  FindKernel(op, spec) = Preferred(op, spec)
<1> DEFINE b == BestUser(op, spec)[Len(users)]
           mine == {i \in DOMAIN users :
                       /\ users[i].op = op /\ users[i].backend = spec.backend
                       /\ users[i].kind = spec.kind /\ users[i].priority >= 0}
           top == {i \in mine : \A j \in mine : users[j].priority <= users[i].priority}
<1>1. /\ Len(users) \in Nat /\ DOMAIN users = 1..Len(users)
      /\ \A j \in DOMAIN users : users[j].priority \in Int
  BY UsersTyped
<1>2. Best(b, op, spec, Len(users))
  BY LoopKeepsBest
<1>3. \A i : i \in mine <=> i \in 1..Len(users) /\ IsFor(i, op, spec) /\ users[i].priority >= 0
  BY <1>1 DEF IsFor
<1>4. FindKernel(op, spec) = IF Builtin(op, spec) # "none" /\ 0 > b.priority
                             THEN Found("builtin", Builtin(op, spec)) ELSE b.kernel
  BY DEF FindKernel
<1>5. Preferred(op, spec) =
        IF mine # {} THEN Found("user", CHOOSE i \in top : \A j \in top : i <= j)
        ELSE IF Builtin(op, spec) = "none" THEN Found("none", 0)
        ELSE Found("builtin", Builtin(op, spec))
  BY DEF Preferred
<1> HIDE DEF b, mine
<1>6. CASE mine = {}
  <2>1. b.kernel = Found("none", 0) /\ b.priority = -1
    BY <1>2, <1>3, <1>6 DEF Best
  <2>2. QED
    BY <1>4, <1>5, <1>6, <2>1
<1>7. CASE mine # {}
  <2>1. PICK i \in 1..Len(users) :
            /\ b.kernel = Found("user", i) /\ b.priority = users[i].priority
            /\ IsFor(i, op, spec) /\ users[i].priority >= 0
            /\ \A j \in 1..Len(users) : IsFor(j, op, spec) =>
                  /\ users[j].priority <= users[i].priority
                  /\ j < i => users[j].priority < users[i].priority
    BY <1>2, <1>3, <1>7, <1>1 DEF Best
  <2>2. i \in top /\ \A j \in top : i <= j
    BY <1>1, <1>3, <2>1
  <2>3. \A j \in top : (\A l \in top : j <= l) => j = i
    BY <1>1, <1>3, <2>2
  <2> HIDE DEF top
  <2>4. (CHOOSE j \in top : \A l \in top : j <= l) = i
    BY <2>2, <2>3, Zenon
  <2>5. ~(0 > b.priority)
    BY <1>1, <2>1
  <2>6. QED
    BY <1>4, <1>5, <1>7, <2>1, <2>4, <2>5
<1>8. QED
  BY <1>6, <1>7

-----------------------------------------------------------------------------
(* Shapes and scratch.                                                     *)

\* Min and Max of the community modules, on two integers.
LEMMA SmallerLarger ==
  ASSUME NEW a \in Int, NEW b \in Int
  PROVE  /\ Min({a, b}) = IF a <= b THEN a ELSE b
         /\ Max({a, b}) = IF a <= b THEN b ELSE a
<1>1. Min({a, b}) = IF a <= b THEN a ELSE b
  <2> DEFINE m == IF a <= b THEN a ELSE b
  <2>1. m \in {a, b} /\ \A y \in {a, b} : m <= y
    OBVIOUS
  <2>2. \A x \in {a, b} : (\A y \in {a, b} : x <= y) => x = m
    OBVIOUS
  <2> HIDE DEF m
  <2>3. (CHOOSE x \in {a, b} : \A y \in {a, b} : x <= y) = m
    BY <2>1, <2>2, Zenon
  <2>4. QED
    BY <2>3 DEF Min, m
<1>2. Max({a, b}) = IF a <= b THEN b ELSE a
  <2> DEFINE m == IF a <= b THEN b ELSE a
  <2>1. m \in {a, b} /\ \A y \in {a, b} : m >= y
    OBVIOUS
  <2>2. \A x \in {a, b} : (\A y \in {a, b} : x >= y) => x = m
    OBVIOUS
  <2> HIDE DEF m
  <2>3. (CHOOSE x \in {a, b} : \A y \in {a, b} : x >= y) = m
    BY <2>1, <2>2, Zenon
  <2>4. QED
    BY <2>3 DEF Max, m
<1>3. QED
  BY <1>1, <1>2

\* Rounding up to 16 bytes.
LEMMA Aligned ==
  ASSUME NEW b \in Nat
  PROVE  Align16(b) \in Nat /\ Align16(b) >= b /\ Align16(0) = 0
BY DEF Align16

\* Products of naturals.
LEMMA ProductsGrow ==
  ASSUME NEW a \in Nat, NEW b \in Nat
  PROVE  /\ a * b \in Nat
         /\ b > 0 => a * b >= a
         /\ a > 0 /\ b > 0 => a * b > 0
OBVIOUS

\* Multiplication keeps an order.
LEMMA ProductsOrdered ==
  ASSUME NEW a \in Nat, NEW b \in Nat, NEW c \in Nat, a <= b
  PROVE  a * c <= b * c
OBVIOUS

\* Division of naturals.
LEMMA Quotient ==
  ASSUME NEW a \in Nat, NEW b \in Nat \ {0}
  PROVE  /\ a \div b \in Nat /\ (a \div b) * b <= a
         /\ \A c \in Nat : c * b <= a => c <= a \div b
OBVIOUS

\* The numbers of a convolution: nothing is empty.
LEMMA ConvNumbers ==
  ASSUME NEW n \in Node, WellShaped(n), n.op = "Conv"
  PROVE  /\ n.c \in Nat \ {0} /\ n.oc \in Nat \ {0} /\ n.h \in Nat \ {0} /\ n.k \in Nat \ {0}
         /\ n.group \in Nat \ {0} /\ n.p \in Nat /\ n.s \in Nat \ {0} /\ n.d \in Nat \ {0}
         /\ OutSize(n) \in Nat \ {0}
         /\ Spatial(n) \in Nat /\ Spatial(n) >= OutSize(n)
         /\ GroupColumns(n) \in Nat \ {0} /\ Columns(n) \in Nat
         /\ GroupColumns(n) <= Columns(n)
         /\ Tiles(n, 2) \in Nat /\ Tiles(n, 4) \in Nat
<1>1. /\ n.c \in Nat \ {0} /\ n.oc \in Nat \ {0} /\ n.h \in Nat \ {0} /\ n.k \in Nat \ {0}
      /\ n.group \in Nat \ {0} /\ n.p \in Nat /\ n.s \in Nat \ {0} /\ n.d \in Nat \ {0}
  <2>1. /\ n.c \in Nat /\ n.oc \in Nat /\ n.h \in Nat /\ n.k \in Nat
        /\ n.group \in Nat /\ n.p \in Nat /\ n.s \in Nat /\ n.d \in Nat
    BY DEF Node
  <2>2. 0 \notin {n.c, n.oc, n.k, n.s, n.d, n.group, n.h}
    BY DEF WellShaped
  <2>3. QED
    BY <2>1, <2>2
<1>2. OutSize(n) \in Nat \ {0}
  <2>1. n.d * (n.k - 1) \in Int
    BY <1>1
  <2>2. OutSize(n) \in Int
    BY <1>1, <2>1 DEF OutSize
  <2>3. OutSize(n) >= 1
    BY DEF WellShaped
  <2>4. QED
    BY <2>2, <2>3
<1>3. Spatial(n) \in Nat /\ Spatial(n) >= OutSize(n)
  BY <1>2, ProductsGrow DEF Spatial
<1>4. n.c \div n.group \in Nat \ {0} /\ n.c \div n.group <= n.c
  <2>1. n.c % n.group = 0
    BY DEF WellShaped
  <2>2. n.group <= n.c
    BY <1>1, <2>1
  <2>3. QED
    BY <1>1, <2>2
<1>5. GroupColumns(n) \in Nat \ {0} /\ Columns(n) \in Nat /\ GroupColumns(n) <= Columns(n)
  <2> DEFINE a == n.c \div n.group
  <2>1. a \in Nat /\ a > 0 /\ a <= n.c
    BY <1>4
  <2> HIDE DEF a
  <2>2. a * n.k \in Nat /\ a * n.k > 0 /\ n.c * n.k \in Nat /\ a * n.k <= n.c * n.k
    BY <1>1, <2>1, ProductsGrow, ProductsOrdered
  <2> DEFINE ak == a * n.k
             ck == n.c * n.k
  <2> HIDE DEF ak, ck
  <2>3. ak * n.k \in Nat /\ ak * n.k > 0 /\ ck * n.k \in Nat /\ ak * n.k <= ck * n.k
    <3>1. ak \in Nat /\ ak > 0 /\ ck \in Nat /\ ak <= ck
      BY <2>2 DEF ak, ck
    <3>2. QED
      BY <1>1, <3>1, ProductsGrow, ProductsOrdered
  <2>4. GroupColumns(n) = ak * n.k /\ Columns(n) = ck * n.k
    BY DEF GroupColumns, Columns, ak, ck, a
  <2>5. QED
    BY <2>3, <2>4
<1>6. Tiles(n, 2) \in Nat /\ Tiles(n, 4) \in Nat
  <2>1. \A size \in {2, 4} : (OutSize(n) + size - 1) \div size \in Nat
    BY <1>2
  <2>2. QED
    BY <2>1, ProductsGrow DEF Tiles
<1>7. QED
  BY <1>1, <1>2, <1>3, <1>5, <1>6

\* _estimate_scratch_bytes covers what each kernel will write.
LEMMA EstimateCovers ==
  ASSUME NEW n \in Node, WellShaped(n), NEW backend, NEW kind
  PROVE  /\ EstimateScratchBytes(n, backend, kind) \in Nat
         /\ EstimateScratchBytes(n, "ref", "reference") = 0
         /\ n.op = "Conv" =>
               /\ kind = "winograd_f43" =>
                     EstimateScratchBytes(n, backend, kind)
                       >= Min({36 * (n.c + n.oc) * Tiles(n, 4) * 4, SimdTileBytes})
               /\ kind = "int8_im2col_gemm" =>
                     EstimateScratchBytes(n, backend, kind)
                       >= n.c * n.h * n.h + Columns(n) * Spatial(n) + n.oc * Spatial(n) * 4
               /\ (kind = "im2col_gemm" /\ backend = "simd") =>
                     EstimateScratchBytes(n, backend, kind)
                       >= Min({Columns(n) * Spatial(n) * 4, SegmentCap})
               /\ (kind = "im2col_gemm" /\ backend = "cpu") =>
                     EstimateScratchBytes(n, backend, kind) >= Columns(n) * 4
<1>1. CASE n.op # "Conv"
  BY <1>1, Aligned DEF EstimateScratchBytes
<1>2. CASE n.op = "Conv"
  <2> DEFINE f23 == Min({16 * (n.c + n.oc) * Tiles(n, 2) * 4, SimdTileBytes})
             f43 == Min({36 * (n.c + n.oc) * Tiles(n, 4) * 4, SimdTileBytes})
             int8 == n.c * n.h * n.h + Columns(n) * Spatial(n) + AccumulatorBytes(n)
             simd == Min({Columns(n) * Spatial(n) * 4, SegmentCap})
             cpu == Columns(n) * 4
             raw == IF kind = "winograd_3x3s1" THEN f23
                    ELSE IF kind = "winograd_f43" THEN f43
                    ELSE IF kind = "int8_im2col_gemm" THEN int8
                    ELSE IF kind = "im2col_gemm" /\ backend = "simd" THEN simd
                    ELSE IF kind = "im2col_gemm" /\ backend = "cpu" THEN cpu
                    ELSE 0
  <2>1. EstimateScratchBytes(n, backend, kind) = Align16(raw)
    BY <1>2 DEF EstimateScratchBytes
  <2>2. EstimateScratchBytes(n, "ref", "reference") = 0
    BY <1>2, Aligned DEF EstimateScratchBytes
  <2>3. f23 \in Nat /\ f43 \in Nat
    <3>1. /\ n.c \in Nat /\ n.oc \in Nat /\ Tiles(n, 2) \in Nat /\ Tiles(n, 4) \in Nat
      BY <1>2, ConvNumbers
    <3>2. /\ 16 * (n.c + n.oc) * Tiles(n, 2) * 4 \in Nat
          /\ 36 * (n.c + n.oc) * Tiles(n, 4) * 4 \in Nat
      BY <3>1
    <3>3. SimdTileBytes \in Nat
      BY DEF SimdTileBytes, MiB
    <3>4. QED
      BY <3>2, <3>3, SmallerLarger
  <2>4. int8 \in Nat /\ int8 = n.c * n.h * n.h + Columns(n) * Spatial(n) + n.oc * Spatial(n) * 4
    <3>1. /\ n.c \in Nat /\ n.oc \in Nat /\ n.h \in Nat /\ Columns(n) \in Nat
          /\ Spatial(n) \in Nat
      BY <1>2, ConvNumbers
    <3>2. /\ n.c * n.h * n.h \in Nat /\ Columns(n) * Spatial(n) \in Nat
          /\ n.oc * Spatial(n) * 4 \in Nat
      BY <3>1
    <3>3. QED
      BY <3>2 DEF AccumulatorBytes
  <2>5. simd \in Nat /\ cpu \in Nat
    <3>1. Columns(n) \in Nat /\ Spatial(n) \in Nat
      BY <1>2, ConvNumbers
    <3>2. Columns(n) * Spatial(n) * 4 \in Nat /\ SegmentCap \in Nat
      BY <3>1 DEF SegmentCap, MiB
    <3>3. QED
      BY <3>1, <3>2, SmallerLarger
  <2> HIDE DEF f23, f43, int8, simd
  <2>6. raw \in Nat
    BY <2>3, <2>4, <2>5
  <2>7. Align16(raw) \in Nat /\ Align16(raw) >= raw
    BY <2>6, Aligned
  <2>8. QED
    BY <1>2, <2>1, <2>2, <2>4, <2>5, <2>6, <2>7 DEF f43, simd
<1>3. QED
  BY <1>1, <1>2

\* The im2col buffer of kernel_conv_simd: its segment fits in a scratch that has
\* room for one row of the output.
LEMMA SegmentFits ==
  ASSUME NEW n \in Node, WellShaped(n), n.op = "Conv", NEW scratch \in Nat,
         GroupColumns(n) * OutSize(n) * 4 <= scratch
  PROVE  SegmentBytes(n, scratch) <= scratch
<1> DEFINE G == GroupColumns(n)
           O == OutSize(n)
           cells == scratch \div 4
           fit == cells \div G
           rows == (fit \div O) * O
<1>1. G \in Nat \ {0} /\ O \in Nat \ {0} /\ Spatial(n) \in Nat /\ Spatial(n) >= O
  BY ConvNumbers
<1> HIDE DEF G, O
<1>2. cells \in Nat /\ cells * 4 <= scratch /\ G * O <= cells
  <2>1. G * O \in Nat /\ (G * O) * 4 <= scratch
    BY <1>1 DEF G, O
  <2>2. QED
    BY <2>1
<1> HIDE DEF cells
<1>3. fit \in Nat /\ fit * G <= cells /\ O <= fit
  <2>1. O * G <= cells
    BY <1>1, <1>2
  <2>2. QED
    BY <1>1, <1>2, <2>1, Quotient
<1> HIDE DEF fit
<1>4. rows \in Nat /\ rows <= fit /\ rows > 0
  <2> DEFINE q == fit \div O
  <2>1. q \in Nat /\ q * O <= fit /\ 1 <= q
    BY <1>1, <1>3, Quotient
  <2> HIDE DEF q
  <2>2. q * O \in Nat /\ q * O > 0
    BY <1>1, <2>1, ProductsGrow
  <2>3. QED
    BY <2>1, <2>2 DEF q
<1> HIDE DEF rows
<1> DEFINE segment == IF rows > Spatial(n) THEN Spatial(n) ELSE rows
<1>5. SegmentBytes(n, scratch) = G * 4 * segment
  <2>1. ~(fit <= 0) /\ ~(rows <= 0)
    BY <1>1, <1>3, <1>4
  <2>2. SegmentBytes(n, scratch) =
          LET columns == IF fit <= 0 THEN Spatial(n) ELSE fit
              r == (columns \div O) * O
              seg == IF r <= 0 THEN O ELSE r
          IN  G * 4 * (IF seg > Spatial(n) THEN Spatial(n) ELSE seg)
    BY DEF SegmentBytes, fit, cells, G, O
  <2>3. (fit \div O) * O = rows
    BY DEF rows
  <2>4. QED
    BY <2>1, <2>2, <2>3
<1>6. segment \in Nat /\ segment <= fit
  BY <1>1, <1>3, <1>4
<1> HIDE DEF segment
<1>7. segment * G <= fit * G /\ segment * G \in Nat /\ fit * G \in Nat
  BY <1>1, <1>3, <1>6, ProductsOrdered, ProductsGrow
<1>8. G * 4 * segment = (segment * G) * 4
  BY <1>1, <1>6
<1>9. QED
  BY <1>2, <1>3, <1>5, <1>7, <1>8

-----------------------------------------------------------------------------
(* The selection.                                                          *)

\* What makes a kernel eligible for a node, whatever the profile.
Eligible(g, n, backend, kind) ==
    \/ backend = "ref" /\ kind = "reference"
    \/ /\ n.op = "Conv" /\ backend = "simd"
       /\ \/ kind = "bnns_fp32"
          \/ kind = "pointwise_1x1" /\ n.k = 1 /\ n.s = 1 /\ n.p = 0
          \/ kind = "depthwise_direct" /\ n.group = n.c /\ n.group = n.oc
          \/ kind = "winograd_f43" /\ WinogradPays(n)
          \/ kind = "conv3x3s2_direct" /\ Plain3x3(n, 2)
          \/ kind = "im2col_gemm"
          \/ kind = "int8_im2col_gemm" /\ n.w # 0 /\ g.weights[n.w].dtype = "int8"
    \/ n.op = "Conv" /\ backend = "cpu" /\ kind = "im2col_gemm"
    \/ n.op \in {"Gemm", "MatMul"} /\ backend = "simd" /\ kind = "direct"
    \/ n.op = "Gemm" /\ backend = "cpu" /\ kind = "direct"
    \/ n.op \in SimdReferenceOps /\ backend = "simd" /\ kind = "reference"

\* The halves of a choice.
LEMMA Pairs ==
  ASSUME NEW a, NEW b
  PROVE  <<a, b>>[1] = a /\ <<a, b>>[2] = b /\ <<a, b>> # None
<1>1. <<a, b>>[1] = a /\ <<a, b>>[2] = b
  OBVIOUS
<1>2. Len(<<a, b>>) = 2 /\ Len(<<>>) = 0
  OBVIOUS
<1>3. <<a, b>> # <<>>
  BY <1>2
<1>4. QED
  BY <1>1, <1>3 DEF None

\* _select_simd_conv_kind gives an eligible kernel.
LEMMA SimdChoiceEligible ==
  ASSUME NEW g, NEW n, NEW tokens, n.op = "Conv", SelectSimdConvKind(n, tokens) # None
  PROVE  LET choice == SelectSimdConvKind(n, tokens)
         IN  choice[1] \in Backends /\ choice[2] \in Kinds /\ Eligible(g, n, choice[1], choice[2])
<1> DEFINE choice == SelectSimdConvKind(n, tokens)
<1>1. \/ choice = <<"simd", "bnns_fp32">>
      \/ choice = <<"simd", "pointwise_1x1">> /\ n.k = 1 /\ n.s = 1 /\ n.p = 0
      \/ choice = <<"simd", "depthwise_direct">> /\ n.group = n.c /\ n.group = n.oc
      \/ choice = <<"simd", "winograd_f43">> /\ WinogradPays(n)
      \/ choice = <<"simd", "conv3x3s2_direct">> /\ Plain3x3(n, 2)
      \/ choice = <<"simd", "im2col_gemm">>
  <2> DEFINE c1 == "simd_bnns_fp32" \in tokens /\ n.group = 1
             c2 == /\ "simd_pointwise_1x1" \in tokens
                   /\ n.group = 1 /\ n.k = 1 /\ n.s = 1 /\ n.p = 0 /\ n.d = 1
             c3 == /\ "simd_depthwise_direct" \in tokens
                   /\ n.group = n.c /\ n.group = n.oc /\ n.k = 3 /\ n.d = 1
             c4 == "simd_winograd_f43" \in tokens /\ WinogradPays(n)
             c5 == "simd_conv3x3s2_direct" \in tokens /\ Plain3x3(n, 2)
             c6 == "simd_im2col_gemm" \in tokens
  <2>1. choice = IF c1 THEN <<"simd", "bnns_fp32">> ELSE IF c2 THEN <<"simd", "pointwise_1x1">>
                 ELSE IF c3 THEN <<"simd", "depthwise_direct">>
                 ELSE IF c4 THEN <<"simd", "winograd_f43">>
                 ELSE IF c5 THEN <<"simd", "conv3x3s2_direct">>
                 ELSE IF c6 THEN <<"simd", "im2col_gemm">> ELSE None
    BY Zenon DEF SelectSimdConvKind
  <2>2. /\ c2 => n.k = 1 /\ n.s = 1 /\ n.p = 0
        /\ c3 => n.group = n.c /\ n.group = n.oc
        /\ c4 => WinogradPays(n)
        /\ c5 => Plain3x3(n, 2)
    OBVIOUS
  <2> HIDE DEF c1, c2, c3, c4, c5, c6
  <2>3. QED
    BY <2>1, <2>2
<1> HIDE DEF choice
<1>2. Eligible(g, n, choice[1], choice[2])
  BY <1>1, Pairs DEF Eligible
<1>3. choice[1] \in Backends /\ choice[2] \in Kinds
  BY <1>1, Pairs DEF Backends, Kinds, SimdConvKinds
<1>4. QED
  BY <1>2, <1>3 DEF choice

\* _select_primary_spec gives an eligible kernel.
LEMMA ChoiceEligible ==
  ASSUME NEW g, NEW n, NEW tokens, SelectPrimarySpec(g, n, tokens) # None
  PROVE  LET choice == SelectPrimarySpec(g, n, tokens)
         IN  choice[1] \in Backends /\ choice[2] \in Kinds /\ Eligible(g, n, choice[1], choice[2])
<1> DEFINE choice == SelectPrimarySpec(g, n, tokens)
           simdConv == SelectSimdConvKind(n, tokens)
<1>1. \/ /\ choice = <<"simd", "int8_im2col_gemm">> /\ n.op = "Conv"
         /\ n.w # 0 /\ g.weights[n.w].dtype = "int8"
      \/ choice = simdConv /\ simdConv # None /\ n.op = "Conv"
      \/ choice = <<"simd", "direct">> /\ n.op \in {"Gemm", "MatMul"}
      \/ choice = <<"simd", "reference">> /\ n.op \in SimdReferenceOps
      \/ choice = <<"cpu", "im2col_gemm">> /\ n.op = "Conv"
      \/ choice = <<"cpu", "direct">> /\ n.op = "Gemm"
      \/ choice = <<"ref", "reference">>
  <2> DEFINE c1 == /\ n.op = "Conv" /\ n.w # 0 /\ g.weights[n.w].dtype = "int8" /\ n.group = 1
                   /\ "simd_int8_im2col_gemm" \in tokens
             c2 == n.op = "Conv" /\ simdConv # None
             c3 == n.op \in {"Gemm", "MatMul"} /\ "simd_direct" \in tokens
             c4 == n.op \in SimdReferenceOps /\ "simd" \in tokens
             c5 == n.op = "Conv" /\ "im2col_gemm" \in tokens
             c6 == n.op = "Gemm" /\ "direct" \in tokens
             c7 == tokens \cap {"reference", "ref"} # {}
  <2>1. choice = IF c1 THEN <<"simd", "int8_im2col_gemm">> ELSE IF c2 THEN simdConv
                 ELSE IF c3 THEN <<"simd", "direct">> ELSE IF c4 THEN <<"simd", "reference">>
                 ELSE IF c5 THEN <<"cpu", "im2col_gemm">> ELSE IF c6 THEN <<"cpu", "direct">>
                 ELSE IF c7 THEN <<"ref", "reference">> ELSE None
    BY DEF SelectPrimarySpec
  <2>2. /\ c1 => n.op = "Conv" /\ n.w # 0 /\ g.weights[n.w].dtype = "int8"
        /\ c2 => n.op = "Conv" /\ simdConv # None
        /\ c3 => n.op \in {"Gemm", "MatMul"}
        /\ c4 => n.op \in SimdReferenceOps
        /\ c5 => n.op = "Conv"
        /\ c6 => n.op = "Gemm"
    OBVIOUS
  <2> HIDE DEF c1, c2, c3, c4, c5, c6, c7, simdConv, choice
  <2>3. QED
    BY <2>1, <2>2 DEF choice
<1>2. CASE choice = simdConv /\ simdConv # None /\ n.op = "Conv"
  BY <1>2, SimdChoiceEligible
<1> HIDE DEF choice
<1>3. CASE ~(choice = simdConv /\ simdConv # None /\ n.op = "Conv")
  <2>1. Eligible(g, n, choice[1], choice[2])
    BY <1>1, <1>3, Pairs DEF Eligible
  <2>2. choice[1] \in Backends /\ choice[2] \in Kinds
    BY <1>1, <1>3, Pairs DEF Backends, Kinds, SimdConvKinds
  <2>3. QED
    BY <2>1, <2>2 DEF choice
<1>4. QED
  BY <1>2, <1>3 DEF choice

\* A graph of the compiler, with whatever types its weights have.
WeightTypes == {"fp32", "fp16", "int8"}

\* Nodes of any shape that is well-formed, whose weights exist.
TypedGraph(g) ==
    /\ g.nodes \in Seq(Node) /\ Len(g.nodes) > 0
    /\ \A node \in 1..Len(g.nodes) :
          LET n == g.nodes[node]
          IN  /\ WellShaped(n)
              /\ n.w # 0 => n.w \in DOMAIN g.weights /\ g.weights[n.w].dtype \in WeightTypes

\* The records that the planner makes.
KernelSpec(g) ==
    [node : 1..Len(g.nodes), backend : Backends, kind : Kinds, scratch : Nat, fallback : Int]

\* A node's spec is one that is eligible, with the scratch it asks for, and its
\* fallback is the reference kernel.
NodePlanned(g, p, node) ==
    /\ p.byNode[node] \in 1..Len(p.specs)
    /\ LET spec == p.specs[p.byNode[node]]
       IN  /\ spec.node = node
           /\ Eligible(g, g.nodes[node], spec.backend, spec.kind)
           /\ spec.scratch = EstimateScratchBytes(g.nodes[node], spec.backend, spec.kind)
           /\ spec.scratch <= p.scratch
           /\ spec.fallback # NoSpec =>
                 /\ spec.fallback \in 1..Len(p.specs)
                 /\ p.specs[spec.fallback] = FallbackRefSpec(node)

\* What select_kernel_specs has for the first n nodes, unless it gave up.
PlannedUpTo(g, p, n) ==
    /\ "error" \in DOMAIN p
    /\ p.error = "none" =>
          /\ p.specs \in Seq(KernelSpec(g))
          /\ p.byNode \in Seq(Nat) /\ Len(p.byNode) = n
          /\ p.scratch \in Nat
          /\ \A node \in 1..n : NodePlanned(g, p, node)

\* Specs that are added at the end, and a larger peak, leave a node's as they are.
LEMMA NodeStaysPlanned ==
  ASSUME NEW g, NEW p, NEW q, NEW node, NodePlanned(g, p, node),
         Len(p.specs) \in Nat, Len(q.specs) \in Nat, Len(p.specs) <= Len(q.specs),
         \A id \in 1..Len(p.specs) : q.specs[id] = p.specs[id],
         q.byNode[node] = p.byNode[node],
         p.specs[p.byNode[node]].scratch \in Nat, p.scratch \in Nat, q.scratch \in Nat,
         p.scratch <= q.scratch
  PROVE  NodePlanned(g, q, node)
<1>1. /\ q.byNode[node] \in 1..Len(q.specs)
      /\ q.specs[q.byNode[node]] = p.specs[p.byNode[node]]
  BY DEF NodePlanned
<1>2. \A id \in 1..Len(p.specs) : id \in 1..Len(q.specs) /\ q.specs[id] = p.specs[id]
  OBVIOUS
<1>3. p.specs[p.byNode[node]].scratch <= q.scratch
  BY DEF NodePlanned
<1>4. QED
  BY <1>1, <1>2, <1>3 DEF NodePlanned

\* The spec of a node and of its fallback.
LEMMA SpecMade ==
  ASSUME NEW g, TypedGraph(g), NEW node \in 1..Len(g.nodes), NEW backend \in Backends,
         NEW kind \in Kinds, NEW fallback \in Int
  PROVE  LET spec == [MakeSpec(g, node, backend, kind) EXCEPT !.fallback = fallback]
         IN  /\ spec \in KernelSpec(g) /\ spec.node = node /\ spec.backend = backend
             /\ spec.kind = kind /\ spec.fallback = fallback
             /\ spec.scratch = EstimateScratchBytes(g.nodes[node], backend, kind)
             /\ MakeSpec(g, node, "ref", "reference") = FallbackRefSpec(node)
             /\ FallbackRefSpec(node) \in KernelSpec(g)
<1> DEFINE bytes == EstimateScratchBytes(g.nodes[node], backend, kind)
           none == EstimateScratchBytes(g.nodes[node], "ref", "reference")
<1>1. g.nodes[node] \in Node /\ WellShaped(g.nodes[node])
  BY DEF TypedGraph
<1>2. bytes \in Nat /\ none = 0
  BY <1>1, EstimateCovers
<1> HIDE DEF bytes, none
<1>3. [MakeSpec(g, node, backend, kind) EXCEPT !.fallback = fallback] =
        [node |-> node, backend |-> backend, kind |-> kind, scratch |-> bytes,
         fallback |-> fallback]
  BY DEF MakeSpec, bytes
<1>4. MakeSpec(g, node, "ref", "reference") = FallbackRefSpec(node)
  BY <1>2 DEF MakeSpec, FallbackRefSpec, none
<1>5. "ref" \in Backends /\ "reference" \in Kinds /\ NoSpec \in Int
  BY DEF Backends, Kinds, NoSpec
<1>6. FallbackRefSpec(node) \in KernelSpec(g)
  BY <1>5 DEF FallbackRefSpec, KernelSpec
<1>7. [node |-> node, backend |-> backend, kind |-> kind, scratch |-> bytes,
       fallback |-> fallback] \in KernelSpec(g)
  BY <1>2 DEF KernelSpec
<1>8. QED
  BY <1>3, <1>4, <1>6, <1>7 DEF bytes

\* One round of the loop of select_kernel_specs.
LEMMA NodeSelected ==
  ASSUME NEW g, TypedGraph(g), NEW profile, NEW p, NEW node \in 1..Len(g.nodes),
         PlannedUpTo(g, p, node - 1)
  PROVE  PlannedUpTo(g, SelectForNode(g, profile, p, node), node)
<1> DEFINE n == g.nodes[node]
           tokens == profile.ops[n.op]
           choice == SelectPrimarySpec(g, n, tokens)
           id == Len(p.specs) + 1
           hasFallback == choice[2] # "reference" /\ "ref" \in tokens
           back == IF hasFallback THEN id + 1 ELSE NoSpec
           selected == [MakeSpec(g, node, choice[1], choice[2]) EXCEPT !.fallback = back]
           ref == MakeSpec(g, node, "ref", "reference")
           one == Append(p.specs, selected)
           specs == IF hasFallback THEN Append(one, ref) ELSE one
           q == [specs |-> specs, byNode |-> Append(p.byNode, id),
                 scratch |-> Max({p.scratch, selected.scratch}), error |-> "none"]
           r == SelectForNode(g, profile, p, node)
<1>1. r = IF p.error # "none" THEN p
          ELSE IF tokens = {} THEN [p EXCEPT !.error = "op"]
          ELSE IF choice = None THEN [p EXCEPT !.error = "kernel"]
          ELSE q
  BY DEF SelectForNode
<1> HIDE DEF q, r, tokens, choice
<1>2. CASE p.error # "none"
  BY <1>1, <1>2 DEF PlannedUpTo, r
<1>3. CASE p.error = "none" /\ tokens = {}
  <2>1. r = [p EXCEPT !.error = "op"] /\ "error" \in DOMAIN p
    BY <1>1, <1>3 DEF PlannedUpTo
  <2>2. r.error = "op" /\ "error" \in DOMAIN r
    BY <2>1
  <2>3. QED
    BY <2>2 DEF PlannedUpTo, r
<1>4. CASE p.error = "none" /\ tokens # {} /\ choice = None
  <2>1. r = [p EXCEPT !.error = "kernel"] /\ "error" \in DOMAIN p
    BY <1>1, <1>4 DEF PlannedUpTo
  <2>2. r.error = "kernel" /\ "error" \in DOMAIN r
    BY <2>1
  <2>3. QED
    BY <2>2 DEF PlannedUpTo, r
<1>5. CASE p.error = "none" /\ tokens # {} /\ choice # None
  <2>1. r = q
    BY <1>1, <1>5
  <2>2. /\ p.specs \in Seq(KernelSpec(g)) /\ Len(p.specs) \in Nat
        /\ p.byNode \in Seq(Nat) /\ Len(p.byNode) = node - 1 /\ p.scratch \in Nat
        /\ \A m \in 1..(node - 1) : NodePlanned(g, p, m)
    BY <1>5 DEF PlannedUpTo
  <2>3. choice[1] \in Backends /\ choice[2] \in Kinds /\ Eligible(g, n, choice[1], choice[2])
    BY <1>5, ChoiceEligible DEF choice
  <2>4. id \in Nat /\ back \in Int
    BY <2>2 DEF NoSpec
  <2>5. /\ selected \in KernelSpec(g) /\ selected.node = node /\ selected.backend = choice[1]
        /\ selected.kind = choice[2] /\ selected.fallback = back
        /\ selected.scratch = EstimateScratchBytes(n, choice[1], choice[2])
        /\ ref = FallbackRefSpec(node) /\ ref \in KernelSpec(g)
    <3> HIDE DEF back, id
    <3>1. QED
      BY <2>3, <2>4, SpecMade
  <2>6. selected.scratch \in Nat
    <3>1. \A s \in KernelSpec(g) : s.scratch \in Nat
      BY DEF KernelSpec
    <3>2. QED
      BY <2>5, <3>1
  <2> HIDE DEF selected, ref, back, id
  <2>7. /\ one \in Seq(KernelSpec(g)) /\ Len(one) = id /\ one[id] = selected
        /\ \A i \in 1..Len(p.specs) : one[i] = p.specs[i]
    BY <2>2, <2>5 DEF id
  <2> HIDE DEF one
  <2>8. /\ specs \in Seq(KernelSpec(g)) /\ Len(specs) >= id /\ Len(specs) \in Nat
        /\ \A i \in 1..id : specs[i] = one[i]
        /\ hasFallback => Len(specs) = id + 1 /\ specs[id + 1] = ref
    BY <2>4, <2>5, <2>7
  <2> HIDE DEF specs, hasFallback
  <2>9. /\ specs[id] = selected /\ \A i \in 1..Len(p.specs) : specs[i] = p.specs[i]
        /\ id = Len(p.specs) + 1 /\ id \in 1..Len(specs)
    BY <2>2, <2>7, <2>8 DEF id
  <2>10. /\ q.specs = specs /\ q.byNode = Append(p.byNode, id) /\ q.error = "none"
         /\ q.scratch = Max({p.scratch, selected.scratch}) /\ "error" \in DOMAIN q
    BY DEF q
  <2>11. /\ q.scratch \in Nat /\ p.scratch <= q.scratch /\ selected.scratch <= q.scratch
    <3>1. p.scratch \in Int /\ selected.scratch \in Int
      BY <2>2, <2>6
    <3>2. Max({p.scratch, selected.scratch}) =
            IF p.scratch <= selected.scratch THEN selected.scratch ELSE p.scratch
      BY <3>1, SmallerLarger
    <3>3. QED
      BY <2>2, <2>6, <2>10, <3>2
  <2>12. /\ q.byNode \in Seq(Nat) /\ Len(q.byNode) = node /\ q.byNode[node] = id
         /\ \A m \in 1..(node - 1) : q.byNode[m] = p.byNode[m]
    BY <2>2, <2>4, <2>10
  <2>13. NodePlanned(g, q, node)
    <3>1. selected.fallback # NoSpec => hasFallback /\ selected.fallback = id + 1
      BY <2>5 DEF back
    <3>2. selected.fallback # NoSpec => /\ selected.fallback \in 1..Len(specs)
                                        /\ specs[selected.fallback] = FallbackRefSpec(node)
      BY <2>4, <2>5, <2>8, <2>9, <3>1
    <3>3. q.specs[q.byNode[node]] = selected /\ q.byNode[node] \in 1..Len(q.specs)
      BY <2>9, <2>10, <2>12
    <3>4. QED
      BY <2>3, <2>5, <2>10, <2>11, <3>2, <3>3 DEF NodePlanned
  <2>14. ASSUME NEW m \in 1..(node - 1) PROVE NodePlanned(g, q, m)
    <3>1. NodePlanned(g, p, m) /\ q.byNode[m] = p.byNode[m]
      BY <2>2, <2>12
    <3>2. p.specs[p.byNode[m]].scratch \in Nat
      <4>1. p.byNode[m] \in 1..Len(p.specs)
        BY <3>1 DEF NodePlanned
      <4>2. p.specs[p.byNode[m]] \in KernelSpec(g)
        BY <2>2, <4>1
      <4>3. \A s \in KernelSpec(g) : s.scratch \in Nat
        BY DEF KernelSpec
      <4>4. QED
        BY <4>2, <4>3
    <3>3. /\ Len(q.specs) \in Nat /\ Len(p.specs) <= Len(q.specs)
          /\ \A i \in 1..Len(p.specs) : q.specs[i] = p.specs[i]
      BY <2>2, <2>8, <2>9, <2>10
    <3>4. QED
      BY <2>2, <2>11, <3>1, <3>2, <3>3, NodeStaysPlanned
  <2>15. \A m \in 1..node : NodePlanned(g, q, m)
    BY <2>13, <2>14
  <2>16. PlannedUpTo(g, q, node)
    BY <2>8, <2>10, <2>11, <2>12, <2>15 DEF PlannedUpTo
  <2>17. QED
    BY <2>1, <2>16 DEF r
<1>6. QED
  BY <1>2, <1>3, <1>4, <1>5

\* select_kernel_specs, for a graph of any length.
LEMMA PlanCovers ==
  ASSUME NEW g, TypedGraph(g), NEW profile
  PROVE  PlannedUpTo(g, SelectKernelSpecs(g, profile), Len(g.nodes))
<1> DEFINE Step(p, i) == SelectForNode(g, profile, p, i)
           Body(f, n) == [i \in 0..n |-> IF i = 0 THEN NoPlan ELSE Step(f[i - 1], i)]
           Done == {n \in Nat : \E f : f = Body(f, n)}
           N == Len(g.nodes)
           plans == CHOOSE f : f = Body(f, N)
           Kept == {n \in Nat : n <= N => PlannedUpTo(g, plans[n], n)}
<1>1. N \in Nat
  BY DEF TypedGraph
<1> HIDE DEF N, Step
<1>2. \A n \in Nat : n \in Done
  <2>1. 0 \in Done
    <3> DEFINE f == [i \in 0..0 |-> NoPlan]
    <3>1. f = Body(f, 0)
      OBVIOUS
    <3>2. QED
      BY <3>1
  <2>2. ASSUME NEW n \in Nat, n \in Done PROVE n + 1 \in Done
    <3>1. PICK f : f = Body(f, n)
      BY <2>2
    <3> DEFINE h == [i \in 0..(n + 1) |-> IF i <= n THEN f[i] ELSE Step(f[n], n + 1)]
    <3>2. \A i \in 0..(n + 1) : h[i] = IF i = 0 THEN NoPlan ELSE Step(h[i - 1], i)
      <4>1. \A i \in 1..(n + 1) : i - 1 \in 0..n /\ h[i - 1] = f[i - 1]
        OBVIOUS
      <4>2. \A i \in 0..n : f[i] = IF i = 0 THEN NoPlan ELSE Step(f[i - 1], i)
        BY <3>1
      <4>3. QED
        BY <4>1, <4>2
    <3>3. h = [i \in 0..(n + 1) |-> h[i]]
      OBVIOUS
    <3> HIDE DEF h
    <3>4. h = Body(h, n + 1)
      BY <3>2, <3>3
    <3>5. QED
      BY <3>4
  <2> HIDE DEF Done
  <2>3. QED
    BY <2>1, <2>2, NaturalInduction
<1>3. plans = Body(plans, N)
  <2>1. \E f : f = Body(f, N)
    BY <1>1, <1>2
  <2> HIDE DEF Body
  <2>2. QED
    BY <2>1
<1>4. SelectedUpTo(g, profile) = plans
  BY Zenon DEF SelectedUpTo, Step, N
<1> HIDE DEF plans
<1>5. plans[0] = NoPlan /\ \A n \in Nat : n + 1 <= N => plans[n + 1] = Step(plans[n], n + 1)
  BY <1>1, <1>3
<1>6. \A n \in Nat : n \in Kept
  <2>1. 0 \in Kept
    <3>1. PlannedUpTo(g, NoPlan, 0)
      BY DEF PlannedUpTo, NoPlan
    <3>2. QED
      BY <1>5, <3>1
  <2>2. ASSUME NEW n \in Nat, n \in Kept PROVE n + 1 \in Kept
    <3> SUFFICES ASSUME n + 1 <= N PROVE PlannedUpTo(g, plans[n + 1], n + 1)
      OBVIOUS
    <3>1. PlannedUpTo(g, plans[n], n) /\ plans[n + 1] = Step(plans[n], n + 1)
      BY <1>1, <1>5, <2>2
    <3>2. n + 1 \in 1..Len(g.nodes) /\ (n + 1) - 1 = n
      BY <1>1 DEF N
    <3>3. PlannedUpTo(g, SelectForNode(g, profile, plans[n], n + 1), n + 1)
      BY <3>1, <3>2, NodeSelected
    <3>4. QED
      BY <3>1, <3>3 DEF Step
  <2> HIDE DEF Kept
  <2>3. QED
    BY <2>1, <2>2, NaturalInduction
<1>7. PlannedUpTo(g, plans[N], N)
  BY <1>1, <1>6
<1> DEFINE last == plans[N]
<1>8. SelectKernelSpecs(g, profile) =
        IF last.error = "none" /\ last.scratch > profile.scratchMax
        THEN [last EXCEPT !.error = "memory"] ELSE last
  BY <1>4 DEF SelectKernelSpecs, N
<1> HIDE DEF last
<1>9. "error" \in DOMAIN last => PlannedUpTo(g, [last EXCEPT !.error = "memory"], N)
  BY DEF PlannedUpTo
<1>10. QED
  BY <1>7, <1>8, <1>9 DEF last, N, PlannedUpTo

-----------------------------------------------------------------------------
(* The conversion of the weights.                                          *)

\* The INT8 kernel finds the scales of a quantized weight, and of an input that
\* was captured.
Scaled(g) ==
    \A node \in 1..Len(g.nodes) :
        LET n == g.nodes[node]
        IN  (n.op = "Conv" /\ n.w # 0 /\ g.weights[n.w].dtype = "int8" /\ n.x \in g.captured) =>
              <<"weight", n.w>> \in g.scales /\ <<"input", n.x>> \in g.scales

\* Conversion only touches the types and the scales, and these together.
LEMMA ConversionTyped ==
  ASSUME NEW g \in Imported, NEW conversion,
         \A node \in DOMAIN g.nodes : /\ WellShaped(g.nodes[node])
                                      /\ g.nodes[node].w <= Len(g.weights)
  PROVE  LET h == Converted(g, conversion)
         IN  h.nodes = g.nodes /\ TypedGraph(h) /\ Scaled(h)
<1> DEFINE h == Converted(g, conversion)
           fp16 == [w \in DOMAIN g.weights |->
                      IF g.weights[w].dtype = "fp32" /\ g.weights[w].rank >= 2
                      THEN [g.weights[w] EXCEPT !.dtype = "fp16"] ELSE g.weights[w]]
           quantized == {g.nodes[n].w : n \in {n \in Convs(g) :
                            /\ g.nodes[n].group = 1
                            /\ g.nodes[n].w # 0
                            /\ g.weights[g.nodes[n].w].dtype = "fp32"}}
           int8 == [w \in DOMAIN g.weights |->
                      IF w \in quantized THEN [g.weights[w] EXCEPT !.dtype = "int8"]
                      ELSE g.weights[w]]
           q == QuantizeConvWeights(g)
           calibrated == CalibrateFromGraph(g)
<1>1. /\ g.nodes \in Seq(Node) /\ g.nodes # <<>> /\ DOMAIN g.nodes = 1..Len(g.nodes)
      /\ g.weights \in Seq([dtype : {"fp32"}, rank : Nat])
      /\ g = [nodes |-> g.nodes, weights |-> g.weights, captured |-> g.captured,
              scales |-> g.scales]
      /\ g.scales = {}
  BY DEF Imported
<1>2. Len(g.nodes) \in Nat /\ Len(g.nodes) > 0 /\ Len(g.weights) \in Nat
      /\ DOMAIN g.weights = 1..Len(g.weights)
  BY <1>1
<1>3. \A w \in DOMAIN g.weights : /\ g.weights[w].dtype = "fp32"
                                  /\ "dtype" \in DOMAIN g.weights[w]
  <2> DEFINE Stored == [dtype : {"fp32"}, rank : Nat]
  <2>1. \A u \in Stored : u.dtype = "fp32" /\ "dtype" \in DOMAIN u
    OBVIOUS
  <2>2. g.weights \in Seq(Stored)
    BY <1>1
  <2> HIDE DEF Stored
  <2>3. \A w \in DOMAIN g.weights : g.weights[w] \in Stored
    BY <2>2
  <2>4. QED
    BY <2>1, <2>3
<1>4. \A node \in 1..Len(g.nodes) :
          /\ g.nodes[node].w \in Nat
          /\ g.nodes[node].w # 0 => g.nodes[node].w \in DOMAIN g.weights
  <2>1. \A n \in Node : n.w \in Nat
    BY DEF Node
  <2>2. \A node \in 1..Len(g.nodes) : g.nodes[node] \in Node /\ g.nodes[node].w <= Len(g.weights)
    BY <1>1
  <2>3. QED
    BY <1>2, <2>1, <2>2
<1>5. /\ h.nodes = g.nodes /\ h.captured = g.captured
      /\ conversion = "fp16" => h.weights = fp16
      /\ conversion = "int8" =>
            /\ h.weights = int8
            /\ h.scales = {<<"weight", w>> : w \in quantized}
                            \cup {<<"input", g.nodes[n].x>> :
                                     n \in {n \in Convs(g) : g.nodes[n].x \in calibrated}}
      /\ conversion \notin {"fp16", "int8"} => h = g
  <2>1. CASE conversion = "fp16"
    <3>1. h = [g EXCEPT !.weights = fp16]
      BY <2>1 DEF Converted, ConvertWeightsFp16
    <3> HIDE DEF fp16, h
    <3>2. QED
      BY <1>1, <2>1, <3>1
  <2>2. CASE conversion = "int8"
    <3>1. q = [nodes |-> g.nodes, weights |-> int8, captured |-> g.captured,
               scales |-> g.scales \cup {<<"weight", w>> : w \in quantized}]
      <4>1. q = [g EXCEPT !.weights = int8,
                          !.scales = g.scales \cup {<<"weight", w>> : w \in quantized}]
        BY DEF QuantizeConvWeights
      <4> HIDE DEF int8, quantized, q
      <4>2. QED
        BY <1>1, <4>1
    <3>2. h = BuildActivationQuantParams(q, calibrated)
      BY <2>2 DEF Converted
    <3> HIDE DEF int8, quantized, q, h, calibrated
    <3>3. q.nodes = g.nodes /\ Convs(q) = Convs(g)
      BY <3>1 DEF Convs
    <3> DEFINE inputs == {<<"input", g.nodes[n].x>> :
                             n \in {n \in Convs(g) : g.nodes[n].x \in calibrated}}
    <3>4. h = [q EXCEPT !.scales = q.scales \cup inputs]
      BY <3>2, <3>3 DEF BuildActivationQuantParams
    <3> HIDE DEF inputs
    <3>5. h = [nodes |-> g.nodes, weights |-> int8, captured |-> g.captured,
               scales |-> (g.scales \cup {<<"weight", w>> : w \in quantized}) \cup inputs]
      BY <3>1, <3>4
    <3>6. QED
      BY <1>1, <2>2, <3>5 DEF inputs
  <2>3. CASE conversion \notin {"fp16", "int8"}
    BY <2>3 DEF Converted
  <2>4. QED
    BY <2>1, <2>2, <2>3
<1>6. /\ DOMAIN h.weights = DOMAIN g.weights
      /\ \A w \in DOMAIN h.weights : h.weights[w].dtype \in WeightTypes
      /\ \A w \in DOMAIN h.weights :
            h.weights[w].dtype = "int8" => conversion = "int8" /\ w \in quantized
  <2> HIDE DEF quantized, h
  <2>1. /\ DOMAIN fp16 = DOMAIN g.weights /\ DOMAIN int8 = DOMAIN g.weights
        /\ \A w \in DOMAIN g.weights :
              /\ fp16[w].dtype \in {"fp32", "fp16"}
              /\ int8[w].dtype = IF w \in quantized THEN "int8" ELSE "fp32"
    BY <1>3
  <2> HIDE DEF fp16, int8
  <2>2. CASE conversion = "fp16"
    BY <1>5, <2>1, <2>2 DEF WeightTypes
  <2>3. CASE conversion = "int8"
    BY <1>5, <2>1, <2>3 DEF WeightTypes
  <2>4. CASE conversion \notin {"fp16", "int8"}
    BY <1>3, <1>5, <2>4 DEF WeightTypes
  <2>5. QED
    BY <2>2, <2>3, <2>4
<1>7. TypedGraph(h)
  <2> HIDE DEF h
  <2>1. QED
    BY <1>1, <1>2, <1>4, <1>5, <1>6 DEF TypedGraph
<1>8. Scaled(h)
  <2> SUFFICES ASSUME NEW node \in 1..Len(g.nodes), g.nodes[node].op = "Conv",
                      g.nodes[node].w # 0, h.weights[g.nodes[node].w].dtype = "int8",
                      g.nodes[node].x \in g.captured
               PROVE  /\ <<"weight", g.nodes[node].w>> \in h.scales
                      /\ <<"input", g.nodes[node].x>> \in h.scales
    <3> HIDE DEF h
    <3>1. QED
      BY <1>5 DEF Scaled
  <2>1. conversion = "int8" /\ g.nodes[node].w \in quantized
    <3> HIDE DEF h, quantized
    <3>1. QED
      BY <1>4, <1>6
  <2>2. node \in Convs(g) /\ g.nodes[node].x \in calibrated
    BY <1>1 DEF Convs, CalibrateFromGraph
  <2> HIDE DEF h, quantized, calibrated
  <2>3. QED
    BY <1>5, <2>1, <2>2
<1>9. QED
  <2>1. h.nodes = g.nodes
    BY <1>5
  <2>2. QED
    BY <2>1, <1>7, <1>8

-----------------------------------------------------------------------------
(* The kernels.                                                            *)

\* What find_kernel may find among the compiled-in kernels, and for which specs.
LEMMA BuiltinKinds ==
  ASSUME NEW op, NEW spec
  PROVE  LET kernel == Builtin(op, spec)
         IN  /\ kernel \in {"none", "reference", "conv_im2col", "conv_simd", "conv_int8",
                            "conv_bnns", "gemm_simd", "simd"}
             /\ kernel = "conv_im2col" =>
                   op = "Conv" /\ spec.backend = "cpu" /\ spec.kind = "im2col_gemm"
             /\ kernel = "conv_simd" =>
                   op = "Conv" /\ spec.backend = "simd" /\ spec.kind \in SimdConvKinds
             /\ kernel = "conv_int8" =>
                   op = "Conv" /\ spec.backend = "simd" /\ spec.kind = "int8_im2col_gemm"
             /\ kernel = "conv_bnns" => op = "Conv" /\ spec.kind = "bnns_fp32"
             /\ kernel = "gemm_simd" => op = "Gemm" /\ spec.kind = "direct"
             /\ (spec.backend = "ref" /\ spec.kind = "reference") => kernel = "reference"
             /\ (op = "Conv" /\ spec.backend = "simd" /\ spec.kind = "int8_im2col_gemm" /\ Dotprod)
                   => kernel = "conv_int8"
<1> DEFINE simd == spec.backend = "simd"
           c1 == spec.backend = "ref" /\ spec.kind = "reference"
           c2 == op = "Conv" /\ spec.backend = "cpu" /\ spec.kind = "im2col_gemm"
           c3 == op = "Gemm" /\ spec.backend = "cpu" /\ spec.kind = "direct"
           c4 == op = "Conv" /\ simd /\ spec.kind \in SimdConvKinds /\ Vector
           c5 == op = "Conv" /\ simd /\ spec.kind = "int8_im2col_gemm" /\ Dotprod
           c6 == op = "Conv" /\ simd /\ spec.kind = "bnns_fp32" /\ build = "apple"
           c7 == op = "Gemm" /\ simd /\ spec.kind = "direct" /\ Vector
           c8 == op \notin {"Conv", "Gemm"} /\ simd /\ Vector
           kernel == Builtin(op, spec)
<1>1. kernel = IF c1 THEN "reference" ELSE IF c2 THEN "conv_im2col" ELSE IF c3 THEN "reference"
               ELSE IF c4 THEN "conv_simd" ELSE IF c5 THEN "conv_int8"
               ELSE IF c6 THEN "conv_bnns" ELSE IF c7 THEN "gemm_simd"
               ELSE IF c8 THEN "simd" ELSE "none"
  BY DEF Builtin
<1>2. c5 => ~c1 /\ ~c2 /\ ~c3 /\ ~c4
  BY DEF SimdConvKinds
<1> HIDE DEF kernel
<1>3. /\ kernel \in {"none", "reference", "conv_im2col", "conv_simd", "conv_int8",
                     "conv_bnns", "gemm_simd", "simd"}
      /\ kernel = "conv_im2col" => c2
      /\ kernel = "conv_simd" => c4
      /\ kernel = "conv_int8" => c5
      /\ kernel = "conv_bnns" => c6
      /\ kernel = "gemm_simd" => c7
      /\ c1 => kernel = "reference"
      /\ c5 => kernel = "conv_int8"
  <2> HIDE DEF c1, c2, c3, c4, c5, c6, c7, c8
  <2>1. QED
    BY <1>1, <1>2
<1>4. QED
  BY <1>3 DEF kernel

\* What the kernel of a node leaves in the node's cache, if anything.
CacheLeft(node) ==
    LET n == graph.nodes[node]
        kernel == Builtin(n.op, Selected(node))
    IN  IF Weight(n) = "fp16" /\ kernel \in {"conv_simd", "gemm_simd"} THEN "fp32"
        ELSE IF kernel = "conv_simd"
        THEN IF Selected(node).kind = "winograd_f43" THEN "f43" ELSE "gemm"
        ELSE IF kernel = "conv_int8" THEN "int8" ELSE "bnns"

\* The reasons for which a compiled-in kernel answers -99.
Refuses(node) ==
    LET n == graph.nodes[node]
    IN  \/ Selected(node).kind = "int8_im2col_gemm"
        \/ n.op = "Conv" /\ Selected(node).backend = "cpu" /\ n.group # 1
        \/ n.op = "Gemm" /\ n.trans /\ build # "apple"
        \/ Weight(n) = "fp16" /\ ~Arm
        \/ /\ Selected(node).kind = "conv3x3s2_direct" /\ ~Depthwise(n)
           /\ build \in {"neon", "dotprod"}

\* The weights that a kernel is made for.
Reads(node, kernel) ==
    LET n == graph.nodes[node]
    IN  \/ Weight(n) = "fp32"
        \/ /\ Weight(n) = "fp16" /\ kernel \in TypedKernels
           /\ Selected(node).kind # "winograd_f43"
        \/ Weight(n) = "int8" /\ kernel = "conv_int8"

\* The bound of KernelScratchFits: one row of columns is within the cap.
RowFits(n) == GroupColumns(n) * OutSize(n) * 4 <= SegmentCap

\* What a compiled-in kernel makes of its node.
Sound(node, kernel, o) ==
    /\ o.rc \in {0, -99}
    /\ o.rc = -99 => Refuses(node)
    /\ o.cache \in {"empty", CacheLeft(node)}
    /\ o.rc = 0 =>
          /\ Reads(node, kernel) => o.reads
          /\ Selected(node).kind # "conv3x3s2_direct" => o.residual
    /\ RowFits(graph.nodes[node]) => o.bytes <= Selected(node).scratch

\* A node whose spec the planner chose, with the cache that earlier runs left.
ReadyNode(node) ==
    /\ graph.nodes[node] \in Node /\ WellShaped(graph.nodes[node])
    /\ Weight(graph.nodes[node]) \in WeightTypes
    /\ Eligible(graph, graph.nodes[node], Selected(node).backend, Selected(node).kind)
    /\ Selected(node).scratch =
          EstimateScratchBytes(graph.nodes[node], Selected(node).backend, Selected(node).kind)
    /\ caches[node] \in {"empty", CacheLeft(node)}

\* Its scratch is a number of bytes.
LEMMA ScratchNatural ==
  ASSUME NEW node, ReadyNode(node)
  PROVE  Selected(node).scratch \in Nat
<1>1. /\ graph.nodes[node] \in Node /\ WellShaped(graph.nodes[node])
      /\ Selected(node).scratch =
            EstimateScratchBytes(graph.nodes[node], Selected(node).backend, Selected(node).kind)
  BY DEF ReadyNode
<1>2. QED
  BY <1>1, EstimateCovers

\* A kernel that refuses for a reason, and touches nothing.
LEMMA RefusalSound ==
  ASSUME NEW node, ReadyNode(node), Refuses(node), NEW kernel
  PROVE  Sound(node, kernel, Unsupported(caches[node]))
<1>1. Selected(node).scratch \in Nat
  BY ScratchNatural
<1>2. LET o == Unsupported(caches[node])
      IN  o.rc = -99 /\ o.cache = caches[node] /\ o.bytes = 0
  BY DEF Unsupported, Outcome
<1>3. QED
  BY <1>1, <1>2 DEF Sound, ReadyNode

\* kernel_conv_simd, in every kind that the planner chooses.
LEMMA ConvSimdSound ==
  ASSUME NEW node, ReadyNode(node),
         Builtin(graph.nodes[node].op, Selected(node)) = "conv_simd"
  PROVE  Sound(node, "conv_simd", ConvSimd(graph.nodes[node], Selected(node).kind, caches[node],
                                           Selected(node).scratch))
<1> DEFINE n == graph.nodes[node]
           spec == Selected(node)
           kind == Selected(node).kind
           scratch == Selected(node).scratch
           cache == caches[node]
           W == Weight(n)
           left == CacheLeft(node)
           promoted == IF W = "fp16" /\ cache = "empty" THEN "fp32" ELSE cache
           raw == W = "fp32" \/ (W = "fp16" /\ promoted = "fp32")
           depthwise == Depthwise(n)
           plain == Plain3x3(n, 1) /\ OutSize(n) = n.h
           Packed(as) == IF promoted = "empty" THEN as ELSE promoted
           fromPack == PacksForGemm(n)
           gemmCache == IF fromPack THEN Packed("gemm") ELSE promoted
           gemmReads == IF fromPack THEN gemmCache = "gemm" /\ W = "fp32" ELSE raw
           gemmBytes == IF n.k = 1 /\ n.s = 1 /\ n.p = 0 THEN 0 ELSE SegmentBytes(n, scratch)
           f23 == Outcome(0, Packed("f23"), Packed("f23") = "f23" /\ raw, FALSE,
                          16 * (n.c + n.oc) * Tiles(n, 2) * 4)
           f43Bytes == 36 * (n.c + n.oc) * Tiles(n, 4) * 4
           f43 == Outcome(0, Packed("f43"), Packed("f43") = "f43" /\ raw, TRUE, f43Bytes)
           gemm == Outcome(0, gemmCache, gemmReads, TRUE, gemmBytes)
           direct == Outcome(0, promoted, raw, TRUE, 0)
           stride2 == Outcome(0, promoted, raw, FALSE, 0)
           o == ConvSimd(n, kind, cache, scratch)
<1>1. o = IF W = "fp16" /\ ~Arm THEN Unsupported(cache)
          ELSE IF depthwise THEN direct
          ELSE IF (kind \in {"winograd_3x3s1", "winograd_f43"} /\ ~plain)
               \/ (kind = "conv3x3s2_direct" /\ ~TakesDirect(n)) THEN Unsupported(promoted)
          ELSE IF kind = "winograd_3x3s1" THEN f23
          ELSE IF kind = "winograd_f43" THEN f43
          ELSE IF kind = "conv3x3s2_direct" THEN stride2
          ELSE gemm
  BY DEF ConvSimd
<1>2. /\ n \in Node /\ WellShaped(n) /\ n.op = "Conv" /\ W \in WeightTypes
      /\ spec.backend = "simd" /\ kind \in SimdConvKinds
      /\ cache \in {"empty", left}
      /\ left = IF W = "fp16" THEN "fp32" ELSE IF kind = "winograd_f43" THEN "f43" ELSE "gemm"
      /\ scratch = EstimateScratchBytes(n, "simd", kind) /\ scratch \in Nat
  <2>1. n.op = "Conv" /\ spec.backend = "simd" /\ kind \in SimdConvKinds
    BY BuiltinKinds
  <2>2. left = IF W = "fp16" THEN "fp32" ELSE IF kind = "winograd_f43" THEN "f43" ELSE "gemm"
    BY DEF CacheLeft
  <2>3. QED
    BY <2>1, <2>2, EstimateCovers DEF ReadyNode
<1>3. /\ kind # "winograd_3x3s1"
      /\ kind = "winograd_f43" => WinogradPays(n)
      /\ kind = "conv3x3s2_direct" => Plain3x3(n, 2)
      /\ kind = "depthwise_direct" => depthwise
      /\ kind = "pointwise_1x1" => n.k = 1 /\ n.s = 1 /\ n.p = 0
  <2>1. Eligible(graph, n, spec.backend, kind)
    BY DEF ReadyNode
  <2>2. QED
    BY <1>2, <2>1 DEF Eligible, SimdConvKinds, Depthwise
<1>4. kind = "winograd_f43" => plain /\ f43Bytes <= scratch
  <2> SUFFICES ASSUME kind = "winograd_f43" PROVE plain /\ f43Bytes <= scratch
    OBVIOUS
  <2>1. Plain3x3(n, 1) /\ f43Bytes <= SimdTileBytes
    BY <1>3 DEF WinogradPays
  <2>2. n.h \in Nat /\ n.c \in Nat /\ n.oc \in Nat /\ Tiles(n, 4) \in Nat
    BY <1>2, ConvNumbers
  <2>3. OutSize(n) = n.h
    BY <2>1, <2>2 DEF OutSize, Plain3x3
  <2>4. f43Bytes \in Nat /\ SimdTileBytes \in Nat
    BY <2>2 DEF SimdTileBytes, MiB
  <2>5. scratch >= Min({f43Bytes, SimdTileBytes})
    BY <1>2, EstimateCovers
  <2> HIDE DEF f43Bytes, scratch
  <2>6. Min({f43Bytes, SimdTileBytes}) = f43Bytes
    <3>1. f43Bytes \in Int /\ SimdTileBytes \in Int
      BY <2>4
    <3>2. Min({f43Bytes, SimdTileBytes}) =
            IF f43Bytes <= SimdTileBytes THEN f43Bytes ELSE SimdTileBytes
      BY <3>1, SmallerLarger
    <3>3. QED
      BY <2>1, <3>2
  <2>7. QED
    BY <2>1, <2>3, <2>5, <2>6, <1>2, <2>4 DEF scratch
<1>5. kind = "im2col_gemm" /\ RowFits(n) => SegmentBytes(n, scratch) <= scratch
  <2> SUFFICES ASSUME kind = "im2col_gemm", RowFits(n) PROVE SegmentBytes(n, scratch) <= scratch
    OBVIOUS
  <2> DEFINE row == GroupColumns(n) * OutSize(n)
             all == Columns(n) * Spatial(n)
  <2>1. /\ GroupColumns(n) \in Nat /\ OutSize(n) \in Nat /\ Columns(n) \in Nat
        /\ Spatial(n) \in Nat /\ GroupColumns(n) <= Columns(n) /\ OutSize(n) <= Spatial(n)
    BY <1>2, ConvNumbers
  <2>2. row \in Nat /\ all \in Nat /\ row <= all
    <3>1. GroupColumns(n) * OutSize(n) <= Columns(n) * OutSize(n)
      BY <2>1, ProductsOrdered
    <3>2. OutSize(n) * Columns(n) <= Spatial(n) * Columns(n)
      BY <2>1, ProductsOrdered
    <3>3. QED
      BY <2>1, <3>1, <3>2
  <2>3. row * 4 <= SegmentCap /\ SegmentCap \in Nat
    BY DEF RowFits, SegmentCap, MiB
  <2>4. scratch >= Min({all * 4, SegmentCap})
    BY <1>2, EstimateCovers
  <2> HIDE DEF row, all, scratch
  <2>5. Min({all * 4, SegmentCap}) = IF all * 4 <= SegmentCap THEN all * 4 ELSE SegmentCap
    <3>1. all * 4 \in Int /\ SegmentCap \in Int
      BY <2>2, <2>3
    <3>2. QED
      BY <3>1, SmallerLarger
  <2>6. row * 4 <= scratch
    <3>1. scratch \in Nat
      BY <1>2
    <3>2. QED
      BY <2>2, <2>3, <2>4, <2>5, <3>1
  <2>7. QED
    BY <1>2, <2>6, SegmentFits DEF row
<1>6. /\ promoted \in {"empty", left}
      /\ W = "fp16" => promoted = "fp32" /\ raw
      /\ W = "fp32" => raw
      /\ kind = "winograd_f43" => Packed("f43") \in {"empty", left}
      /\ kind = "winograd_f43" /\ W = "fp32" => Packed("f43") = "f43"
      /\ fromPack => W # "fp16"
      /\ kind # "winograd_f43" => gemmCache \in {"empty", left}
      /\ kind # "winograd_f43" /\ fromPack => gemmCache = "gemm"
  BY <1>2 DEF PacksForGemm, WeightTypes
<1>7. CASE W = "fp16" /\ ~Arm
  BY <1>1, <1>7, RefusalSound DEF Refuses
<1>8. ASSUME kind = "conv3x3s2_direct", ~TakesDirect(n)
      PROVE  build \in {"neon", "dotprod"}
  <2>1. DirectStrides = IF ~Arm THEN {2} ELSE IF build = "apple" THEN {1, 2} ELSE {1}
    BY DEF DirectStrides
  <2>2. 2 \notin DirectStrides
    BY <1>3, <1>8 DEF TakesDirect
  <2>3. Arm /\ build # "apple"
    BY <2>1, <2>2
  <2>4. QED
    BY <2>3 DEF Arm
<1>9. ASSUME ~depthwise, kind = "conv3x3s2_direct", ~TakesDirect(n)
      PROVE  Refuses(node)
  BY <1>8, <1>9 DEF Refuses
<1> HIDE DEF o, n, kind, scratch, cache, spec, W, left, promoted, depthwise, plain, fromPack,
            gemmCache
<1>10. CASE ~(W = "fp16" /\ ~Arm) /\ depthwise
  <2>1. o.rc = 0 /\ o.cache = promoted /\ (raw => o.reads) /\ o.residual /\ o.bytes = 0
    BY <1>1, <1>10 DEF Outcome
  <2>2. Sound(node, "conv_simd", o)
    BY <2>1, <1>2, <1>6 DEF Sound, Reads, W, n, left, kind, scratch
  <2>3. QED
    BY <2>2 DEF o, n, kind, scratch, cache
<1>11. CASE ~(W = "fp16" /\ ~Arm) /\ ~depthwise /\ kind = "winograd_f43"
  <2>1. o = f43
    BY <1>1, <1>4, <1>11
  <2>2. /\ o.rc = 0 /\ o.cache = Packed("f43") /\ (Packed("f43") = "f43" /\ raw => o.reads)
        /\ o.residual /\ o.bytes = f43Bytes
    BY <2>1 DEF Outcome
  <2>3. Sound(node, "conv_simd", o)
    BY <2>2, <1>2, <1>4, <1>6, <1>11 DEF Sound, Reads, W, n, left, kind, scratch
  <2>4. QED
    BY <2>3 DEF o, n, kind, scratch, cache
<1>12. CASE ~(W = "fp16" /\ ~Arm) /\ ~depthwise /\ kind = "conv3x3s2_direct"
  <2>1. CASE TakesDirect(n)
    <3>1. o = stride2
      BY <1>1, <1>12, <2>1
    <3>2. o.rc = 0 /\ o.cache = promoted /\ (raw => o.reads) /\ o.bytes = 0
      BY <3>1 DEF Outcome
    <3>3. Sound(node, "conv_simd", o)
      BY <3>2, <1>2, <1>6, <1>12 DEF Sound, Reads, W, n, left, kind, scratch
    <3>4. QED
      BY <3>3 DEF o, n, kind, scratch, cache
  <2>2. CASE ~TakesDirect(n)
    <3>1. o = Unsupported(promoted)
      BY <1>1, <1>12, <2>2
    <3>2. o.rc = -99 /\ o.cache = promoted /\ o.bytes = 0
      BY <3>1 DEF Unsupported, Outcome
    <3>3. Sound(node, "conv_simd", o)
      BY <3>2, <1>2, <1>6, <1>12, <1>9, <2>2 DEF Sound, n, left, scratch
    <3>4. QED
      BY <3>3 DEF o, n, kind, scratch, cache
  <2>3. QED
    BY <2>1, <2>2
<1>13. CASE ~(W = "fp16" /\ ~Arm) /\ ~depthwise /\ kind \notin {"winograd_f43", "conv3x3s2_direct"}
  <2>1. o = gemm
    BY <1>1, <1>3, <1>13
  <2>2. /\ o.rc = 0 /\ o.cache = gemmCache /\ (gemmReads => o.reads) /\ o.residual
        /\ o.bytes = gemmBytes
    BY <2>1 DEF Outcome
  <2>3. W \in {"fp32", "fp16"} => gemmReads
    BY <1>6, <1>13
  <2>4. kind \in {"im2col_gemm", "pointwise_1x1"}
    BY <1>2, <1>3, <1>13 DEF SimdConvKinds
  <2>5. RowFits(n) => gemmBytes <= scratch
    BY <1>2, <1>3, <1>5, <2>4
  <2> HIDE DEF gemmBytes, gemmReads
  <2>6. Sound(node, "conv_simd", o)
    BY <2>2, <2>3, <2>5, <1>2, <1>6, <1>13 DEF Sound, Reads, W, n, left, kind, scratch
  <2>7. QED
    BY <2>6 DEF o, n, kind, scratch, cache
<1>14. QED
  BY <1>7, <1>10, <1>11, <1>12, <1>13

\* The kernels that read floats, whatever the weights are.
LEMMA PlainSound ==
  ASSUME NEW node, ReadyNode(node), NEW kernel, kernel \notin TypedKernels \cup {"conv_int8"},
         NEW bytes, bytes <= Selected(node).scratch
  PROVE  Sound(node, kernel, Plain(graph.nodes[node], caches[node], bytes))
<1> DEFINE o == Plain(graph.nodes[node], caches[node], bytes)
<1>1. /\ o.rc = 0 /\ o.cache = caches[node] /\ o.residual /\ o.bytes = bytes
      /\ Weight(graph.nodes[node]) = "fp32" => o.reads
  BY DEF Plain, Outcome
<1> HIDE DEF o
<1>2. Sound(node, kernel, o)
  BY <1>1 DEF Sound, Reads, ReadyNode
<1>3. QED
  BY <1>2 DEF o

\* kernel_conv_int8: it finds its scales, and reads its INT8 weights.
LEMMA ConvInt8Sound ==
  ASSUME NEW node \in 1..Len(graph.nodes), ReadyNode(node), Scaled(graph),
         Builtin(graph.nodes[node].op, Selected(node)) = "conv_int8"
  PROVE  LET o == ConvInt8(graph.nodes[node], caches[node])
         IN  /\ Sound(node, "conv_int8", o)
             /\ (instance.way = "library" /\ graph.nodes[node].x \in graph.captured) => o.rc = 0
<1> DEFINE n == graph.nodes[node]
           kind == Selected(node).kind
           scratch == Selected(node).scratch
           cache == caches[node]
           known == /\ instance.way = "library"
                    /\ <<"weight", n.w>> \in graph.scales /\ <<"input", n.x>> \in graph.scales
           packed == IF cache = "empty" THEN "int8" ELSE cache
           bytes == n.c * n.h * n.h + Columns(n) * Spatial(n) + n.oc * Spatial(n) * 4
           run == Outcome(0, packed, packed = "int8" /\ Weight(n) = "int8", TRUE, bytes)
           o == ConvInt8(n, cache)
<1>1. o = IF known THEN run ELSE Unsupported(cache)
  BY DEF ConvInt8
<1>2. n.op = "Conv" /\ kind = "int8_im2col_gemm"
  BY BuiltinKinds
<1>3. n.w # 0 /\ graph.weights[n.w].dtype = "int8" /\ Weight(n) = "int8"
  <2>1. n.w # 0 /\ graph.weights[n.w].dtype = "int8"
    BY <1>2 DEF ReadyNode, Eligible, SimdReferenceOps
  <2>2. QED
    BY <2>1 DEF Weight
<1>4. packed = "int8"
  <2>1. CacheLeft(node) = "int8"
    BY <1>3 DEF CacheLeft
  <2>2. QED
    BY <2>1 DEF ReadyNode
<1>5. bytes <= scratch
  <2>1. /\ n \in Node /\ WellShaped(n)
        /\ scratch = EstimateScratchBytes(n, Selected(node).backend, kind)
    BY DEF ReadyNode
  <2>2. QED
    BY <1>2, <2>1, EstimateCovers
<1>6. (instance.way = "library" /\ n.x \in graph.captured) => known
  BY <1>2, <1>3 DEF Scaled
<1>7. CASE known
  <2>1. o.rc = 0 /\ o.cache = "int8" /\ o.reads /\ o.residual /\ o.bytes = bytes
    <3>1. o = run
      BY <1>1, <1>7
    <3> HIDE DEF o, bytes, packed
    <3>2. QED
      BY <1>3, <1>4, <3>1 DEF Outcome
  <2>2. CacheLeft(node) = "int8"
    BY <1>3 DEF CacheLeft
  <2> HIDE DEF o, bytes, scratch, known, kind
  <2>3. Sound(node, "conv_int8", o)
    BY <2>1, <2>2, <1>5 DEF Sound, scratch
  <2>4. QED
    BY <2>1, <2>3 DEF o, n
<1>8. CASE ~known
  <2>1. Refuses(node) /\ o = Unsupported(cache)
    BY <1>1, <1>2, <1>8 DEF Refuses
  <2>2. Sound(node, "conv_int8", o)
    BY <2>1, RefusalSound
  <2> HIDE DEF known, o
  <2>3. QED
    BY <2>2, <1>6, <1>8 DEF o
<1>9. QED
  BY <1>7, <1>8

\* kernel_conv_bnns: the filter of the first run serves the later ones.
LEMMA ConvBnnsSound ==
  ASSUME NEW node, ReadyNode(node),
         Builtin(graph.nodes[node].op, Selected(node)) = "conv_bnns"
  PROVE  Sound(node, "conv_bnns", ConvBnns(graph.nodes[node], caches[node]))
<1> DEFINE n == graph.nodes[node]
           filter == IF caches[node] = "empty" THEN "bnns" ELSE caches[node]
           o == ConvBnns(n, caches[node])
<1>1. filter = "bnns" /\ CacheLeft(node) = "bnns"
  <2>1. CacheLeft(node) = "bnns"
    BY DEF CacheLeft
  <2>2. QED
    BY <2>1 DEF ReadyNode
<1>2. /\ o.rc = 0 /\ o.cache = "bnns" /\ o.residual /\ o.bytes = 0
      /\ Weight(n) \in {"fp32", "fp16"} => o.reads
  BY <1>1 DEF ConvBnns, Outcome
<1>3. Selected(node).scratch \in Nat
  BY ScratchNatural
<1> HIDE DEF o
<1>4. Sound(node, "conv_bnns", o)
  BY <1>1, <1>2, <1>3 DEF Sound, Reads
<1>5. QED
  BY <1>4 DEF o

\* kernel_gemm_simd: FP16 weights are promoted once.
LEMMA GemmSimdSound ==
  ASSUME NEW node, ReadyNode(node),
         Builtin(graph.nodes[node].op, Selected(node)) = "gemm_simd"
  PROVE  Sound(node, "gemm_simd", GemmSimd(graph.nodes[node], caches[node]))
<1> DEFINE n == graph.nodes[node]
           cache == caches[node]
           promoted == IF Weight(n) = "fp16" /\ cache = "empty" THEN "fp32" ELSE cache
           run == Outcome(0, promoted,
                          Weight(n) = "fp32" \/ (Weight(n) = "fp16" /\ promoted = "fp32"), TRUE, 0)
           refused == (n.trans /\ build # "apple") \/ (Weight(n) = "fp16" /\ ~Arm)
           o == GemmSimd(n, cache)
<1>1. o = IF refused THEN Unsupported(cache) ELSE run
  BY DEF GemmSimd
<1>2. n.op = "Gemm"
  BY BuiltinKinds
<1>3. promoted \in {"empty", CacheLeft(node)} /\ (Weight(n) = "fp16" => promoted = "fp32")
  <2>1. Weight(n) = "fp16" => CacheLeft(node) = "fp32"
    BY DEF CacheLeft
  <2>2. QED
    BY <2>1 DEF ReadyNode
<1>4. Selected(node).scratch \in Nat
  BY ScratchNatural
<1>5. CASE refused
  <2>1. Refuses(node) /\ o = Unsupported(cache)
    BY <1>1, <1>2, <1>5 DEF Refuses
  <2>2. QED
    BY <2>1, RefusalSound
<1>6. CASE ~refused
  <2>1. /\ o.rc = 0 /\ o.cache = promoted /\ o.residual /\ o.bytes = 0
        /\ Weight(n) \in {"fp32", "fp16"} => o.reads
    <3>1. o = run
      BY <1>1, <1>6
    <3> HIDE DEF o, promoted
    <3>2. QED
      BY <1>3, <3>1 DEF Outcome
  <2> HIDE DEF o, promoted
  <2>2. Sound(node, "gemm_simd", o)
    BY <2>1, <1>3, <1>4 DEF Sound, Reads
  <2>3. QED
    BY <2>2 DEF o
<1>7. QED
  BY <1>5, <1>6

\* Whatever compiled-in kernel a node gets, with the scratch it was promised.
LEMMA KernelSound ==
  ASSUME NEW node \in 1..Len(graph.nodes), ReadyNode(node), Scaled(graph),
         NEW kernel, kernel \in {Builtin(graph.nodes[node].op, Selected(node)), "reference"},
         kernel # "none", NEW given, Selected(node).scratch > 0 => given \/ kernel = "reference"
  PROVE  LET o == RunKernel(kernel, graph.nodes[node], node, given)
         IN  /\ Sound(node, kernel, o)
             /\ kernel = "reference" => o.rc = 0
             /\ (kernel = "conv_int8" /\ instance.way = "library"
                   /\ graph.nodes[node].x \in graph.captured) => o.rc = 0
<1> DEFINE n == graph.nodes[node]
           o == RunKernel(kernel, n, node, given)
           starved == ~given /\ Selected(node).scratch > 0
<1>1. Selected(node).scratch \in Nat /\ 0 <= Selected(node).scratch
  BY ScratchNatural
<1>2. /\ kernel = "conv_im2col" /\ n.group # 1 => o = Unsupported(caches[node])
      /\ kernel = "conv_im2col" /\ n.group = 1 => o = Plain(n, caches[node], Columns(n) * 4)
      /\ kernel = "conv_simd" => o = ConvSimd(n, Selected(node).kind, caches[node],
                                              Selected(node).scratch)
      /\ kernel = "conv_int8" => o = ConvInt8(n, caches[node])
      /\ kernel = "conv_bnns" => o = ConvBnns(n, caches[node])
      /\ kernel = "gemm_simd" => o = GemmSimd(n, caches[node])
      /\ kernel \in {"reference", "simd"} => o = Plain(n, caches[node], 0)
  <2>1. kernel # "reference" => ~starved
    OBVIOUS
  <2>2. o = IF kernel = "conv_im2col" /\ n.group # 1 THEN Unsupported(caches[node])
            ELSE IF kernel \in {"conv_im2col", "conv_simd", "conv_int8"} /\ starved
            THEN NoScratch(caches[node])
            ELSE IF kernel = "conv_im2col" THEN Plain(n, caches[node], Columns(n) * 4)
            ELSE IF kernel = "conv_simd"
            THEN ConvSimd(n, Selected(node).kind, caches[node], Selected(node).scratch)
            ELSE IF kernel = "conv_int8" THEN ConvInt8(n, caches[node])
            ELSE IF kernel = "conv_bnns" THEN ConvBnns(n, caches[node])
            ELSE IF kernel = "gemm_simd" THEN GemmSimd(n, caches[node])
            ELSE Plain(n, caches[node], 0)
    BY DEF RunKernel, Selected
  <2> HIDE DEF o, starved
  <2>3. QED
    BY <2>1, <2>2
<1>3. kernel \in {"reference", "conv_im2col", "conv_simd", "conv_int8", "conv_bnns",
                  "gemm_simd", "simd"}
  BY BuiltinKinds
<1> HIDE DEF o
<1>4. CASE kernel = "conv_im2col"
  <2>1. n.op = "Conv" /\ Selected(node).backend = "cpu" /\ Selected(node).kind = "im2col_gemm"
    BY <1>4, BuiltinKinds
  <2>2. CASE n.group # 1
    <3>1. Refuses(node) /\ o = Unsupported(caches[node])
      BY <1>2, <1>4, <2>1, <2>2 DEF Refuses
    <3>2. Sound(node, kernel, o)
      BY <3>1, RefusalSound
    <3>3. QED
      BY <1>4, <3>2 DEF o
  <2>3. CASE n.group = 1
    <3>1. Columns(n) * 4 <= Selected(node).scratch
      BY <2>1, EstimateCovers DEF ReadyNode
    <3>2. kernel \notin TypedKernels \cup {"conv_int8"}
      BY <1>4 DEF TypedKernels
    <3>3. Sound(node, kernel, o)
      BY <1>2, <1>4, <2>3, <3>1, <3>2, PlainSound
    <3>4. QED
      BY <1>4, <3>3 DEF o
  <2>4. QED
    BY <2>2, <2>3
<1>5. CASE kernel = "conv_simd"
  BY <1>2, <1>5, ConvSimdSound DEF o
<1>6. CASE kernel = "conv_int8"
  BY <1>2, <1>6, ConvInt8Sound DEF o
<1>7. CASE kernel = "conv_bnns"
  BY <1>2, <1>7, ConvBnnsSound DEF o
<1>8. CASE kernel = "gemm_simd"
  BY <1>2, <1>8, GemmSimdSound DEF o
<1>9. CASE kernel \in {"reference", "simd"}
  <2>1. kernel \notin TypedKernels \cup {"conv_int8"}
    BY <1>9 DEF TypedKernels
  <2>2. Sound(node, kernel, o)
    BY <1>1, <1>2, <1>9, <2>1, PlainSound
  <2>3. o.rc = 0
    BY <1>2, <1>9 DEF Plain, Outcome
  <2>4. QED
    BY <1>9, <2>2, <2>3 DEF o
<1>10. QED
  BY <1>3, <1>4, <1>5, <1>6, <1>7, <1>8, <1>9

-----------------------------------------------------------------------------
(* A node's execution.                                                     *)

\* What find_kernel finds.
LEMMA FoundKinds ==
  ASSUME NEW op, NEW spec, users \in Seq(UserKernel)
  PROVE  LET k == FindKernel(op, spec)
         IN  \/ k = Found("builtin", Builtin(op, spec)) /\ Builtin(op, spec) # "none"
             \/ k = Found("none", 0) /\ Builtin(op, spec) = "none"
             \/ users # <<>> /\ \E i \in 1..Len(users) : k = Found("user", i)
<1> DEFINE b == BestUser(op, spec)[Len(users)]
           B == Builtin(op, spec)
<1>1. Best(b, op, spec, Len(users))
  BY LoopKeepsBest
<1>2. FindKernel(op, spec) = IF B # "none" /\ 0 > b.priority THEN Found("builtin", B) ELSE b.kernel
  BY DEF FindKernel
<1> HIDE DEF b, B
<1>3. CASE b.kernel = Found("none", 0) /\ b.priority = -1
  BY <1>2, <1>3 DEF B
<1>4. CASE \E i \in 1..Len(users) : b.kernel = Found("user", i) /\ b.priority = users[i].priority
                                      /\ users[i].priority >= 0
  <2>1. PICK i \in 1..Len(users) : b.kernel = Found("user", i) /\ b.priority = users[i].priority
                                      /\ users[i].priority >= 0
    BY <1>4
  <2>2. users[i].priority \in Int /\ users # <<>>
    BY <2>1, UsersTyped
  <2>3. FindKernel(op, spec) = Found("user", i)
    BY <1>2, <2>1, <2>2
  <2>4. QED
    BY <2>2, <2>3
<1>5. QED
  BY <1>1, <1>3, <1>4 DEF Best

\* A plan that was accepted, for the graph and the host's table.
PlanReady ==
    /\ TypedGraph(graph) /\ Scaled(graph)
    /\ plan.error = "none" /\ PlannedUpTo(graph, plan, Len(graph.nodes))
    /\ users \in Seq(UserKernel)

\* What the plan says of a node.
LEMMA NodeReady ==
  ASSUME PlanReady, NEW node \in 1..Len(graph.nodes),
         caches[node] \in {"empty", CacheLeft(node)}
  PROVE  /\ ReadyNode(node) /\ SelectedSpec(node) = Selected(node)
         /\ Selected(node).scratch \in Nat /\ plan.scratch \in Nat
         /\ Selected(node).scratch <= plan.scratch
         /\ Selected(node).fallback # NoSpec =>
               plan.specs[Selected(node).fallback] = FallbackRefSpec(node)
<1> DEFINE n == graph.nodes[node]
<1>1. NodePlanned(graph, plan, node) /\ plan.scratch \in Nat
  BY DEF PlanReady, PlannedUpTo
<1>2. n \in Node /\ WellShaped(n) /\ (n.w # 0 => graph.weights[n.w].dtype \in WeightTypes)
  BY DEF PlanReady, TypedGraph
<1>3. Weight(n) \in WeightTypes
  BY <1>2 DEF Weight, WeightTypes
<1>4. /\ Selected(node).node = node
      /\ Eligible(graph, n, Selected(node).backend, Selected(node).kind)
      /\ Selected(node).scratch =
            EstimateScratchBytes(n, Selected(node).backend, Selected(node).kind)
      /\ Selected(node).scratch <= plan.scratch
      /\ Selected(node).fallback # NoSpec =>
            plan.specs[Selected(node).fallback] = FallbackRefSpec(node)
  BY <1>1 DEF NodePlanned, Selected
<1>5. ReadyNode(node)
  BY <1>2, <1>3, <1>4 DEF ReadyNode
<1>6. SelectedSpec(node) = Selected(node)
  BY <1>4 DEF SelectedSpec, Selected
<1>7. QED
  BY <1>1, <1>4, <1>5, <1>6, ScratchNatural

\* execute_with_spec, for the spec of the plan or the reference kernel's.
LEMMA TryOnce ==
  ASSUME PlanReady, NEW node \in 1..Len(graph.nodes),
         caches[node] \in {"empty", CacheLeft(node)},
         NEW spec \in {Selected(node), FallbackRefSpec(node)}
  PROVE  LET op == graph.nodes[node].op
             e == ExecuteWithSpec(node, spec)
             k == FindKernel(op, spec)
             o == e.outcome
         IN  /\ e.tried = <<k>>
             /\ k.by \in {"none", "user", "builtin"}
             /\ k.by = "none" => o = Unsupported(caches[node]) /\ Builtin(op, spec) = "none"
             /\ k.by = "user" => users # <<>> /\ o.cache = caches[node] /\ o.bytes = 0
             /\ k.by = "builtin" =>
                   /\ k.which = Builtin(op, spec) /\ Sound(node, k.which, o)
                   /\ k.which = "reference" => o.rc = 0
                   /\ (k.which = "conv_int8" /\ instance.way = "library"
                         /\ graph.nodes[node].x \in graph.captured) => o.rc = 0
<1> DEFINE op == graph.nodes[node].op
           e == ExecuteWithSpec(node, spec)
           k == FindKernel(op, spec)
           B == Builtin(op, spec)
           n == graph.nodes[node]
           run == RunKernel(k.which, n, node, spec.scratch > 0)
           o == IF k.by = "none" THEN Unsupported(caches[node])
                ELSE IF spec.scratch > plan.scratch THEN Outcome(-14, caches[node], TRUE, TRUE, 0)
                ELSE IF k.by = "builtin" THEN run
                ELSE IF users[k.which].supports THEN Outcome(0, caches[node], TRUE, TRUE, 0)
                ELSE Unsupported(caches[node])
<1>1. e = Entry(<<k>>, o)
  BY DEF ExecuteWithSpec
<1>2. e.tried = <<k>> /\ e.outcome = o
  <2> HIDE DEF o, k, e
  <2>1. QED
    BY <1>1 DEF Entry
<1>3. ReadyNode(node) /\ ~(spec.scratch > plan.scratch)
  <2>1. FallbackRefSpec(node).scratch = 0
    BY DEF FallbackRefSpec
  <2>2. QED
    BY <2>1, NodeReady
<1>4. spec = FallbackRefSpec(node) => B = "reference"
  <2>1. FallbackRefSpec(node).backend = "ref" /\ FallbackRefSpec(node).kind = "reference"
    BY DEF FallbackRefSpec
  <2>2. QED
    BY <2>1, BuiltinKinds
<1>5. \/ k = Found("builtin", B) /\ B # "none"
      \/ k = Found("none", 0) /\ B = "none"
      \/ users # <<>> /\ \E i \in 1..Len(users) : k = Found("user", i)
  BY FoundKinds DEF PlanReady
<1> HIDE DEF k, e, B
<1>6. CASE k = Found("builtin", B) /\ B # "none"
  <2>1. k.by = "builtin" /\ k.which = B
    BY <1>6 DEF Found
  <2>2. o = run
    BY <1>3, <2>1
  <2>3. B \in {Builtin(graph.nodes[node].op, Selected(node)), "reference"}
    BY <1>4 DEF B
  <2>4. Selected(node).scratch > 0 => spec.scratch > 0 \/ B = "reference"
    BY <1>4
  <2> DEFINE given == spec.scratch > 0
             r == RunKernel(B, n, node, given)
  <2>5. /\ Sound(node, B, r)
        /\ B = "reference" => r.rc = 0
        /\ (B = "conv_int8" /\ instance.way = "library"
              /\ graph.nodes[node].x \in graph.captured) => r.rc = 0
    <3> SUFFICES ASSUME NEW g_, g_ = given
                 PROVE  LET s == RunKernel(B, n, node, g_)
                        IN  /\ Sound(node, B, s)
                            /\ B = "reference" => s.rc = 0
                            /\ (B = "conv_int8" /\ instance.way = "library"
                                  /\ graph.nodes[node].x \in graph.captured) => s.rc = 0
      OBVIOUS
    <3>1. Selected(node).scratch > 0 => g_ \/ B = "reference"
      BY <2>4
    <3> HIDE DEF given
    <3>2. QED
      BY <1>3, <1>6, <2>3, <3>1, KernelSound DEF PlanReady
  <2>6. o = r
    BY <2>1, <2>2
  <2> HIDE DEF r, o
  <2>7. QED
    BY <1>2, <2>1, <2>5, <2>6 DEF k, e, B
<1>7. CASE k = Found("none", 0) /\ B = "none"
  <2>1. k.by = "none"
    BY <1>7 DEF Found
  <2>2. o = Unsupported(caches[node])
    BY <2>1
  <2> HIDE DEF o
  <2>3. QED
    BY <1>2, <1>7, <2>1, <2>2 DEF k, e, B
<1>8. CASE users # <<>> /\ \E i \in 1..Len(users) : k = Found("user", i)
  <2>1. k.by = "user"
    BY <1>8 DEF Found
  <2>2. o \in {Outcome(0, caches[node], TRUE, TRUE, 0), Unsupported(caches[node])}
    <3> HIDE DEF run
    <3>1. QED
      BY <1>3, <2>1
  <2> HIDE DEF o
  <2>3. o.cache = caches[node] /\ o.bytes = 0
    BY <2>2 DEF Outcome, Unsupported
  <2>4. QED
    BY <1>2, <1>8, <2>1, <2>3 DEF k, e
<1>9. QED
  BY <1>5, <1>6, <1>7, <1>8

\* What the four invariants say of one entry of the log, and what it leaves in
\* the node's cache.
GoodEntry(node, e) ==
    LET n == graph.nodes[node]
        last == LastKernel(e)
        o == e.outcome
    IN  /\ (last.by # "user" /\ ~InlineGap(node)) => o.rc = 0
        /\ (last.by = "builtin" /\ o.rc = 0) =>
              /\ Reads(node, last.which) => o.reads
              /\ (n.residual /\ Selected(node).kind # "conv3x3s2_direct") => o.residual
              /\ (/\ Selected(node).kind = "int8_im2col_gemm" /\ Dotprod
                  /\ instance.way = "library" /\ n.x \in graph.captured
                  /\ users = <<>>) => last.which = "conv_int8"
        /\ RowFits(n) => o.bytes <= Selected(node).scratch
        /\ instance.way = "library" =>
              /\ e.tried[1] = Preferred(n.op, Selected(node))
              /\ Len(e.tried) = 2 => e.tried[2] = Preferred(n.op, FallbackRefSpec(node))
        /\ o.cache \in {"empty", CacheLeft(node)}

\* Lists of one and two kernels.
LEMMA TriedOnce ==
  ASSUME NEW k, NEW o
  PROVE  LET e == Entry(<<k>>, o)
         IN  e.tried[1] = k /\ Len(e.tried) = 1 /\ LastKernel(e) = k /\ e.outcome = o
<1>1. Entry(<<k>>, o).tried = <<k>> /\ Entry(<<k>>, o).outcome = o
  BY DEF Entry
<1>2. <<k>>[1] = k /\ Len(<<k>>) = 1
  OBVIOUS
<1>3. QED
  BY <1>1, <1>2 DEF LastKernel

\* The same for a node that fell back.
LEMMA TriedTwice ==
  ASSUME NEW k, NEW l, NEW o
  PROVE  LET e == Entry(<<k>> \o <<l>>, o)
         IN  /\ e.tried[1] = k /\ e.tried[2] = l /\ Len(e.tried) = 2 /\ LastKernel(e) = l
             /\ e.outcome = o
<1> DEFINE both == <<k>> \o <<l>>
<1>1. both[1] = k /\ both[2] = l /\ Len(both) = 2
  OBVIOUS
<1> HIDE DEF both
<1>2. Entry(both, o).tried = both /\ Entry(both, o).outcome = o
  BY DEF Entry
<1>3. QED
  BY <1>1, <1>2 DEF LastKernel, both

\* spkv2_execute_node: the kernel of the plan, else its fallback, else the
\* reference kernel.
LEMMA NodeExecuted ==
  ASSUME PlanReady, NEW node \in 1..Len(graph.nodes),
         caches[node] \in {"empty", CacheLeft(node)}
  PROVE  GoodEntry(node, ExecuteNode(node))
<1> DEFINE n == graph.nodes[node]
           op == n.op
           spec == Selected(node)
           ref == FallbackRefSpec(node)
           k == FindKernel(op, spec)
           l == FindKernel(op, ref)
           first == ExecuteWithSpec(node, spec)
           second == ExecuteWithSpec(node, ref)
           e == ExecuteNode(node)
           Int8 == /\ Selected(node).kind = "int8_im2col_gemm" /\ Dotprod
                   /\ instance.way = "library" /\ n.x \in graph.captured
                   /\ users = <<>>
<1>1. /\ ReadyNode(node) /\ SelectedSpec(node) = spec /\ spec.scratch \in Nat
      /\ spec.fallback # NoSpec => plan.specs[spec.fallback] = ref
      /\ caches[node] \in {"empty", CacheLeft(node)}
      /\ Eligible(graph, n, spec.backend, spec.kind)
  BY NodeReady DEF ReadyNode
<1>2. /\ first.tried = <<k>> /\ k.by \in {"none", "user", "builtin"}
      /\ k.by = "none" => first.outcome = Unsupported(caches[node]) /\ Builtin(op, spec) = "none"
      /\ k.by = "user" => /\ users # <<>> /\ first.outcome.cache = caches[node]
                          /\ first.outcome.bytes = 0
      /\ k.by = "builtin" =>
            /\ k.which = Builtin(op, spec) /\ Sound(node, k.which, first.outcome)
            /\ k.which = "reference" => first.outcome.rc = 0
            /\ (k.which = "conv_int8" /\ instance.way = "library" /\ n.x \in graph.captured)
                  => first.outcome.rc = 0
  BY TryOnce
<1>3. Builtin(op, ref) = "reference"
  <2>1. ref.backend = "ref" /\ ref.kind = "reference"
    BY DEF FallbackRefSpec
  <2>2. QED
    BY <2>1, BuiltinKinds
<1>4. /\ second.tried = <<l>> /\ l.by \in {"user", "builtin"}
      /\ l.by = "user" => users # <<>> /\ second.outcome.cache = caches[node]
                                       /\ second.outcome.bytes = 0
      /\ l.by = "builtin" => /\ l.which = "reference" /\ Sound(node, "reference", second.outcome)
                             /\ second.outcome.rc = 0
  <2>1. ref \in {Selected(node), FallbackRefSpec(node)}
    OBVIOUS
  <2>2. QED
    BY <1>3, <2>1, TryOnce
<1>5. k = Preferred(op, spec) /\ l = Preferred(op, ref)
  BY FoundIsPreferred DEF PlanReady
<1>6. Int8 => k.by = "builtin" /\ k.which = "conv_int8" /\ first.outcome.rc = 0
  <2> SUFFICES ASSUME Int8 PROVE k.by = "builtin" /\ k.which = "conv_int8" /\ first.outcome.rc = 0
    OBVIOUS
  <2>1. op = "Conv" /\ spec.backend = "simd"
    BY <1>1 DEF Eligible, SimdReferenceOps
  <2>2. Builtin(op, spec) = "conv_int8"
    BY <2>1, BuiltinKinds
  <2>3. QED
    BY <1>2, <2>2
<1>7. op = "Reshape" => spec.backend = "ref" /\ spec.kind = "reference"
  BY <1>1 DEF Eligible, SimdReferenceOps
<1>8. op = "Reshape" => Builtin(op, spec) = "reference"
  BY <1>7, BuiltinKinds
<1>9. /\ first.outcome.rc # -99 => e = first
      /\ first.outcome.rc = -99 /\ (spec.fallback # NoSpec \/ op # "Reshape") =>
            e = Entry(<<k>> \o <<l>>, second.outcome)
      /\ first.outcome.rc = -99 /\ spec.fallback = NoSpec /\ op = "Reshape" => e = first
  <2> DEFINE Then(s) == Entry(first.tried \o s.tried, s.outcome)
  <2>1. e = IF first.outcome.rc # -99 THEN first
            ELSE IF spec.fallback # NoSpec
            THEN Then(ExecuteWithSpec(node, plan.specs[spec.fallback]))
            ELSE IF HasReferenceFallback(op) THEN Then(second) ELSE first
    BY <1>1 DEF ExecuteNode
  <2>2. Then(second) = Entry(<<k>> \o <<l>>, second.outcome)
    BY <1>2, <1>4
  <2>3. spec.fallback # NoSpec => ExecuteWithSpec(node, plan.specs[spec.fallback]) = second
    BY <1>1
  <2> HIDE DEF first, second, e, k, l
  <2>4. QED
    BY <2>1, <2>2, <2>3 DEF HasReferenceFallback
<1>10. first = Entry(<<k>>, first.outcome)
  <2>1. \E t, o : first = Entry(t, o)
    BY DEF ExecuteWithSpec
  <2> HIDE DEF first, k
  <2>2. PICK t, o : first = Entry(t, o)
    BY <2>1
  <2>3. first.tried = t /\ first.outcome = o
    BY <2>2 DEF Entry
  <2>4. QED
    BY <1>2, <2>2, <2>3
<1> HIDE DEF first, second, k, l, e, ref
<1>11. CASE first.outcome.rc # -99
  <2>1. /\ e.tried[1] = k /\ Len(e.tried) = 1 /\ LastKernel(e) = k /\ e.outcome = first.outcome
    BY <1>9, <1>10, <1>11, TriedOnce
  <2>2. k.by # "none"
    BY <1>2, <1>11 DEF Unsupported, Outcome
  <2>3. k.by = "builtin" => first.outcome.rc = 0
    BY <1>2, <1>11 DEF Sound
  <2>4. k.by = "builtin" => /\ Sound(node, k.which, first.outcome)
                            /\ Int8 => k.which = "conv_int8"
    BY <1>2, <1>6
  <2>5. first.outcome.cache \in {"empty", CacheLeft(node)}
    BY <1>1, <1>2, <2>2 DEF Sound
  <2>6. RowFits(n) => first.outcome.bytes <= spec.scratch
    BY <1>1, <1>2, <2>2 DEF Sound
  <2>7. GoodEntry(node, e)
    BY <1>2, <1>5, <2>1, <2>2, <2>3, <2>4, <2>5, <2>6 DEF GoodEntry, Sound
  <2>8. QED
    BY <2>7 DEF e
<1>12. CASE first.outcome.rc = -99 /\ (spec.fallback # NoSpec \/ op # "Reshape")
  <2>1. /\ e.tried[1] = k /\ e.tried[2] = l /\ Len(e.tried) = 2 /\ LastKernel(e) = l
        /\ e.outcome = second.outcome
    BY <1>9, <1>12, TriedTwice
  <2>2. ~Int8
    BY <1>6, <1>12
  <2>3. second.outcome.cache \in {"empty", CacheLeft(node)}
    BY <1>1, <1>4 DEF Sound
  <2>4. RowFits(n) => second.outcome.bytes <= spec.scratch
    BY <1>1, <1>4 DEF Sound
  <2>5. GoodEntry(node, e)
    BY <1>4, <1>5, <2>1, <2>2, <2>3, <2>4 DEF GoodEntry, Sound, ref
  <2>6. QED
    BY <2>5 DEF e
<1>13. CASE first.outcome.rc = -99 /\ spec.fallback = NoSpec /\ op = "Reshape"
  <2>1. /\ e.tried[1] = k /\ Len(e.tried) = 1 /\ LastKernel(e) = k /\ e.outcome = first.outcome
    BY <1>9, <1>10, <1>13, TriedOnce
  <2>2. k.by = "user"
    BY <1>2, <1>8, <1>13
  <2>3. /\ first.outcome.cache \in {"empty", CacheLeft(node)}
        /\ first.outcome.bytes <= spec.scratch
    BY <1>1, <1>2, <2>2
  <2>4. GoodEntry(node, e)
    BY <1>5, <2>1, <2>2, <2>3 DEF GoodEntry
  <2>5. QED
    BY <2>4 DEF e
<1>14. QED
  BY <1>11, <1>12, <1>13 DEF e

\* The node of a run, in either way of deployment.
LEMMA EntryIsGood ==
  ASSUME PlanReady, NEW node \in 1..Len(graph.nodes),
         caches[node] \in {"empty", CacheLeft(node)},
         instance.way \in {"library", "inline"}
  PROVE  GoodEntry(node, IF instance.way = "inline" THEN InlineCall(node) ELSE ExecuteNode(node))
<1> DEFINE n == graph.nodes[node]
           spec == Selected(node)
           B == Builtin(n.op, spec)
           o == RunKernel(B, n, node, spec.scratch > 0)
           e == InlineCall(node)
<1>1. GoodEntry(node, ExecuteNode(node))
  BY NodeExecuted
<1>2. CASE instance.way # "inline" \/ B = "none"
  <2>1. B = "none" => e = ExecuteNode(node)
    BY DEF InlineCall, Selected
  <2> HIDE DEF e
  <2>2. QED
    BY <1>1, <1>2, <2>1 DEF e
<1>3. CASE instance.way = "inline" /\ B # "none"
  <2>1. e = Entry(<<Found("builtin", B)>>, o)
    BY <1>3 DEF InlineCall, Selected
  <2>2. Sound(node, B, o)
    <3>1. ReadyNode(node)
      BY NodeReady
    <3>2. Selected(node).scratch > 0 => spec.scratch > 0 \/ B = "reference"
      OBVIOUS
    <3> DEFINE given == spec.scratch > 0
    <3> SUFFICES ASSUME NEW g_, g_ = given PROVE Sound(node, B, RunKernel(B, n, node, g_))
      OBVIOUS
    <3> HIDE DEF given
    <3>3. Selected(node).scratch > 0 => g_ \/ B = "reference"
      BY DEF given
    <3>4. QED
      BY <1>3, <3>1, <3>3, KernelSound DEF PlanReady
  <2> HIDE DEF o, B, e
  <2>3. LastKernel(e) = Found("builtin", B) /\ e.outcome = o
    BY <2>1, TriedOnce
  <2>4. Found("builtin", B).by = "builtin" /\ Found("builtin", B).which = B
    BY DEF Found
  <2>5. Refuses(node) => InlineGap(node)
    BY <1>3 DEF Refuses, InlineGap
  <2>6. GoodEntry(node, e)
    BY <1>3, <2>2, <2>3, <2>4, <2>5 DEF GoodEntry, Sound
  <2>7. QED
    BY <1>3, <2>6 DEF e
<1>4. QED
  BY <1>2, <1>3

-----------------------------------------------------------------------------
(* The invariant, and its preservation by every action.                    *)

\* What a step leaves as it is, while no run has started.
Fresh ==
    /\ users = <<>> /\ log = <<>> /\ next = 1
    /\ caches = [node \in Nodes |-> "empty"]

\* The graph of the instance, converted or not, and its plan when it has one.
PlanInv ==
    /\ instance \in Instances
    /\ phase \in {"imported", "converted", "ready", "refused"}
    /\ TypedGraph(graph) /\ Scaled(graph)
    /\ phase = "imported" => graph = Graphs[instance.graph]
    /\ phase = "ready" => plan.error = "none" /\ PlannedUpTo(graph, plan, Len(graph.nodes))
    /\ phase # "ready" => Fresh

\* The host's table, and in every node's cache nothing but what its kernel left.
ContextInv ==
    /\ users \in Seq(UserKernel) /\ Len(users) <= TableSize
    /\ caches \in [Nodes -> Caches]
    /\ phase = "ready" => \A node \in Nodes : caches[node] \in {"empty", CacheLeft(node)}
    /\ next \in Nodes /\ runs \in 0..MaxRuns

\* The log has the nodes of the last run, up to the next one or to the last.
LogInv ==
    /\ log \in Seq({log[node] : node \in DOMAIN log})
    /\ Len(log) <= Len(graph.nodes)
    /\ next # 1 => Len(log) = next - 1
    /\ \A node \in 1..Len(log) : GoodEntry(node, log[node])

\* The inductive invariant.
DispatchInv == PlanInv /\ ContextInv /\ LogInv
\* What a cache may hold, and what the log may show, depend on these alone.
LEMMA SameJudgement ==
  ASSUME UNCHANGED <<instance, graph, plan, users>>, NEW node, NEW e
  PROVE  GoodEntry(node, e)' <=> GoodEntry(node, e)
<1>1. \A n : Weight(n)' = Weight(n)
  BY DEF Weight
<1>2. \A op, spec : Builtin(op, spec)' = Builtin(op, spec)
  BY DEF Builtin, Vector, Dotprod, build
<1>3. \A op, spec : Preferred(op, spec)' = Preferred(op, spec)
  BY <1>2 DEF Preferred
<1>4. Selected(node)' = Selected(node)
  BY DEF Selected
<1>5. Dotprod' = Dotprod /\ Arm' = Arm /\ build' = build
  BY DEF Dotprod, Arm, build
<1>6. CacheLeft(node)' = CacheLeft(node)
  BY <1>1, <1>2, <1>4 DEF CacheLeft
<1>7. InlineGap(node)' = InlineGap(node)
  BY <1>1, <1>4, <1>5 DEF InlineGap
<1>8. \A kernel : Reads(node, kernel)' = Reads(node, kernel)
  BY <1>1, <1>4 DEF Reads
<1>9. QED
  BY <1>1, <1>3, <1>4, <1>5, <1>6, <1>7, <1>8 DEF GoodEntry

\* The host's table has no part in what a cache may hold.
LEMMA SameCacheLeft ==
  ASSUME UNCHANGED <<instance, graph, plan>>, NEW node
  PROVE  CacheLeft(node)' = CacheLeft(node)
<1>1. \A n : Weight(n)' = Weight(n)
  BY DEF Weight
<1>2. \A op, spec : Builtin(op, spec)' = Builtin(op, spec)
  BY DEF Builtin, Vector, Dotprod, build
<1>4. Selected(node)' = Selected(node)
  BY DEF Selected
<1>6. QED
  BY <1>1, <1>2, <1>4 DEF CacheLeft

\* A log, and the log with one more entry, are sequences of their entries.
LEMMA LogGrows ==
  ASSUME NEW q, q \in Seq({q[i] : i \in DOMAIN q}), NEW e
  PROVE  LET r == Append(q, e)
         IN  /\ Len(q) \in Nat /\ r \in Seq({r[i] : i \in DOMAIN r})
             /\ Len(r) = Len(q) + 1 /\ r[Len(r)] = e
             /\ \A i \in 1..Len(q) : r[i] = q[i]
<1> DEFINE S == {q[i] : i \in DOMAIN q}
           T == S \cup {e}
           r == Append(q, e)
           R == {r[i] : i \in DOMAIN r}
<1> HIDE DEF S
<1>1. q \in Seq(S)
  BY DEF S
<1>2. q \in Seq(T) /\ e \in T
  BY <1>1
<1> HIDE DEF T
<1>3. /\ Len(q) \in Nat /\ r \in Seq(T) /\ Len(r) = Len(q) + 1 /\ r[Len(r)] = e
      /\ \A i \in 1..Len(q) : r[i] = q[i]
  BY <1>2
<1> HIDE DEF r
<1>4. DOMAIN r = 1..Len(r) /\ Len(r) \in Nat /\ r = [i \in 1..Len(r) |-> r[i]]
  BY <1>3
<1>5. \A i \in 1..Len(r) : r[i] \in R
  BY <1>4
<1> HIDE DEF R
<1>6. r \in Seq(R)
  BY <1>4, <1>5
<1>7. QED
  BY <1>3, <1>6 DEF R, r

\* The log of a run's first node.
LEMMA LogStarts ==
  ASSUME NEW e
  PROVE  LET r == <<e>>
         IN  r \in Seq({r[i] : i \in DOMAIN r}) /\ Len(r) = 1 /\ r[1] = e
<1> DEFINE r == <<e>>
           R == {r[i] : i \in DOMAIN r}
<1>1. Len(r) = 1 /\ DOMAIN r = 1..1 /\ r[1] = e /\ r = [i \in 1..1 |-> e]
  OBVIOUS
<1> HIDE DEF r
<1>2. e \in R
  BY <1>1
<1> HIDE DEF R
<1>3. <<e>> \in Seq(R)
  BY <1>2
<1>4. QED
  BY <1>1, <1>3 DEF R, r
\* Every graph has a first node.
LEMMA FirstNode ==
  ASSUME NEW g, TypedGraph(g)
  PROVE  Len(g.nodes) \in Nat /\ DOMAIN g.nodes = 1..Len(g.nodes) /\ 1 \in 1..Len(g.nodes)
<1>1. g.nodes \in Seq(Node) /\ Len(g.nodes) > 0
  BY DEF TypedGraph
<1>2. Len(g.nodes) \in Nat /\ DOMAIN g.nodes = 1..Len(g.nodes)
  BY <1>1
<1>3. QED
  BY <1>1, <1>2

\* The caches hold what Caches names.
LEMMA CacheNames ==
  ASSUME NEW node, NEW c \in {"empty", CacheLeft(node)}
  PROVE  c \in Caches
BY DEF CacheLeft, Caches

\* A graph of the instances, as it is imported.
LEMMA ImportTyped ==
  ASSUME NEW i \in Instances, NEW conversion
  PROVE  LET g == Graphs[i.graph]
             h == Converted(g, conversion)
         IN  /\ h.nodes = g.nodes /\ TypedGraph(h) /\ Scaled(h)
             /\ TypedGraph(g) /\ Scaled(g)
<1> DEFINE g == Graphs[i.graph]
<1>1. /\ g \in Imported
      /\ \A node \in DOMAIN g.nodes : WellShaped(g.nodes[node]) /\ g.nodes[node].w <= Len(g.weights)
  BY InstancesAssumption
<1> HIDE DEF g
<1>2. \A c : LET h == Converted(g, c)
             IN  h.nodes = g.nodes /\ TypedGraph(h) /\ Scaled(h)
  BY <1>1, ConversionTyped
<1>3. Converted(g, "none") = g
  BY DEF Converted
<1>4. TypedGraph(g) /\ Scaled(g)
  BY <1>2, <1>3
<1>5. QED
  BY <1>2, <1>4 DEF g

\* Before the plan there is nothing of a run.
LEMMA FreshTyped ==
  ASSUME TypedGraph(graph), Fresh
  PROVE  /\ users \in Seq(UserKernel) /\ Len(users) <= TableSize
         /\ caches \in [Nodes -> Caches]
         /\ \A node \in Nodes : caches[node] = "empty"
         /\ next \in Nodes /\ LogInv
<1>1. Len(graph.nodes) \in Nat /\ Nodes = 1..Len(graph.nodes) /\ 1 \in Nodes
  BY FirstNode DEF Nodes
<1>2. users \in Seq(UserKernel) /\ Len(users) = 0 /\ TableSize \in Nat
  BY InstancesAssumption DEF Fresh
<1>3. "empty" \in Caches
  BY DEF Caches
<1>4. caches \in [Nodes -> Caches] /\ \A node \in Nodes : caches[node] = "empty"
  BY <1>3 DEF Fresh
<1>5. log = <<>> /\ next = 1
  BY DEF Fresh
<1>6. LogInv
  <2>1. <<>> \in Seq({<<>>[node] : node \in DOMAIN <<>>}) /\ Len(<<>>) = 0
    OBVIOUS
  <2>2. QED
    BY <1>1, <1>5, <2>1 DEF LogInv
<1>7. QED
  BY <1>1, <1>2, <1>4, <1>5, <1>6

\* The initial states.
LEMMA InitGood == Init => DispatchInv
<1> SUFFICES ASSUME Init PROVE DispatchInv
  OBVIOUS
<1>1. instance \in Instances /\ graph = Graphs[instance.graph] /\ phase = "imported" /\ runs = 0
  BY DEF Init
<1>2. TypedGraph(graph) /\ Scaled(graph)
  BY <1>1, ImportTyped
<1>3. Fresh
  BY DEF Init, Fresh, Nodes
<1>4. PlanInv
  BY <1>1, <1>2, <1>3 DEF PlanInv
<1>5. runs \in 0..MaxRuns
  BY <1>1, InstancesAssumption
<1>6. QED
  BY <1>1, <1>2, <1>3, <1>4, <1>5, FreshTyped DEF DispatchInv, ContextInv
\* Where nothing but the log and the table can have changed.
LEMMA NodesKept ==
  ASSUME DispatchInv, UNCHANGED <<instance, graph, plan>>
  PROVE  /\ Nodes' = Nodes /\ Ops' = Ops
         /\ TypedGraph(graph)' /\ Scaled(graph)'
         /\ UserKernel' = UserKernel
         /\ \A node : CacheLeft(node)' = CacheLeft(node)
<1>1. Nodes' = Nodes
  BY DEF Nodes
<1>2. Ops' = Ops
  BY <1>1 DEF Ops
<1>3. TypedGraph(graph)' /\ Scaled(graph)'
  BY DEF DispatchInv, PlanInv, TypedGraph, Scaled
<1>4. \A node : CacheLeft(node)' = CacheLeft(node)
  BY SameCacheLeft
<1>5. QED
  BY <1>1, <1>2, <1>3, <1>4 DEF UserKernel

\* The conversion of the weights keeps the nodes.
LEMMA ConvertStep ==
  ASSUME DispatchInv, Convert
  PROVE  DispatchInv'
<1>1. /\ phase' = "converted" /\ graph' = Converted(graph, instance.conversion)
      /\ graph = Graphs[instance.graph] /\ instance \in Instances /\ Fresh
      /\ UNCHANGED <<instance, plan, users, caches, next, runs, log>>
  BY DEF DispatchInv, PlanInv, Convert
<1>2. graph'.nodes = graph.nodes /\ TypedGraph(graph') /\ Scaled(graph')
  BY <1>1, ImportTyped
<1>3. Nodes' = Nodes
  BY <1>2 DEF Nodes
<1>4. Fresh'
  BY <1>1, <1>3 DEF Fresh
<1>5. TypedGraph(graph)' /\ Scaled(graph)'
  BY <1>2 DEF TypedGraph, Scaled
<1>6. PlanInv'
  BY <1>1, <1>4, <1>5 DEF PlanInv
<1>7. (/\ users \in Seq(UserKernel) /\ Len(users) <= TableSize
       /\ caches \in [Nodes -> Caches]
       /\ next \in Nodes /\ LogInv)'
  BY <1>4, <1>5, FreshTyped, PTL
<1>8. runs' \in 0..MaxRuns
  BY <1>1 DEF DispatchInv, ContextInv
<1>9. QED
  BY <1>1, <1>6, <1>7, <1>8 DEF DispatchInv, ContextInv
\* The selection of the specs, which may refuse the graph.
LEMMA SelectStep ==
  ASSUME DispatchInv, Select
  PROVE  DispatchInv'
<1>1. /\ plan' = SelectKernelSpecs(graph, Profiles[instance.profile])
      /\ phase' = IF plan'.error = "none" THEN "ready" ELSE "refused"
      /\ UNCHANGED <<instance, graph, users, caches, next, runs, log>>
      /\ instance \in Instances /\ Fresh /\ TypedGraph(graph) /\ Scaled(graph)
  BY DEF DispatchInv, PlanInv, Select
<1>2. PlannedUpTo(graph, plan', Len(graph.nodes))
  BY <1>1, PlanCovers
<1>3. PlannedUpTo(graph, plan, Len(graph.nodes))'
  BY <1>1, <1>2 DEF PlannedUpTo, NodePlanned, KernelSpec
<1>4. Fresh' /\ Nodes' = Nodes
  BY <1>1 DEF Fresh, Nodes
<1>5. TypedGraph(graph)' /\ Scaled(graph)'
  BY <1>1 DEF TypedGraph, Scaled
<1>6. PlanInv'
  BY <1>1, <1>3, <1>4, <1>5 DEF PlanInv
<1>7. (/\ users \in Seq(UserKernel) /\ Len(users) <= TableSize
       /\ caches \in [Nodes -> Caches]
       /\ \A node \in Nodes : caches[node] = "empty"
       /\ next \in Nodes /\ LogInv)'
  BY <1>4, <1>5, FreshTyped, PTL
<1>8. runs' \in 0..MaxRuns
  BY <1>1 DEF DispatchInv, ContextInv
<1>9. QED
  BY <1>1, <1>6, <1>7, <1>8 DEF DispatchInv, ContextInv

\* Between runs, with a new table and no log.
LEMMA TableChanged ==
  ASSUME DispatchInv, Idle, UNCHANGED <<instance, graph, phase, plan, caches, next, runs>>,
         log' = <<>>, users' \in Seq(UserKernel), Len(users') <= TableSize
  PROVE  DispatchInv'
<1>1. /\ Nodes' = Nodes /\ UserKernel' = UserKernel
      /\ TypedGraph(graph)' /\ Scaled(graph)'
      /\ \A node : CacheLeft(node)' = CacheLeft(node)
  BY NodesKept
<1>2. phase = "ready" /\ next = 1
  BY DEF Idle
<1>3. PlannedUpTo(graph, plan, Len(graph.nodes))' /\ plan'.error = "none"
  BY <1>2 DEF DispatchInv, PlanInv, PlannedUpTo, NodePlanned, KernelSpec
<1>4. PlanInv'
  BY <1>1, <1>2, <1>3 DEF DispatchInv, PlanInv
<1>5. ContextInv'
  BY <1>1 DEF DispatchInv, ContextInv
<1>6. LogInv'
  <2>1. <<>> \in Seq({<<>>[node] : node \in DOMAIN <<>>}) /\ Len(<<>>) = 0
    OBVIOUS
  <2>2. Len(graph'.nodes) \in Nat
    BY <1>1, FirstNode DEF DispatchInv, PlanInv
  <2>3. QED
    BY <1>2, <2>1, <2>2 DEF LogInv
<1>7. QED
  BY <1>4, <1>5, <1>6 DEF DispatchInv

\* The host registers a kernel, for a spec of the plan; a full table stays.
LEMMA RegisterStep ==
  ASSUME DispatchInv, Register
  PROVE  DispatchInv'
<1>1. /\ Idle /\ log' = <<>>
      /\ UNCHANGED <<instance, graph, phase, plan, caches, next, runs>>
  BY DEF Register
<1>2. PICK id \in DOMAIN plan.specs, offer \in Offers :
          LET spec == plan.specs[id]
              entry == [op |-> graph.nodes[spec.node].op, backend |-> spec.backend,
                        kind |-> spec.kind, priority |-> offer.priority,
                        supports |-> offer.supports]
          IN  users' = IF Len(users) < TableSize THEN Append(users, entry) ELSE users
  BY DEF Register
<1> DEFINE spec == plan.specs[id]
           op == graph.nodes[spec.node].op
           entry == [op |-> op, backend |-> spec.backend, kind |-> spec.kind,
                     priority |-> offer.priority, supports |-> offer.supports]
<1>3. spec \in KernelSpec(graph)
  BY <1>1 DEF DispatchInv, PlanInv, PlannedUpTo, Idle
<1>4. op \in Ops /\ spec.backend \in Backends /\ spec.kind \in Kinds
  <2>1. spec.node \in 1..Len(graph.nodes) /\ spec.backend \in Backends /\ spec.kind \in Kinds
    BY <1>3 DEF KernelSpec
  <2>2. spec.node \in Nodes
    BY <2>1, FirstNode DEF DispatchInv, PlanInv, Nodes
  <2>3. QED
    BY <2>1, <2>2 DEF Ops
<1>5. offer.priority \in Int /\ offer.supports \in BOOLEAN /\ TableSize \in Nat
  BY InstancesAssumption
<1>6. users' = IF Len(users) < TableSize THEN Append(users, entry) ELSE users
  BY <1>2
<1> HIDE DEF spec, op
<1>7. entry \in UserKernel
  BY <1>4, <1>5 DEF UserKernel
<1> HIDE DEF entry
<1>8. users \in Seq(UserKernel) /\ Len(users) <= TableSize
  BY DEF DispatchInv, ContextInv
<1> DEFINE S == UserKernel
<1> HIDE DEF S
<1>9. users' \in Seq(S) /\ Len(users') <= TableSize
  <2>1. users \in Seq(S) /\ entry \in S
    BY <1>7, <1>8 DEF S
  <2>2. QED
    BY <1>5, <1>6, <1>8, <2>1
<1>10. QED
  BY <1>1, <1>9, TableChanged DEF S

\* The host clears its table.
LEMMA ClearStep ==
  ASSUME DispatchInv, Clear
  PROVE  DispatchInv'
<1>1. /\ Idle /\ log' = <<>> /\ users' = <<>>
      /\ UNCHANGED <<instance, graph, phase, plan, caches, next, runs>>
  BY DEF Clear
<1>2. users' \in Seq(UserKernel) /\ Len(users') <= TableSize
  BY <1>1, InstancesAssumption
<1>3. QED
  BY <1>1, <1>2, TableChanged

\* One node of a run.
LEMMA RunNodeStep ==
  ASSUME DispatchInv, RunNode
  PROVE  DispatchInv'
<1> DEFINE entry == IF instance.way = "inline" THEN InlineCall(next) ELSE ExecuteNode(next)
           last == entry.outcome.rc # 0 \/ next = Len(graph.nodes)
<1>1. /\ phase = "ready" /\ next \in Nodes /\ runs < MaxRuns
      /\ log' = IF next = 1 THEN <<entry>> ELSE Append(log, entry)
      /\ caches' = [caches EXCEPT ![next] = entry.outcome.cache]
      /\ IF last THEN next' = 1 /\ runs' = runs + 1 ELSE next' = next + 1 /\ runs' = runs
      /\ UNCHANGED <<instance, graph, phase, plan, users>>
  BY DEF RunNode
<1>2. /\ instance \in Instances /\ TypedGraph(graph) /\ Scaled(graph)
      /\ plan.error = "none" /\ PlannedUpTo(graph, plan, Len(graph.nodes))
      /\ users \in Seq(UserKernel) /\ caches \in [Nodes -> Caches]
      /\ \A node \in Nodes : caches[node] \in {"empty", CacheLeft(node)}
      /\ runs \in 0..MaxRuns
  BY <1>1 DEF DispatchInv, PlanInv, ContextInv
<1>3. Len(graph.nodes) \in Nat /\ Nodes = 1..Len(graph.nodes) /\ 1 \in Nodes
  BY <1>2, FirstNode DEF Nodes
<1>4. GoodEntry(next, entry)
  <2>1. instance.way \in {"library", "inline"}
    BY <1>2, InstancesAssumption
  <2>2. PlanReady /\ next \in 1..Len(graph.nodes) /\ caches[next] \in {"empty", CacheLeft(next)}
    BY <1>1, <1>2, <1>3 DEF PlanReady
  <2>3. QED
    BY <2>1, <2>2, EntryIsGood
<1> HIDE DEF entry, last
<1>5. entry.outcome.cache \in {"empty", CacheLeft(next)}
  BY <1>4 DEF GoodEntry
<1>6. /\ Nodes' = Nodes /\ UserKernel' = UserKernel
      /\ TypedGraph(graph)' /\ Scaled(graph)'
      /\ \A node : CacheLeft(node)' = CacheLeft(node)
  BY <1>1, NodesKept
<1>7. PlannedUpTo(graph, plan, Len(graph.nodes))'
  BY <1>1, <1>2 DEF PlannedUpTo, NodePlanned, KernelSpec
<1>8. PlanInv'
  BY <1>1, <1>2, <1>6, <1>7 DEF DispatchInv, PlanInv
<1>9. MaxRuns \in Nat
  BY InstancesAssumption
<1>10. next' \in Nodes /\ runs' \in 0..MaxRuns
  <2>1. next = Len(graph.nodes) => last
    BY DEF last
  <2>2. QED
    BY <1>1, <1>2, <1>3, <1>9, <2>1
<1>11. ContextInv'
  <2>1. entry.outcome.cache \in Caches
    BY <1>5, CacheNames
  <2>2. caches' \in [Nodes -> Caches]
    BY <1>1, <1>2, <2>1
  <2>3. \A node \in Nodes : caches'[node] \in {"empty", CacheLeft(node)}
    BY <1>1, <1>2, <1>5
  <2>4. users' \in Seq(UserKernel) /\ Len(users') <= TableSize
    BY <1>1 DEF DispatchInv, ContextInv
  <2>5. QED
    BY <1>6, <1>10, <2>2, <2>3, <2>4 DEF ContextInv
<1>12. /\ log' \in Seq({log'[node] : node \in DOMAIN log'}) /\ Len(log') = next
       /\ \A node \in 1..Len(log') : GoodEntry(node, log'[node])
  <2>1. CASE next = 1
    <3>1. log' = <<entry>>
      BY <1>1, <2>1
    <3>2. log' \in Seq({log'[node] : node \in DOMAIN log'}) /\ Len(log') = 1 /\ log'[1] = entry
      BY <3>1, LogStarts
    <3>3. QED
      BY <1>4, <2>1, <3>2
  <2>2. CASE next # 1
    <3>1. log' = Append(log, entry)
      BY <1>1, <2>2
    <3>2. /\ log \in Seq({log[node] : node \in DOMAIN log}) /\ Len(log) = next - 1
          /\ \A node \in 1..Len(log) : GoodEntry(node, log[node])
      BY <2>2 DEF DispatchInv, LogInv
    <3>3. /\ Len(log) \in Nat /\ log' \in Seq({log'[node] : node \in DOMAIN log'})
          /\ Len(log') = Len(log) + 1 /\ log'[Len(log')] = entry
          /\ \A i \in 1..Len(log) : log'[i] = log[i]
      BY <3>1, <3>2, LogGrows
    <3>4. ASSUME NEW node \in 1..Len(log') PROVE GoodEntry(node, log'[node])
      <4>1. node \in 1..Len(log) \/ node = Len(log')
        BY <3>3
      <4>2. Len(log') = next
        BY <1>1, <1>3, <3>2, <3>3
      <4>3. CASE node \in 1..Len(log)
        BY <3>2, <3>3, <4>3
      <4>4. CASE node = Len(log')
        BY <1>4, <3>3, <4>2, <4>4
      <4>5. QED
        BY <4>1, <4>3, <4>4
    <3>5. Len(log') = next
      BY <1>1, <1>3, <3>2, <3>3
    <3>6. QED
      BY <3>3, <3>4, <3>5
  <2>3. QED
    BY <2>1, <2>2
<1>13. LogInv'
  <2>1. \A node, e : GoodEntry(node, e)' <=> GoodEntry(node, e)
    BY <1>1, SameJudgement
  <2>2. \A node \in 1..Len(log') : GoodEntry(node, log[node])'
    BY <1>12, <2>1
  <2>3. Len(log') <= Len(graph'.nodes) /\ (next' # 1 => Len(log') = next' - 1)
    BY <1>1, <1>3, <1>12
  <2>4. QED
    BY <1>12, <2>2, <2>3 DEF LogInv
<1>14. QED
  BY <1>8, <1>11, <1>13 DEF DispatchInv
\* A step that changes nothing.
LEMMA StutterStep ==
  ASSUME DispatchInv, UNCHANGED vars
  PROVE  DispatchInv'
<1>1. UNCHANGED <<instance, graph, phase, plan, users, caches, next, runs, log>>
  BY DEF vars
<1>2. /\ Nodes' = Nodes /\ UserKernel' = UserKernel
      /\ TypedGraph(graph)' /\ Scaled(graph)'
      /\ \A node : CacheLeft(node)' = CacheLeft(node)
  BY <1>1, NodesKept
<1>3. phase = "ready" => PlannedUpTo(graph, plan, Len(graph.nodes))'
  BY <1>1 DEF DispatchInv, PlanInv, PlannedUpTo, NodePlanned, KernelSpec
<1>4. Fresh' <=> Fresh
  BY <1>1, <1>2 DEF Fresh
<1>5. PlanInv'
  BY <1>1, <1>2, <1>3, <1>4 DEF DispatchInv, PlanInv
<1>6. ContextInv'
  BY <1>1, <1>2 DEF DispatchInv, ContextInv
<1>7. \A node, e : GoodEntry(node, e)' <=> GoodEntry(node, e)
  BY <1>1, SameJudgement
<1>8. LogInv'
  BY <1>1, <1>7 DEF DispatchInv, LogInv
<1>9. QED
  BY <1>5, <1>6, <1>8 DEF DispatchInv

-----------------------------------------------------------------------------
(* The theorems.                                                           *)

\* The invariant of every behaviour, from the imported graph (onnx_importer.py)
\* over its conversion and selection (cli.py) to the last run of its context
\* (kernels.c): the plan, the host's table, the caches and the log belong to
\* the same graph.
THEOREM DispatchInvariant == Spec => []DispatchInv
<1>1. DispatchInv /\ [Next]_vars => DispatchInv'
  <2> SUFFICES ASSUME DispatchInv, [Next]_vars PROVE DispatchInv'
    OBVIOUS
  <2>1. CASE Convert
    BY <2>1, ConvertStep
  <2>2. CASE Select
    BY <2>2, SelectStep
  <2>3. CASE Register
    BY <2>3, RegisterStep
  <2>4. CASE Clear
    BY <2>4, ClearStep
  <2>5. CASE RunNode
    BY <2>5, RunNodeStep
  <2>6. CASE UNCHANGED vars
    BY <2>6, StutterStep
  <2>7. QED
    BY <2>1, <2>2, <2>3, <2>4, <2>5, <2>6 DEF Next
<1>2. QED
  BY <1>1, InitGood, PTL DEF Spec

\* Types, and the ids that the plan uses: a node's spec is its own, with scratch
\* that the context has, and its fallback is its reference kernel
\* (kernel_spec.py:75-136, kernels.c:184-212).
THEOREM DispatchTyped == Spec => []TypeOK
<1>1. DispatchInv => TypeOK
  <2> SUFFICES ASSUME DispatchInv PROVE TypeOK
    OBVIOUS
  <2>1. Len(graph.nodes) \in Nat /\ Nodes = 1..Len(graph.nodes)
    BY FirstNode DEF DispatchInv, PlanInv, Nodes
  <2>2. ASSUME phase = "ready"
        PROVE  /\ DOMAIN plan.byNode = Nodes
               /\ \A node \in Nodes :
                     LET spec == plan.specs[plan.byNode[node]]
                     IN  /\ spec.node = node
                         /\ spec.scratch <= plan.scratch
                         /\ spec.fallback # NoSpec =>
                               plan.specs[spec.fallback] = FallbackRefSpec(node)
    <3>1. plan.error = "none" /\ PlannedUpTo(graph, plan, Len(graph.nodes))
      BY <2>2 DEF DispatchInv, PlanInv
    <3>2. plan.byNode \in Seq(Nat) /\ Len(plan.byNode) = Len(graph.nodes)
      BY <3>1 DEF PlannedUpTo
    <3>3. DOMAIN plan.byNode = Nodes
      BY <2>1, <3>2
    <3>4. \A node \in Nodes : NodePlanned(graph, plan, node)
      BY <2>1, <3>1 DEF PlannedUpTo
    <3>5. QED
      BY <3>3, <3>4 DEF NodePlanned
  <2>3. QED
    BY <2>2 DEF TypeOK, DispatchInv, PlanInv, ContextInv
<1>2. QED
  BY <1>1, DispatchInvariant, PTL

\* The log's entries, in the words of the invariants.
LEMMA LoggedGood ==
  ASSUME DispatchInv, NEW node \in DOMAIN log
  PROVE  GoodEntry(node, log[node])
<1> DEFINE S == {log[i] : i \in DOMAIN log}
<1>1. log \in Seq(S)
  BY DEF DispatchInv, LogInv
<1> HIDE DEF S
<1>2. DOMAIN log = 1..Len(log)
  BY <1>1
<1>3. QED
  BY <1>2 DEF DispatchInv, LogInv

\* A node that the compiler accepted executes on every build, whatever the
\* graph and the profile: through its kernel, through the fallback of the plan
\* or through the reference kernel (kernels.c:184-245).
THEOREM AcceptedNodesExecute == Spec => []NodesExecute
<1>1. DispatchInv => NodesExecute
  <2> SUFFICES ASSUME DispatchInv PROVE NodesExecute
    OBVIOUS
  <2>1. QED
    BY LoggedGood DEF NodesExecute, GoodEntry
<1>2. QED
  BY <1>1, DispatchInvariant, PTL

\* Over any number of runs on one context, kernels read the weights as they are
\* stored, or as an earlier run of the same kernel packed them in the node's
\* cache, and the residual is added (conv.c:961, 1051, 2080).
THEOREM OperandsAreUsed == Spec => []OperandsUsed
<1>1. DispatchInv => OperandsUsed
  <2> SUFFICES ASSUME DispatchInv PROVE OperandsUsed
    OBVIOUS
  <2>1. QED
    BY LoggedGood DEF OperandsUsed, GoodEntry, Reads
<1>2. QED
  BY <1>1, DispatchInvariant, PTL

\* What the planner estimates for a node (kernel_spec.py:240) is enough for
\* whichever kernel executes it, for every shape with a row of columns that is
\* within the planner's cap (conv.c:1116).
THEOREM ScratchSuffices == Spec => []KernelScratchFits
<1>1. DispatchInv => KernelScratchFits
  <2> SUFFICES ASSUME DispatchInv PROVE KernelScratchFits
    OBVIOUS
  <2>1. QED
    BY LoggedGood DEF KernelScratchFits, GoodEntry, RowFits
<1>2. QED
  BY <1>1, DispatchInvariant, PTL

\* The loops of find_kernel (kernels.c:144-167) find the first of the host's
\* kernels with the highest priority, for a table of any size.
THEOREM HostKernelsPreferred == Spec => []UserKernelsPreferred
<1>1. DispatchInv => UserKernelsPreferred
  <2> SUFFICES ASSUME DispatchInv PROVE UserKernelsPreferred
    OBVIOUS
  <2>1. QED
    BY LoggedGood DEF UserKernelsPreferred, GoodEntry
<1>2. QED
  BY <1>1, DispatchInvariant, PTL
=============================================================================
