---------------------------- MODULE NaturalOrder ----------------------------
(***************************************************************************)
(* Least and greatest elements of sets of naturals, for the proofs about   *)
(* definitions that CHOOSE them.                                           *)
(***************************************************************************)
EXTENDS Integers, WellFoundedInduction, TLAPS

LOCAL Less == {p \in Nat \X Nat : p[1] < p[2]}

\* The order of the naturals, as a set of pairs, is well founded.
LEMMA LessWellFounded == IsWellFoundedOn(Less, Nat)
BY NatLessThanWellFounded, Zenon DEF OpToRel, Less

\* Every non-empty set of naturals has a least element.
LEMMA LeastNatural ==
  ASSUME NEW T, T \subseteq Nat, T # {}
  PROVE  \E x \in T : \A y \in T : x <= y
<1>1. PICK x \in T : \A y \in T : ~(<<y, x>> \in Less)
  BY LessWellFounded, WFMin
<1>2. \A a, b \in Nat : a < b => <<a, b>> \in Less
  BY DEF Less
<1>3. \A y \in T : ~(y < x)
  BY <1>1, <1>2, Zenon
<1>4. QED
  BY <1>3, SMT

\* A non-empty set of naturals below a bound has a greatest element: its least
\* upper bound.
LEMMA GreatestNatural ==
  ASSUME NEW b \in Nat, NEW T, T \subseteq 0 .. b, T # {}
  PROVE  \E x \in T : \A y \in T : y <= x
<1> DEFINE U == {u \in Nat : \A y \in T : y <= u}
<1>1. b \in U
  OBVIOUS
<1>2. PICK m \in U : \A u \in U : m <= u
  <2>1. U \subseteq Nat /\ U # {}
    BY <1>1
  <2> HIDE DEF U
  <2>2. QED
    BY <2>1, LeastNatural
<1>3. CASE m \in T
  BY <1>3, <1>2
<1>4. CASE m \notin T
  <2>1. \A y \in T : y < m
    BY <1>4, <1>2
  <2>2. m - 1 \in Nat
    <3>1. PICK y \in T : TRUE
      OBVIOUS
    <3>2. y \in Nat /\ y < m
      BY <2>1
    <3>3. m \in Nat
      BY <1>2
    <3>4. QED
      BY <3>2, <3>3
  <2>3. \A y \in T : y \in Nat /\ y <= m - 1
    BY <2>1, <1>2
  <2>4. m - 1 \in U
    BY <2>2, <2>3
  <2>5. QED
    BY <2>4, <1>2
<1>5. QED
  BY <1>3, <1>4

\* Induction, over a set: one that has 0 and is closed under successor has every
\* natural.
LEMMA NaturalInduction ==
  ASSUME NEW S, 0 \in S, \A n \in Nat : n \in S => n + 1 \in S
  PROVE  \A n \in Nat : n \in S
<1> SUFFICES ASSUME Nat \ S # {} PROVE FALSE
  OBVIOUS
<1>1. PICK x \in Nat \ S : \A y \in Nat \ S : x <= y
  <2>1. Nat \ S \subseteq Nat
    OBVIOUS
  <2>2. QED
    BY <2>1, LeastNatural
<1>2. x \in Nat /\ x # 0 /\ x \notin S
  BY <1>1
<1>3. x - 1 \in Nat /\ x - 1 \in S
  BY <1>1, <1>2
<1>4. (x - 1) + 1 \in S
  BY <1>3
<1>5. QED
  BY <1>2, <1>4
=============================================================================
