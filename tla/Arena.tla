------------------------------- MODULE Arena -------------------------------
(***************************************************************************)
(* What the activation-memory planner promises, with no word on how it     *)
(* finds room: tensors are granted a region of one arena in the order in   *)
(* which execution first needs them, a region is granted only if it meets  *)
(* no region still held, and a region is given back only once execution    *)
(* has passed the last node that uses it.                                  *)
(***************************************************************************)
EXTENDS Integers

CONSTANT Tensors       \* tensor ids

VARIABLES
  grants,   \* tensor id -> the region granted to it, kept after its release
  held,     \* ids whose region may still be read or written
  top,      \* bytes of arena the plan asks for
  clock     \* first use of the latest tensor the planner looked at

vars == <<grants, held, top, clock>>

Regions == [off: Nat, size: Nat \ {0}, first: Nat, last: Nat]

Apart(a, b) == a.off + a.size <= b.off \/ b.off + b.size <= a.off

Init ==
  /\ grants = << >>
  /\ held = {}
  /\ top = 0
  /\ clock = 0

\* Execution reaches a later point of the graph.
Advance ==
  /\ clock' \in Nat
  /\ clock' >= clock
  /\ UNCHANGED <<grants, held, top>>

\* The region of a tensor whose last use is in the past is given back.
Release(t) ==
  /\ t \in held
  /\ grants[t].last < clock
  /\ held' = held \ {t}
  /\ UNCHANGED <<grants, top, clock>>

\* A tensor first used now gets a region of the arena that meets no held one;
\* the arena may grow for it, and no earlier grant moves.
Grant(t) ==
  /\ t \notin DOMAIN grants
  /\ DOMAIN grants' = DOMAIN grants \cup {t}
  /\ \A x \in DOMAIN grants : grants'[x] = grants[x]
  /\ grants'[t] \in Regions
  /\ grants'[t].first = clock
  /\ \A h \in held : Apart(grants'[t], grants[h])
  /\ grants'[t].off + grants'[t].size <= top'
  /\ top' \in Nat
  /\ top <= top'
  /\ held' = held \cup {t}
  /\ UNCHANGED clock

Next ==
  \/ Advance
  \/ \E t \in Tensors : Release(t) \/ Grant(t)

Spec == Init /\ [][Next]_vars
=============================================================================
