------------------------ MODULE MCProtectedExecution ------------------------
(***************************************************************************)
(* Small packages for TLC.  The contents of a tensor are one float of two  *)
(* bits, a sign and a magnitude: 0, 1, -0 and -1 are 0, 1, 2 and 3.  A     *)
(* fault flips one of the bits, Relu maps both negatives to 0, Conv is a   *)
(* bijection and Reshape a copy.                                           *)
(***************************************************************************)
EXTENDS ProtectedExecution

MCValues == 0 .. 3
MCKernels ==
  [op \in Ops |->
     [v \in MCValues |->
        CASE op = "Relu" -> IF v >= 2 THEN 0 ELSE v
          [] op = "Reshape" -> v
          [] OTHER -> (v + 1) % 4]]

FlipMagnitude == [v \in MCValues |-> IF v % 2 = 0 THEN v + 1 ELSE v - 1]
FlipSign == [v \in MCValues |-> (v + 2) % 4]

MCFlips == {FlipMagnitude, FlipSign}

\* The bounds [0, 1] of a guard: -0 is inside.
MCRanges == {{0, 1, 2}}

\* Every package is run once; the host's second run, with the event, the counters
\* and the stats changed, kept or reset before it, is for the small ones.
Small ==
  /\ \A i \in Nodes : package.cells[i] = 1
  /\ package.op[0] = "Conv"
  /\ package.op[1] \in {"Conv", "Relu"}

MCNext == ExecuteStep \/ ((runs = 0 \/ Small) /\ Host)
MCFairSpec == Init /\ [][MCNext]_vars /\ WF_vars(ExecuteStep)
=============================================================================
