---------------------- MODULE ProtectedExecution_proofs ----------------------
(***************************************************************************)
(* Proofs about protected execution: for every chain of nodes, every set   *)
(* of kernels, faults, ranges and sizes, the counters of the stats add up, *)
(* the scratch is large enough, DMR raises no false alarm and a fault that *)
(* hits only duplicated nodes never reaches the output.                    *)
(***************************************************************************)
EXTENDS ProtectedExecution, NaturalOrder

-----------------------------------------------------------------------------
(* The package.                                                            *)

\* Largest is an upper bound of a bounded set, and respects the bound.
LEMMA LargestBounds ==
  ASSUME NEW b \in Nat, NEW S, S \subseteq 0 .. b
  PROVE  /\ Largest(S) \in 0 .. b
         /\ \A x \in S : x <= Largest(S)
<1>1. CASE S = {}
  BY <1>1 DEF Largest
<1>2. CASE S # {}
  <2>1. \E m \in S : \A x \in S : x <= m
    BY <1>2, GreatestNatural
  <2>2. Largest(S) = CHOOSE m \in S : \A x \in S : x <= m
    BY <1>2 DEF Largest
  <2>3. Largest(S) \in S /\ \A x \in S : x <= Largest(S)
    BY <2>1, <2>2, Zenon
  <2>4. QED
    BY <2>3
<1>3. QED
  BY <1>1, <1>2

\* write_spk puts the copies of every DMR record inside the scratch of the
\* package, after the cells of every kernel.
LEMMA PackageLayout ==
  ASSUME NEW op, NEW place, NEW range,
         NEW mode \in [Nodes -> Modes],
         NEW cells \in [Nodes -> TensorCells],
         NEW kernelCells \in [Nodes -> KernelCells],
         NEW p, p = Package(op, place, mode, cells, kernelCells, range)
  PROVE  /\ p.op = op /\ p.place = place /\ p.mode = mode /\ p.range = range
         /\ p.cells = cells /\ p.kernelCells = kernelCells
         /\ p.scratchOffset \in Nat
         /\ p.scratchSize \in Nat
         /\ p.scratchOffset <= p.scratchSize
         /\ \A i \in Nodes :
              /\ kernelCells[i] <= p.scratchOffset
              /\ mode[i] = DMR_COMPARE_RERUN => p.scratchOffset + 2 * cells[i] <= p.scratchSize
<1> DEFINE K == {kernelCells[i] : i \in Nodes}
           D == {2 * cells[i] : i \in {n \in Nodes : mode[n] = DMR_COMPARE_RERUN}}
<1>1. MaxCells \in Nat /\ 2 * MaxCells \in Nat
  BY ProtectionAssumption
<1>2. K \subseteq 0 .. MaxCells
  <2>1. \A i \in Nodes : kernelCells[i] \in 0 .. MaxCells
    BY ProtectionAssumption
  <2>2. QED
    BY <2>1, <1>1
<1>3. D \subseteq 0 .. 2 * MaxCells
  <2>1. \A i \in Nodes : cells[i] \in 1 .. MaxCells
    BY ProtectionAssumption
  <2>2. QED
    BY <2>1, <1>1
<1>4. Largest(K) \in Nat /\ \A x \in K : x <= Largest(K)
  BY <1>1, <1>2, LargestBounds
<1>5. Largest(D) \in Nat /\ \A x \in D : x <= Largest(D)
  BY <1>1, <1>3, LargestBounds
<1>6. p.scratchOffset = Largest(K) /\ p.scratchSize = Largest(K) + Largest(D)
  BY DEF Package, ProtectionScratch
<1>7. \A i \in Nodes : kernelCells[i] <= Largest(K)
  BY <1>4
<1>8. ASSUME NEW i \in Nodes, mode[i] = DMR_COMPARE_RERUN
      PROVE  Largest(K) + 2 * cells[i] <= Largest(K) + Largest(D)
  <2>1. 2 * cells[i] \in D
    BY <1>8
  <2>2. 2 * cells[i] \in Nat
    BY <2>1, <1>3
  <2>3. 2 * cells[i] <= Largest(D)
    BY <2>1, <1>5
  <2> DEFINE size == 2 * cells[i]
             top == Largest(D)
             low == Largest(K)
  <2>4. size \in Nat /\ top \in Nat /\ low \in Nat /\ size <= top
    BY <2>2, <2>3, <1>4, <1>5
  <2> HIDE DEF size, top, low
  <2>5. low + size <= low + top
    BY <2>4
  <2>6. QED
    BY <2>5 DEF size, top, low
<1>9. p.op = op /\ p.place = place /\ p.mode = mode /\ p.range = range
      /\ p.cells = cells /\ p.kernelCells = kernelCells
  BY DEF Package
<1> HIDE DEF K, D
<1>10. QED
  BY <1>4, <1>5, <1>6, <1>7, <1>8, <1>9

\* The invariant holds of a context that has just been prepared.
LEMMA InitIInv == Init => IInv
<1> SUFFICES ASSUME Init PROVE IInv
  OBVIOUS
<1>1. PICK op \in [Nodes -> Ops], place \in [TensorIds -> TensorIds],
           mode \in [Nodes -> Modes], cells \in [Nodes -> TensorCells],
           kernelCells \in [Nodes -> KernelCells], range \in [Nodes -> ValidRanges] :
        package = Package(op, place, mode, cells, kernelCells, range)
  BY DEF Init, Packages
<1>2. Layout
  BY <1>1, PackageLayout DEF Layout, DmrFits
<1>3. TypeOK
  <2>1. /\ package.op \in [Nodes -> Ops]
        /\ package.place \in [TensorIds -> TensorIds]
        /\ package.mode \in [Nodes -> Modes]
        /\ package.range \in [Nodes -> ValidRanges]
        /\ package.cells \in [Nodes -> TensorCells]
        /\ package.kernelCells \in [Nodes -> KernelCells]
    <3>1. /\ package.op = op /\ package.place = place /\ package.mode = mode
          /\ package.range = range /\ package.cells = cells
          /\ package.kernelCells = kernelCells
      BY <1>1, PackageLayout
    <3>2. QED
      BY <1>1, <3>1, Zenon
  <2>2. memory \in [TensorIds -> Values] /\ ideal \in [TensorIds -> Values]
    BY ProtectionAssumption DEF Init
  <2>3. stats \in Stats
    BY DEF Init, Stats, ZeroStats
  <2>4. PlacesOk(package.op, package.place)
    BY DEF Init
  <2>5. scratch \in [0 .. package.scratchSize - 1 -> Values \cup {Junk}]
    BY DEF Init
  <2>6. QED
    BY <2>1, <2>2, <2>3, <2>4, <2>5, ProtectionAssumption DEF Init, TypeOK
<1>4. Control /\ HitsFollowEvent /\ IdealChain /\ InputIntact /\ CopiesFaithful
  BY DEF Init, Control, HitsFollowEvent, IdealChain, InputIntact, CopiesFaithful
<1>5. CountersAgree /\ ScratchSuffices /\ FaultsMasked
  BY DEF Init, CountersAgree, ScratchSuffices, FaultsMasked, Returned, ZeroStats
<1>6. QED
  BY <1>2, <1>3, <1>4, <1>5 DEF IInv

-----------------------------------------------------------------------------
(* The host.                                                               *)

\* A package that does not change keeps its layout and its types.
LEMMA LayoutStays == Layout /\ UNCHANGED package => Layout'
BY DEF Layout, DmrFits

\* Between two runs the host changes the event and the stats at will.
LEMMA HostSettingsIInv ==
  IInv /\ (SetFaultEvent \/ ClearFaultEvent \/ ResetReliabilityStats) => IInv'
<1> SUFFICES ASSUME IInv, SetFaultEvent \/ ClearFaultEvent \/ ResetReliabilityStats
             PROVE  IInv'
  OBVIOUS
<1> USE DEF IInv
<1>1. /\ node = -1 /\ node' = -1 /\ stage' = stage
      /\ UNCHANGED <<package, memory, scratch, rc, counts, runs, ideal, hit>>
  BY DEF SetFaultEvent, ClearFaultEvent, ResetReliabilityStats
<1>2. event' \in Events \cup {NoEvent}
  BY DEF SetFaultEvent, ClearFaultEvent, ResetReliabilityStats, TypeOK
<1>3. /\ stats' \in Stats
      /\ aborted' \in Nat
      /\ observed' \in [Nodes -> SUBSET Values]
      /\ CountersAgree'
  <2>1. CASE UNCHANGED <<stats, aborted, observed>>
    BY <1>1, <2>1 DEF TypeOK, CountersAgree, RerunPending
  <2>2. CASE stats' = ZeroStats /\ aborted' = 0 /\ observed' = [i \in Nodes |-> {}]
    BY <1>1, <2>2 DEF CountersAgree, ZeroStats, Stats
  <2>3. QED
    BY <2>1, <2>2 DEF SetFaultEvent, ClearFaultEvent, ResetReliabilityStats
<1>4. TypeOK'
  BY <1>1, <1>2, <1>3 DEF TypeOK
<1>5. Layout' /\ ScratchSuffices'
  BY <1>1, LayoutStays DEF ScratchSuffices
<1>6. Control' /\ HitsFollowEvent' /\ IdealChain' /\ InputIntact' /\ CopiesFaithful'
  BY <1>1 DEF Control, HitsFollowEvent, IdealChain, InputIntact, CopiesFaithful,
              RerunPending
<1>7. FaultsMasked'
  BY <1>1 DEF FaultsMasked, Returned, Duplicated, Shared, In, Out
<1>8. QED
  BY <1>3, <1>4, <1>5, <1>6, <1>7

\* A run starts at node 0 with its input in place and no fault.
LEMMA StartRunIInv == IInv /\ StartRun => IInv'
<1> SUFFICES ASSUME IInv, StartRun PROVE IInv'
  OBVIOUS
<1> USE DEF IInv
<1>1. /\ node' = 0 /\ stage' = 0 /\ hit' = {} /\ node = -1 /\ 0 \in Nodes /\ stage = 0
      /\ UNCHANGED <<package, scratch, rc, event, stats, observed, aborted>>
  BY ProtectionAssumption DEF StartRun, Nodes, Control
<1>2. PICK f \in [TensorIds -> Values] :
        /\ \A i \in Nodes : f[i + 1] = Kernels[package.op[i]][f[i]]
        /\ ideal' = f
        /\ memory' = [memory EXCEPT ![0] = f[0]]
  BY DEF StartRun
<1>3. 0 \in TensorIds /\ package.place[0] = 0
  <2>1. 0 \in TensorIds
    BY ProtectionAssumption DEF TensorIds
  <2>2. package.place[0] \in 0 .. 0
    BY <2>1 DEF TypeOK, PlacesOk
  <2>3. QED
    BY <2>1, <2>2
<1>4. TypeOK'
  <2>1. runs' \in 0 .. MaxRuns
    BY ProtectionAssumption DEF StartRun, TypeOK
  <2>2. counts' \in [Nodes -> Nat]
    BY DEF StartRun
  <2>3. memory' \in [TensorIds -> Values]
    BY <1>2, <1>3 DEF TypeOK
  <2>4. QED
    BY <1>1, <1>2, <2>1, <2>2, <2>3 DEF TypeOK
<1>5. Layout' /\ ScratchSuffices' /\ CountersAgree'
  <2>1. ~RerunPending(node)'
    BY <1>1 DEF RerunPending
  <2>2. CountersAgree'
    BY <1>1, <2>1 DEF CountersAgree
  <2>3. QED
    BY <1>1, <2>2, LayoutStays DEF ScratchSuffices
<1>6. Control' /\ HitsFollowEvent' /\ CopiesFaithful' /\ FaultsMasked'
  BY <1>1 DEF Control, HitsFollowEvent, CopiesFaithful, FaultsMasked, Returned
<1>7. IdealChain'
  BY <1>1, <1>2 DEF IdealChain
<1>8. InputIntact'
  <2>1. memory'[0] = ideal'[0]
    BY <1>2, <1>3 DEF TypeOK
  <2>2. QED
    BY <1>1, <1>3, <2>1 DEF InputIntact, In
<1>9. QED
  BY <1>4, <1>5, <1>6, <1>7, <1>8

-----------------------------------------------------------------------------
(* One execution of a node.                                                *)

\* What every step of spkv2_run leaves true, whatever it does next.
Moves ==
  /\ node \in Nodes
  /\ UNCHANGED hostVars
  /\ memory' \in [TensorIds -> Values]
  /\ scratch' \in [0 .. package.scratchSize - 1 -> Values \cup {Junk}]
  /\ counts' \in [Nodes -> Nat]
  /\ observed' \in [Nodes -> SUBSET Values]
  /\ stats' \in Stats
  /\ hit \subseteq hit'
  /\ \A i \in hit' :
       /\ i \in Nodes /\ i <= node
       /\ event.enabled /\ event.node_id = i
       /\ event.invocation_index <= counts'[i]

\* The input and the output of a node are places, apart unless they are shared.
LEMMA Places ==
  ASSUME TypeOK, NEW i \in Nodes
  PROVE  /\ i \in TensorIds /\ i + 1 \in TensorIds
         /\ In(i) \in TensorIds /\ Out(i) \in TensorIds
         /\ Shared(i) => package.op[i] \in InPlaceOps
         /\ package.op[i] \in Ops
<1>1. i \in TensorIds /\ i + 1 \in TensorIds
  BY ProtectionAssumption DEF Nodes, TensorIds
<1>2. package.place \in [TensorIds -> TensorIds] /\ package.op[i] \in Ops
  BY DEF TypeOK
<1>3. package.place[i] \in 0 .. i
  BY <1>1 DEF TypeOK, PlacesOk
<1>4. \/ package.place[i + 1] = i + 1
      \/ package.op[i] \in InPlaceOps
  BY DEF TypeOK, PlacesOk
<1>5. package.place[i] # i + 1
  BY <1>3 DEF Nodes
<1>6. QED
  BY <1>1, <1>2, <1>4, <1>5 DEF In, Out, Shared

\* The kernel's output is a value, and running a shared kernel on its own output
\* changes nothing.
LEMMA ComputedValue ==
  ASSUME TypeOK, NEW i \in Nodes
  PROVE  /\ Computed(i) \in Values
         /\ Result(i) \in Values
         /\ Shared(i) => Kernels[package.op[i]][Computed(i)] = Computed(i)
<1>1. memory[In(i)] \in Values /\ package.op[i] \in Ops
  BY Places DEF TypeOK
<1>2. Kernels[package.op[i]] \in [Values -> Values]
  BY <1>1, ProtectionAssumption
<1>3. Computed(i) \in Values
  BY <1>1, <1>2 DEF Computed
<1>4. Injected(i) => event.flip \in [Values -> Values]
  <2>1. event.enabled => event \in Events
    BY DEF TypeOK, NoEvent
  <2>2. event \in Events => event.flip \in Flips
    BY DEF Events
  <2>3. QED
    BY <2>1, <2>2, ProtectionAssumption DEF Injected, Fires, Counted
<1>5. Result(i) \in Values
  BY <1>3, <1>4 DEF Result
<1>6. ASSUME Shared(i)
      PROVE  Kernels[package.op[i]][Computed(i)] = Computed(i)
  <2>1. package.op[i] \in InPlaceOps
    BY <1>6, Places
  <2>2. \A v \in Values : Kernels[package.op[i]][Kernels[package.op[i]][v]]
                          = Kernels[package.op[i]][v]
    BY <2>1, ProtectionAssumption
  <2>3. QED
    BY <2>2, <1>1 DEF Computed
<1>7. QED
  BY <1>3, <1>5, <1>6

\* execute_once writes the output and nothing else, counts the execution, and
\* never injects a second fault: a node already hit computes what its kernel does.
LEMMA ExecuteOnceEffect ==
  ASSUME IInv, node # -1, NEW v \in Values, ExecuteOnce(node, v), UNCHANGED hostVars,
         scratch' \in [0 .. package.scratchSize - 1 -> Values \cup {Junk}],
         observed' \in [Nodes -> SUBSET Values], stats' \in Stats
  PROVE  /\ Moves
         /\ memory'[Out(node)] = v
         /\ ~Shared(node) => memory'[In(node)] = memory[In(node)]
         /\ node \in hit => ~Fires(node)
         /\ hit' = IF Injected(node) THEN hit \cup {node} ELSE hit
<1> USE DEF IInv
<1>1. node \in Nodes
  BY DEF TypeOK
<1>2. Out(node) \in TensorIds /\ In(node) \in TensorIds
  BY <1>1, Places
<1>3. memory' = [memory EXCEPT ![Out(node)] = v] /\ memory \in [TensorIds -> Values]
  BY DEF ExecuteOnce, TypeOK
<1>4. /\ memory' \in [TensorIds -> Values]
      /\ memory'[Out(node)] = v
      /\ ~Shared(node) => memory'[In(node)] = memory[In(node)]
  BY <1>2, <1>3 DEF Shared
<1>5. event.enabled => event \in Events
  BY DEF TypeOK, NoEvent
<1>6. event.enabled => event.invocation_index \in Nat
  BY <1>5 DEF Events
<1>7. counts \in [Nodes -> Nat]
  BY DEF TypeOK
<1>8. node \in hit => ~Fires(node)
  BY <1>1, <1>6, <1>7 DEF HitsFollowEvent, Fires
<1>9. counts' \in [Nodes -> Nat] /\ \A i \in Nodes : counts[i] <= counts'[i]
  BY <1>1, <1>7 DEF ExecuteOnce
<1>10. hit' = IF Injected(node) THEN hit \cup {node} ELSE hit
  BY DEF ExecuteOnce
<1>11. ASSUME NEW i \in hit'
       PROVE  /\ i \in Nodes /\ i <= node
              /\ event.enabled /\ event.node_id = i
              /\ event.invocation_index <= counts'[i]
  <2>1. CASE i \in hit
    <3>1. /\ i \in Nodes /\ i <= node /\ event.enabled /\ event.node_id = i
          /\ event.invocation_index <= counts[i]
      BY <1>1, <2>1 DEF HitsFollowEvent, TypeOK, Nodes
    <3>2. QED
      BY <3>1, <1>6, <1>7, <1>9
  <2>2. CASE i = node /\ Injected(node)
    <3>1. counts'[node] = counts[node] + 1
      BY <1>1, <1>7, <2>2 DEF ExecuteOnce, Injected, Fires
    <3>2. QED
      BY <1>1, <1>6, <2>2, <3>1 DEF Injected, Fires, Counted, Nodes
  <2>3. QED
    BY <2>1, <2>2, <1>10
<1>12. QED
  BY <1>1, <1>4, <1>8, <1>9, <1>10, <1>11 DEF Moves

-----------------------------------------------------------------------------
(* The three ways a step ends.                                             *)

\* Types, layout and the chain of ideal values survive every step that leaves
\* spkv2_run at a node or ends it.
LEMMA MovesKeep ==
  ASSUME IInv, Moves, node' \in Nodes \cup {-1}, stage' \in 0 .. 2,
         rc' \in {0, -22, -99}, aborted' \in Nat
  PROVE  TypeOK' /\ Layout' /\ ScratchSuffices' /\ IdealChain'
<1> USE DEF IInv
<1>1. node # -1
  BY DEF Moves, Nodes
<1>2. UNCHANGED <<package, event, runs, ideal>>
  BY DEF Moves, hostVars
<1>3. TypeOK'
  BY <1>2 DEF TypeOK, Moves
<1>4. IdealChain'
  BY <1>1, <1>2 DEF IdealChain
<1>5. Layout' /\ ScratchSuffices'
  BY <1>2, LayoutStays DEF ScratchSuffices
<1>6. QED
  BY <1>3, <1>4, <1>5

\* The node is done with a right output, and its verdicts are counted.
LEMMA AdvanceIInv ==
  ASSUME IInv, Moves, Advance(node),
         stats'.detected = stats'.rerun,
         stats'.detected = stats'.recovered + stats'.unrecovered + aborted,
         HitsDuplicated' => memory'[Out(node)] = ideal[node + 1]
  PROVE  IInv'
<1> USE DEF IInv
<1>1. node \in Nodes /\ node # -1 /\ UNCHANGED <<package, event, runs, ideal>>
  BY DEF Moves, hostVars, Nodes
<1>2. /\ stage' = 0 /\ UNCHANGED aborted
      /\ node' = IF node + 1 = NumNodes THEN -1 ELSE node + 1
      /\ rc' = IF node + 1 = NumNodes THEN 0 ELSE rc
  BY DEF Advance
<1>3. node' \in Nodes \cup {-1}
  BY <1>1, <1>2, ProtectionAssumption DEF Nodes
<1>4. rc' \in {0, -22, -99} /\ aborted' \in Nat
  BY <1>2 DEF TypeOK, ScratchSuffices
<1>5. TypeOK' /\ Layout' /\ ScratchSuffices' /\ IdealChain'
  BY <1>2, <1>3, <1>4, MovesKeep
<1>6. Control' /\ CopiesFaithful'
  BY <1>2 DEF Control, CopiesFaithful
<1>7. CountersAgree'
  BY <1>2, <1>4 DEF CountersAgree, RerunPending, Moves, Stats
<1>8. HitsFollowEvent'
  BY <1>1, <1>2 DEF HitsFollowEvent, Moves, Nodes
<1>9. InputIntact'
  BY <1>1, <1>2 DEF InputIntact, In, Out
<1>10. FaultsMasked'
  <2>1. SUFFICES ASSUME node' = -1, HitsDuplicated'
                 PROVE  memory'[Out(NumNodes - 1)'] = ideal'[NumNodes]
    BY DEF FaultsMasked, Returned, HitsDuplicated
  <2>2. node + 1 = NumNodes /\ node = NumNodes - 1
    BY <2>1, <1>1, <1>2, ProtectionAssumption DEF Nodes
  <2>3. Out(NumNodes - 1)' = Out(node)
    BY <2>2, <1>1 DEF Out
  <2>4. QED
    BY <2>1, <2>2, <2>3, <1>1
<1>11. QED
  BY <1>5, <1>6, <1>7, <1>8, <1>9, <1>10

\* The node is executed again.
LEMMA StayIInv ==
  ASSUME IInv, Moves, NEW k \in {1, 2}, Stay(node, k),
         Control', CountersAgree', InputIntact', CopiesFaithful'
  PROVE  IInv'
<1> USE DEF IInv
<1>1. node' = node /\ stage' = k /\ UNCHANGED <<rc, aborted>> /\ node \in Nodes /\ node # -1
  BY DEF Stay, Moves, Nodes
<1>2. node' \in Nodes \cup {-1} /\ stage' \in 0 .. 2 /\ rc' \in {0, -22, -99} /\ aborted' \in Nat
  BY <1>1 DEF TypeOK, ScratchSuffices
<1>3. TypeOK' /\ Layout' /\ ScratchSuffices' /\ IdealChain'
  BY <1>2, MovesKeep
<1>4. HitsFollowEvent'
  BY <1>1 DEF HitsFollowEvent, Moves, Nodes, hostVars
<1>5. FaultsMasked'
  BY <1>1 DEF FaultsMasked, Returned
<1>6. QED
  BY <1>3, <1>4, <1>5

\* spkv2_run returns an error; a rerun that fails is counted as aborted.
LEMMA FailIInv ==
  ASSUME IInv, Moves, NEW code \in {-22, -99}, Fail(node, code), UNCHANGED stats
  PROVE  IInv'
<1> USE DEF IInv
<1>1. node' = -1 /\ stage' = 0 /\ rc' = code /\ node # -1
      /\ aborted' = IF RerunPending(node) THEN aborted + 1 ELSE aborted
  BY DEF Fail, Moves, Nodes
<1>2. aborted \in Nat /\ aborted' \in Nat /\ stats \in Stats
  BY <1>1 DEF TypeOK
<1>3. TypeOK' /\ Layout' /\ ScratchSuffices' /\ IdealChain'
  BY <1>1, <1>2, MovesKeep
<1>4. CountersAgree'
  <2>1. /\ stats.detected \in Nat /\ stats.recovered \in Nat /\ stats.unrecovered \in Nat
        /\ stats.detected = stats.rerun
    BY <1>2 DEF CountersAgree, Stats
  <2>2. stats.detected = stats.recovered + stats.unrecovered + aborted'
    <3>1. CASE RerunPending(node)
      BY <1>1, <1>2, <2>1, <3>1 DEF CountersAgree
    <3>2. CASE ~RerunPending(node)
      BY <1>1, <1>2, <2>1, <3>2 DEF CountersAgree
    <3>3. QED
      BY <3>1, <3>2
  <2>3. QED
    BY <1>1, <2>1, <2>2 DEF CountersAgree
<1>5. Control' /\ HitsFollowEvent' /\ InputIntact' /\ CopiesFaithful' /\ FaultsMasked'
  BY <1>1 DEF Control, HitsFollowEvent, InputIntact, CopiesFaithful, FaultsMasked, Returned
<1>6. QED
  BY <1>3, <1>4, <1>5

-----------------------------------------------------------------------------
(* What a successful execution computes.                                   *)

\* While faults hit only duplicated nodes, the kernel of the current node
\* computes the ideal output, on its first execution and on the later ones.
LEMMA ComputesIdeal ==
  ASSUME IInv, node # -1, HitsDuplicated
  PROVE  Computed(node) = ideal[node + 1]
<1> USE DEF IInv
<1>1. node \in Nodes
  BY DEF TypeOK
<1>2. ideal[node + 1] = Kernels[package.op[node]][ideal[node]]
  BY <1>1 DEF IdealChain
<1>3. CASE ~(stage # 0 /\ Shared(node))
  BY <1>2, <1>3 DEF InputIntact, Computed
<1>4. CASE stage # 0 /\ Shared(node)
  <2>1. package.op[node] \in InPlaceOps /\ node \in TensorIds
    BY <1>1, <1>4, Places
  <2>2. ideal[node] \in Values
    BY <2>1 DEF TypeOK
  <2>3. Kernels[package.op[node]][ideal[node + 1]] = ideal[node + 1]
    BY <1>2, <2>1, <2>2, ProtectionAssumption
  <2>4. memory[In(node)] = ideal[node + 1]
    BY <1>4 DEF InputIntact
  <2>5. QED
    BY <2>3, <2>4 DEF Computed
<1>5. QED
  BY <1>3, <1>4

\* The facts about a successful execution that the proofs of the modes share.
LEMMA SucceedsEffect ==
  ASSUME IInv, NEW mode \in Modes, NEW k \in 0 .. 2, Succeeds(mode, k),
         scratch' \in [0 .. package.scratchSize - 1 -> Values \cup {Junk}],
         observed' \in [Nodes -> SUBSET Values], stats' \in Stats
  PROVE  /\ Moves
         /\ node # -1 /\ package.mode[node] = mode /\ stage = k
         /\ memory'[Out(node)] = Result(node)
         /\ ~Injected(node) => Result(node) = Computed(node)
         /\ node \in hit => ~Injected(node)
         /\ hit' = IF Injected(node) THEN hit \cup {node} ELSE hit
         /\ ~Injected(node) \/ ~Shared(node) => Computed(node)' = Computed(node) \/ node' # node
         /\ HitsDuplicated' /\ ~Injected(node) => memory'[Out(node)] = ideal[node + 1]
         /\ HitsDuplicated' /\ Injected(node) => Duplicated(node)
         /\ HitsDuplicated' => memory'[In(node)] = ideal[IF Shared(node) THEN node + 1 ELSE node]
<1> USE DEF IInv
<1>1. /\ node # -1 /\ package.mode[node] = mode /\ stage = k
      /\ ExecuteOnce(node, Result(node)) /\ UNCHANGED hostVars
  BY DEF Succeeds, Executes
<1>2. node \in Nodes
  BY <1>1 DEF TypeOK
<1>3. Result(node) \in Values /\ Computed(node) \in Values
  BY <1>2, ComputedValue
<1>4. /\ Moves
      /\ memory'[Out(node)] = Result(node)
      /\ ~Shared(node) => memory'[In(node)] = memory[In(node)]
      /\ node \in hit => ~Fires(node)
      /\ hit' = IF Injected(node) THEN hit \cup {node} ELSE hit
  BY <1>1, <1>3, ExecuteOnceEffect
<1>5. ~Injected(node) => Result(node) = Computed(node)
  BY DEF Result
<1>6. node \in hit => ~Injected(node)
  BY <1>4 DEF Injected
<1>7. package' = package
  BY <1>1 DEF hostVars
<1>8. ASSUME ~Injected(node) \/ ~Shared(node), node' = node
      PROVE  Computed(node)' = Computed(node)
  <2>1. Computed(node)' = Kernels[package.op[node]][memory'[In(node)]]
    BY <1>7, <1>8 DEF Computed, In
  <2>2. CASE ~Shared(node)
    BY <2>1, <2>2, <1>4 DEF Computed
  <2>3. CASE Shared(node)
    <3>1. memory'[In(node)] = Computed(node)
      BY <2>3, <1>4, <1>5, <1>8 DEF Shared
    <3>2. QED
      BY <2>1, <2>3, <3>1, <1>2, ComputedValue
  <2>4. QED
    BY <2>2, <2>3
<1>9. ASSUME HitsDuplicated'
      PROVE  HitsDuplicated /\ (Injected(node) => Duplicated(node))
  <2>1. \A i \in hit' : Duplicated(i)
    BY <1>7, <1>9 DEF HitsDuplicated, Duplicated, Shared, In, Out
  <2>2. hit \subseteq hit'
    BY <1>4
  <2>3. QED
    BY <2>1, <2>2, <1>4 DEF HitsDuplicated
<1>10. ASSUME HitsDuplicated', ~Injected(node)
       PROVE  memory'[Out(node)] = ideal[node + 1]
  BY <1>1, <1>4, <1>5, <1>9, <1>10, ComputesIdeal
<1>11. ASSUME HitsDuplicated'
       PROVE  memory'[In(node)] = ideal[IF Shared(node) THEN node + 1 ELSE node]
  <2>1. CASE Shared(node)
    <3>1. ~Injected(node)
      BY <2>1, <1>9, <1>11 DEF Duplicated
    <3>2. QED
      BY <2>1, <3>1, <1>10, <1>11 DEF Shared
  <2>2. CASE ~Shared(node)
    BY <2>2, <1>1, <1>4, <1>9, <1>11 DEF InputIntact
  <2>3. QED
    BY <2>1, <2>2
<1>12. QED
  BY <1>1, <1>4, <1>5, <1>6, <1>8, <1>9, <1>10, <1>11

\* What a kernel leaves in the scratch is scratch.
LEMMA ScribbledType ==
  ASSUME TypeOK
  PROVE  Scribbled(node) \in [0 .. package.scratchSize - 1 -> Values \cup {Junk}]
BY DEF TypeOK, Scribbled

\* The stats have their type whatever is counted.
LEMMA StatsType ==
  ASSUME TypeOK
  PROVE  /\ InjectedStats(node) \in Stats
         /\ Alarm(InjectedStats(node)) \in Stats
         /\ \A good \in BOOLEAN : Verdict(InjectedStats(node), good) \in Stats
<1>1. stats \in Stats
  BY DEF TypeOK
<1>2. InjectedStats(node) \in Stats
  BY <1>1 DEF InjectedStats, Stats
<1>3. ASSUME NEW s \in Stats PROVE Alarm(s) \in Stats
  <2>1. s.detected + 1 \in Nat /\ s.rerun + 1 \in Nat
    BY DEF Stats
  <2>2. \A d, r \in Nat : [s EXCEPT !.detected = d, !.rerun = r] \in Stats
    BY DEF Stats
  <2>3. Alarm(s) = [s EXCEPT !.detected = s.detected + 1, !.rerun = s.rerun + 1]
    BY DEF Alarm, Stats
  <2>4. QED
    BY <2>1, <2>2, <2>3, Zenon
<1>4. ASSUME NEW s \in Stats, NEW good \in BOOLEAN PROVE Verdict(s, good) \in Stats
  BY DEF Verdict, Stats
<1>5. QED
  BY <1>2, <1>3, <1>4

\* Injecting a fault changes no other counter.
LEMMA InjectedCounters ==
  ASSUME TypeOK
  PROVE  /\ InjectedStats(node).detected = stats.detected
         /\ InjectedStats(node).rerun = stats.rerun
         /\ InjectedStats(node).recovered = stats.recovered
         /\ InjectedStats(node).unrecovered = stats.unrecovered
         /\ stats.detected \in Nat /\ stats.rerun \in Nat
         /\ stats.recovered \in Nat /\ stats.unrecovered \in Nat
         /\ aborted \in Nat
BY DEF TypeOK, InjectedStats, Stats

\* The counters of an alarm and of a verdict.
LEMMA AlarmCounters ==
  ASSUME NEW s \in Stats
  PROVE  /\ Alarm(s).detected = s.detected + 1
         /\ Alarm(s).rerun = s.rerun + 1
         /\ Alarm(s).recovered = s.recovered
         /\ Alarm(s).unrecovered = s.unrecovered
BY DEF Alarm, Stats

\* Exactly one of the two verdicts is counted.
LEMMA VerdictCounters ==
  ASSUME NEW s \in Stats, NEW good \in BOOLEAN
  PROVE  /\ Verdict(s, good).detected = s.detected
         /\ Verdict(s, good).rerun = s.rerun
         /\ Verdict(s, good).recovered + Verdict(s, good).unrecovered
              = s.recovered + s.unrecovered + 1
         /\ good => Verdict(s, good).unrecovered = s.unrecovered
         /\ ~good => Verdict(s, good).recovered = s.recovered
BY DEF Verdict, Stats

-----------------------------------------------------------------------------
(* The modes.                                                              *)

\* A node without protection.
LEMMA RunUnprotectedIInv == IInv /\ RunUnprotected => IInv'
<1> SUFFICES ASSUME IInv, RunUnprotected PROVE IInv'
  OBVIOUS
<1> USE DEF IInv
<1>1. /\ Succeeds(NONE, 0) /\ Advance(node) /\ stats' = InjectedStats(node)
      /\ scratch' = Scribbled(node) /\ UNCHANGED observed
  BY DEF RunUnprotected
<1>2. /\ scratch' \in [0 .. package.scratchSize - 1 -> Values \cup {Junk}]
      /\ observed' \in [Nodes -> SUBSET Values] /\ stats' \in Stats
  BY <1>1, ScribbledType, StatsType DEF TypeOK
<1>3. /\ Moves /\ node # -1 /\ package.mode[node] = NONE
      /\ HitsDuplicated' => memory'[Out(node)] = ideal[node + 1]
  BY <1>1, <1>2, SucceedsEffect DEF Modes, Duplicated, NONE, DMR_COMPARE_RERUN
<1>4. ~RerunPending(node)
  BY <1>3 DEF RerunPending, NONE, RANGE_GUARD_RERUN, DMR_COMPARE_RERUN
<1>5. stats'.detected = stats'.rerun
      /\ stats'.detected = stats'.recovered + stats'.unrecovered + aborted
  BY <1>1, <1>4, InjectedCounters DEF CountersAgree
<1>6. QED
  BY <1>1, <1>3, <1>5, AdvanceIInv

\* The first execution of a range guard.
LEMMA GuardFirstIInv == IInv /\ GuardFirst => IInv'
<1> SUFFICES ASSUME IInv, GuardFirst PROVE IInv'
  OBVIOUS
<1> USE DEF IInv
<1>1. /\ Succeeds(RANGE_GUARD_RERUN, 0) /\ scratch' = Scribbled(node)
      /\ observed' = [observed EXCEPT ![node] = @ \cup {Result(node)}]
      /\ IF Result(node) \in package.range[node]
         THEN stats' = InjectedStats(node) /\ Advance(node)
         ELSE stats' = Alarm(InjectedStats(node)) /\ Stay(node, 1)
  BY DEF GuardFirst
<1>2. node \in Nodes
  BY <1>1 DEF Succeeds, Executes, TypeOK
<1>3. /\ scratch' \in [0 .. package.scratchSize - 1 -> Values \cup {Junk}]
      /\ observed' \in [Nodes -> SUBSET Values] /\ stats' \in Stats
  BY <1>1, <1>2, ScribbledType, StatsType, ComputedValue DEF TypeOK
<1>4. /\ Moves /\ node # -1 /\ package.mode[node] = RANGE_GUARD_RERUN /\ stage = 0
      /\ HitsDuplicated' => memory'[Out(node)] = ideal[node + 1]
      /\ HitsDuplicated' => memory'[In(node)] = ideal[IF Shared(node) THEN node + 1 ELSE node]
      /\ UNCHANGED <<package, ideal>>
  <2>1. UNCHANGED <<package, ideal>>
    BY <1>1 DEF Succeeds, hostVars
  <2>2. QED
    BY <1>1, <1>3, <2>1, SucceedsEffect DEF Modes, Duplicated, RANGE_GUARD_RERUN, DMR_COMPARE_RERUN
<1>5. ~RerunPending(node)
  BY <1>4 DEF RerunPending
<1>6. CASE Result(node) \in package.range[node]
  <2>1. stats'.detected = stats'.rerun
        /\ stats'.detected = stats'.recovered + stats'.unrecovered + aborted
    BY <1>1, <1>5, <1>6, InjectedCounters DEF CountersAgree
  <2>2. QED
    BY <1>1, <1>4, <1>6, <2>1, AdvanceIInv
<1>7. CASE Result(node) \notin package.range[node]
  <2>1. stats' = Alarm(InjectedStats(node)) /\ Stay(node, 1)
    BY <1>1, <1>7
  <2>2. node' = node /\ stage' = 1 /\ aborted' = aborted
    BY <2>1 DEF Stay
  <2>3. Control' /\ RerunPending(node)'
    BY <1>4, <2>2 DEF Control, RerunPending
  <2>4. CountersAgree'
    BY <1>4, <1>5, <2>1, <2>2, <2>3, InjectedCounters, StatsType, AlarmCounters
       DEF CountersAgree
  <2>5. InputIntact'
    BY <1>4, <2>2 DEF InputIntact, In, Out, Shared
  <2>6. CopiesFaithful'
    BY <1>4, <2>2 DEF CopiesFaithful, RANGE_GUARD_RERUN, DMR_COMPARE_RERUN
  <2>7. QED
    BY <1>4, <2>1, <2>3, <2>4, <2>5, <2>6, StayIInv
<1>8. QED
  BY <1>6, <1>7

\* The rerun of a range guard.
LEMMA GuardRerunIInv == IInv /\ GuardRerun => IInv'
<1> SUFFICES ASSUME IInv, GuardRerun PROVE IInv'
  OBVIOUS
<1> USE DEF IInv
<1> DEFINE good == Result(node) \in package.range[node]
<1>1. /\ Succeeds(RANGE_GUARD_RERUN, 1) /\ scratch' = Scribbled(node) /\ UNCHANGED observed
      /\ stats' = Verdict(InjectedStats(node), good) /\ Advance(node)
  BY DEF GuardRerun
<1>2. /\ scratch' \in [0 .. package.scratchSize - 1 -> Values \cup {Junk}]
      /\ observed' \in [Nodes -> SUBSET Values] /\ stats' \in Stats
  <2>1. good \in BOOLEAN
    OBVIOUS
  <2> HIDE DEF good
  <2>2. stats' \in Stats
    BY <1>1, <2>1, StatsType
  <2>3. QED
    BY <1>1, <2>2, ScribbledType DEF TypeOK
<1>3. /\ Moves /\ node # -1 /\ package.mode[node] = RANGE_GUARD_RERUN /\ stage = 1
      /\ HitsDuplicated' => memory'[Out(node)] = ideal[node + 1]
  BY <1>1, <1>2, SucceedsEffect DEF Modes, Duplicated, RANGE_GUARD_RERUN, DMR_COMPARE_RERUN
<1>4. RerunPending(node)
  BY <1>3 DEF RerunPending
<1>5. good \in BOOLEAN
  OBVIOUS
<1> HIDE DEF good
<1>6. stats'.detected = stats'.rerun
      /\ stats'.detected = stats'.recovered + stats'.unrecovered + aborted
  BY <1>1, <1>3, <1>4, <1>5, InjectedCounters, StatsType, VerdictCounters DEF CountersAgree
<1>7. QED
  BY <1>1, <1>3, <1>6, AdvanceIInv

\* The copies of a DMR record lie in the scratch, apart from each other and from
\* the cells that the kernel overwrites.
LEMMA CopiesLayout ==
  ASSUME TypeOK, Layout, node # -1, package.mode[node] = DMR_COMPARE_RERUN
  PROVE  /\ \A k \in {0, 1} : \A c \in CopyAt(k) :
              c \in DOMAIN scratch /\ Scribbled(node)[c] = scratch[c]
         /\ CopyAt(0) # {} /\ CopyAt(1) # {}
         /\ \A c \in CopyAt(0) : c \notin CopyAt(1)
<1> DEFINE offset == package.scratchOffset
           size == package.scratchSize
           cells == package.cells[node]
           kernel == package.kernelCells[node]
<1>1. node \in Nodes
  BY DEF TypeOK
<1>2. cells \in TensorCells /\ kernel \in KernelCells
  BY <1>1 DEF TypeOK
<1>3. cells \in Nat \ {0} /\ kernel \in Nat
  BY <1>2, ProtectionAssumption
<1>4. offset \in Nat /\ size \in Nat /\ kernel <= offset /\ offset + 2 * cells <= size
  BY <1>1 DEF Layout, DmrFits
<1>5. DOMAIN scratch = 0 .. size - 1
  BY DEF TypeOK
<1>6. /\ CopyAt(0) = offset + 0 * cells .. offset + (0 + 1) * cells - 1
      /\ CopyAt(1) = offset + 1 * cells .. offset + (1 + 1) * cells - 1
  BY DEF CopyAt
<1>7. \A c \in DOMAIN scratch : ~(c < kernel) => Scribbled(node)[c] = scratch[c]
  BY DEF Scribbled
<1> HIDE DEF offset, size, cells, kernel
<1>8. /\ CopyAt(0) = offset .. offset + cells - 1
      /\ CopyAt(1) = offset + cells .. offset + 2 * cells - 1
  BY <1>3, <1>4, <1>6
<1>9. \A k \in {0, 1} : \A c \in CopyAt(k) : c \in DOMAIN scratch /\ ~(c < kernel)
  <2>1. \A c \in CopyAt(0) : c \in DOMAIN scratch /\ ~(c < kernel)
    BY <1>3, <1>4, <1>5, <1>8
  <2>2. \A c \in CopyAt(1) : c \in DOMAIN scratch /\ ~(c < kernel)
    BY <1>3, <1>4, <1>5, <1>8
  <2>3. QED
    BY <2>1, <2>2
<1>10. offset \in CopyAt(0) /\ offset + cells \in CopyAt(1)
  BY <1>3, <1>4, <1>8
<1>11. \A c \in CopyAt(0) : c \notin CopyAt(1)
  BY <1>3, <1>4, <1>8
<1>12. QED
  BY <1>7, <1>9, <1>10, <1>11

\* Writing a copy sets its cells and leaves the rest to the kernel.
LEMMA CopyToEffect ==
  ASSUME TypeOK, Layout, node \in Nodes, package.mode[node] = DMR_COMPARE_RERUN,
         NEW k \in {0, 1}, NEW v \in Values, CopyTo(k, v)
  PROVE  /\ scratch' \in [0 .. package.scratchSize - 1 -> Values \cup {Junk}]
         /\ \A c \in CopyAt(k) : scratch'[c] = v
         /\ k = 1 => \A c \in CopyAt(0) : scratch'[c] = scratch[c]
<1>1. node # -1
  BY DEF Nodes
<1>2. scratch' = [c \in DOMAIN scratch |-> IF c \in CopyAt(k) THEN v ELSE Scribbled(node)[c]]
  BY DEF CopyTo
<1>3. DOMAIN scratch = 0 .. package.scratchSize - 1
  BY DEF TypeOK
<1>4. \A c \in DOMAIN scratch : Scribbled(node)[c] \in Values \cup {Junk}
  BY <1>3, ScribbledType
<1>5. \A c \in CopyAt(k) : scratch'[c] = v
  BY <1>1, <1>2, CopiesLayout
<1>6. k = 1 => \A c \in CopyAt(0) : scratch'[c] = scratch[c]
  BY <1>1, <1>2, CopiesLayout
<1>7. QED
  BY <1>2, <1>3, <1>4, <1>5, <1>6

\* The first execution under DMR.
LEMMA DmrFirstIInv == IInv /\ DmrFirst => IInv'
<1> SUFFICES ASSUME IInv, DmrFirst PROVE IInv'
  OBVIOUS
<1> USE DEF IInv
<1>1. /\ Succeeds(DMR_COMPARE_RERUN, 0) /\ CopyTo(0, Result(node))
      /\ stats' = InjectedStats(node) /\ Stay(node, 1) /\ UNCHANGED observed
  BY DEF DmrFirst
<1>2. /\ node \in Nodes /\ package.mode[node] = DMR_COMPARE_RERUN /\ stage = 0
      /\ UNCHANGED <<package, ideal>>
  BY <1>1 DEF Succeeds, Executes, TypeOK, hostVars
<1>3. Result(node) \in Values
  BY <1>2, ComputedValue
<1>4. /\ scratch' \in [0 .. package.scratchSize - 1 -> Values \cup {Junk}]
      /\ \A c \in CopyAt(0) : scratch'[c] = Result(node)
  BY <1>1, <1>2, <1>3, CopyToEffect
<1>5. observed' \in [Nodes -> SUBSET Values] /\ stats' \in Stats
  BY <1>1, StatsType DEF TypeOK
<1>6. node' = node /\ stage' = 1 /\ aborted' = aborted /\ node # -1
  BY <1>1, <1>2 DEF Stay, Nodes
<1>7. /\ Moves
      /\ ~Injected(node) => Result(node) = Computed(node) /\ Computed(node)' = Computed(node)
      /\ hit' = IF Injected(node) THEN hit \cup {node} ELSE hit
      /\ HitsDuplicated' => memory'[In(node)] = ideal[IF Shared(node) THEN node + 1 ELSE node]
  BY <1>1, <1>4, <1>5, <1>6, SucceedsEffect DEF Modes
<1>8. Control'
  BY <1>2, <1>6 DEF Control
<1>9. ~RerunPending(node) /\ ~RerunPending(node)'
  BY <1>2, <1>6 DEF RerunPending, RANGE_GUARD_RERUN, DMR_COMPARE_RERUN
<1>10. CountersAgree'
  BY <1>1, <1>6, <1>9, InjectedCounters DEF CountersAgree
<1>11. InputIntact'
  BY <1>2, <1>6, <1>7 DEF InputIntact, In, Out, Shared
<1>12. CopiesFaithful'
  <2>1. CopyAt(0)' = CopyAt(0)
    BY <1>2, <1>6 DEF CopyAt
  <2>2. node \notin hit' => \A c \in CopyAt(0) : scratch'[c] = Computed(node)'
    BY <1>4, <1>7
  <2>3. QED
    BY <1>6, <2>1, <2>2 DEF CopiesFaithful
<1>13. QED
  BY <1>1, <1>7, <1>8, <1>10, <1>11, <1>12, StayIInv

\* What the second execution finds in the first copy.
LEMMA FirstCopyFaithful ==
  ASSUME IInv, node # -1, package.mode[node] = DMR_COMPARE_RERUN, stage = 1,
         node \notin hit
  PROVE  \A v : CopyIs(0, v) <=> v = Computed(node)
<1> USE DEF IInv
<1>1. \A c \in CopyAt(0) : scratch[c] = Computed(node)
  BY DEF CopiesFaithful
<1>2. CopyAt(0) # {} /\ \A c \in CopyAt(0) : Scribbled(node)[c] = scratch[c]
  BY CopiesLayout
<1>3. QED
  BY <1>1, <1>2 DEF CopyIs

\* The second execution under DMR: the copies agree unless a fault has hit.
LEMMA DmrSecondIInv == IInv /\ DmrSecond => IInv'
<1> SUFFICES ASSUME IInv, DmrSecond PROVE IInv'
  OBVIOUS
<1> USE DEF IInv
<1>1. /\ Succeeds(DMR_COMPARE_RERUN, 1) /\ CopyTo(1, Result(node)) /\ UNCHANGED observed
      /\ IF CopyIs(0, Result(node))
         THEN stats' = InjectedStats(node) /\ Advance(node)
         ELSE stats' = Alarm(InjectedStats(node)) /\ Stay(node, 2)
  BY DEF DmrSecond
<1>2. /\ node \in Nodes /\ node # -1 /\ package.mode[node] = DMR_COMPARE_RERUN /\ stage = 1
      /\ UNCHANGED <<package, ideal>>
  BY <1>1 DEF Succeeds, Executes, TypeOK, hostVars
<1>3. Result(node) \in Values
  BY <1>2, ComputedValue
<1>4. /\ scratch' \in [0 .. package.scratchSize - 1 -> Values \cup {Junk}]
      /\ \A c \in CopyAt(1) : scratch'[c] = Result(node)
      /\ \A c \in CopyAt(0) : scratch'[c] = scratch[c]
  BY <1>1, <1>2, <1>3, CopyToEffect
<1>5. observed' \in [Nodes -> SUBSET Values] /\ stats' \in Stats
  BY <1>1, StatsType DEF TypeOK
<1>6. /\ Moves
      /\ memory'[Out(node)] = Result(node)
      /\ ~Injected(node) => Result(node) = Computed(node)
      /\ node \in hit => ~Injected(node)
      /\ hit' = IF Injected(node) THEN hit \cup {node} ELSE hit
      /\ ~Shared(node) => Computed(node)' = Computed(node) \/ node' # node
      /\ HitsDuplicated' /\ ~Injected(node) => memory'[Out(node)] = ideal[node + 1]
      /\ HitsDuplicated' => memory'[In(node)] = ideal[IF Shared(node) THEN node + 1 ELSE node]
  BY <1>1, <1>4, <1>5, SucceedsEffect DEF Modes
<1>7. ~RerunPending(node)
  BY <1>2 DEF RerunPending, RANGE_GUARD_RERUN, DMR_COMPARE_RERUN
<1>8. node \notin hit => (CopyIs(0, Result(node)) <=> Result(node) = Computed(node))
  BY <1>2, FirstCopyFaithful
<1>9. CASE CopyIs(0, Result(node))
  <2>1. stats'.detected = stats'.rerun
        /\ stats'.detected = stats'.recovered + stats'.unrecovered + aborted
    BY <1>1, <1>7, <1>9, InjectedCounters DEF CountersAgree
  <2>2. ASSUME HitsDuplicated'
        PROVE  memory'[Out(node)] = ideal[node + 1]
    <3>1. CASE ~Injected(node)
      BY <2>2, <3>1, <1>6
    <3>2. CASE Injected(node)
      <4>1. Result(node) = Computed(node)
        BY <3>2, <1>6, <1>8, <1>9
      <4>2. HitsDuplicated
        <5>1. hit \subseteq hit' /\ \A i \in hit' : Duplicated(i)
          BY <1>2, <1>6, <2>2 DEF HitsDuplicated, Duplicated, Shared, In, Out
        <5>2. QED
          BY <5>1 DEF HitsDuplicated
      <4>3. QED
        BY <1>2, <1>6, <4>1, <4>2, ComputesIdeal
    <3>3. QED
      BY <3>1, <3>2
  <2>3. Advance(node)
    BY <1>1, <1>9
  <2>4. QED
    BY <1>6, <2>1, <2>2, <2>3, AdvanceIInv
<1>10. CASE ~CopyIs(0, Result(node))
  <2>1. stats' = Alarm(InjectedStats(node)) /\ Stay(node, 2)
    BY <1>1, <1>10
  <2>2. node' = node /\ stage' = 2 /\ aborted' = aborted
    BY <2>1 DEF Stay
  <2>3. Control' /\ RerunPending(node)'
    BY <1>2, <2>2 DEF Control, RerunPending
  <2>4. CountersAgree'
    BY <1>2, <1>7, <2>1, <2>2, <2>3, InjectedCounters, StatsType, AlarmCounters
       DEF CountersAgree
  <2>5. InputIntact'
    BY <1>2, <1>6, <2>2 DEF InputIntact, In, Out, Shared
  <2>6. CopiesFaithful'
    <3>1. \A k : CopyAt(k)' = CopyAt(k)
      BY <1>2, <2>2 DEF CopyAt
    <3>2. node \in hit'
      BY <1>6, <1>8, <1>10
    <3>3. ASSUME ~Shared(node)
          PROVE  \E k \in {0, 1} : \A c \in CopyAt(k) : scratch'[c] = Computed(node)'
      <4>1. Computed(node)' = Computed(node)
        BY <3>3, <1>6, <2>2
      <4>2. CASE node \in hit
        BY <4>1, <4>2, <1>4, <1>6
      <4>3. CASE node \notin hit
        <5>1. \A c \in CopyAt(0) : scratch[c] = Computed(node)
          BY <1>2, <4>3 DEF CopiesFaithful
        <5>2. QED
          BY <4>1, <5>1, <1>4
      <4>4. QED
        BY <4>2, <4>3
    <3>4. Shared(node)' = Shared(node)
      BY <1>2, <2>2 DEF Shared, In, Out
    <3>5. QED
      BY <2>2, <3>1, <3>2, <3>3, <3>4 DEF CopiesFaithful
  <2>7. QED
    BY <1>6, <2>1, <2>3, <2>4, <2>5, <2>6, StayIInv
<1>11. QED
  BY <1>9, <1>10

\* The rerun of DMR: it is clean, because the fault has been used up.
LEMMA DmrRerunIInv == IInv /\ DmrRerun => IInv'
<1> SUFFICES ASSUME IInv, DmrRerun PROVE IInv'
  OBVIOUS
<1> USE DEF IInv
<1> DEFINE good == CopyIs(0, Result(node)) \/ CopyIs(1, Result(node))
<1>1. /\ Succeeds(DMR_COMPARE_RERUN, 2) /\ scratch' = Scribbled(node) /\ UNCHANGED observed
      /\ stats' = Verdict(InjectedStats(node), good) /\ Advance(node)
  BY DEF DmrRerun
<1>2. good \in BOOLEAN
  BY DEF CopyIs
<1> HIDE DEF good
<1>3. /\ scratch' \in [0 .. package.scratchSize - 1 -> Values \cup {Junk}]
      /\ observed' \in [Nodes -> SUBSET Values] /\ stats' \in Stats
  BY <1>1, <1>2, ScribbledType, StatsType DEF TypeOK
<1>4. /\ Moves /\ node # -1 /\ package.mode[node] = DMR_COMPARE_RERUN /\ stage = 2
      /\ node \in hit => ~Injected(node)
      /\ HitsDuplicated' /\ ~Injected(node) => memory'[Out(node)] = ideal[node + 1]
  BY <1>1, <1>3, SucceedsEffect DEF Modes
<1>5. node \in hit /\ RerunPending(node)
  BY <1>4 DEF CopiesFaithful, RerunPending
<1>6. stats'.detected = stats'.rerun
      /\ stats'.detected = stats'.recovered + stats'.unrecovered + aborted
  BY <1>1, <1>2, <1>4, <1>5, InjectedCounters, StatsType, VerdictCounters DEF CountersAgree
<1>7. QED
  BY <1>1, <1>4, <1>5, <1>6, AdvanceIInv

\* With the compiler's layout a node is refused only for want of a kernel.
LEMMA OnlyMissingKernelsRefused ==
  ASSUME IInv, NEW i \in Nodes, KernelRuns(i) => DmrRefused(i)
  PROVE  RefusalCode(i) = -99
<1>1. ~DmrRefused(i)
  BY DEF IInv, Layout, DmrRefused
<1>2. package.kernelCells[i] <= package.scratchSize
  <2>1. package.kernelCells[i] \in Nat /\ package.kernelCells[i] <= package.scratchOffset
    <3>1. package.kernelCells[i] \in 0 .. MaxCells
      BY ProtectionAssumption DEF IInv, TypeOK
    <3>2. QED
      BY <3>1, ProtectionAssumption DEF IInv, Layout
  <2>2. package.scratchOffset <= package.scratchSize
    BY DEF IInv, Layout
  <2>3. QED
    BY <2>1, <2>2 DEF IInv, Layout
<1>3. QED
  BY <1>1, <1>2 DEF KernelRuns, RefusalCode

\* A kernel that fails, or an event that is rejected, ends the run.
LEMMA ErrorIInv == IInv /\ (RefuseNode \/ RejectEvent) => IInv'
<1> SUFFICES ASSUME IInv, RefuseNode \/ RejectEvent PROVE IInv'
  OBVIOUS
<1> USE DEF IInv
<1>1. node # -1 /\ node \in Nodes
  BY DEF RefuseNode, RejectEvent, Executes, TypeOK
<1>2. CASE RefuseNode
  <2>1. UNCHANGED <<hostVars, memory, scratch, counts, stats, observed, hit>> /\ Fail(node, -99)
    BY <1>1, <1>2, OnlyMissingKernelsRefused DEF RefuseNode
  <2>2. \A i \in hit : i <= node
    BY <1>1 DEF HitsFollowEvent, TypeOK, Nodes
  <2>3. Moves
    BY <1>1, <2>1, <2>2 DEF Moves, TypeOK, HitsFollowEvent
  <2>4. QED
    BY <2>1, <2>3, FailIInv
<1>3. CASE RejectEvent
  <2>1. /\ ExecuteOnce(node, Computed(node)) /\ scratch' = Scribbled(node)
        /\ Fail(node, -22) /\ UNCHANGED <<hostVars, stats, observed>>
    BY <1>3 DEF RejectEvent
  <2>2. /\ scratch' \in [0 .. package.scratchSize - 1 -> Values \cup {Junk}]
        /\ observed' \in [Nodes -> SUBSET Values] /\ stats' \in Stats
        /\ Computed(node) \in Values
    BY <1>1, <2>1, ScribbledType, ComputedValue DEF TypeOK
  <2>3. Moves
    BY <1>1, <2>1, <2>2, ExecuteOnceEffect
  <2>4. QED
    BY <2>1, <2>3, FailIInv
<1>4. QED
  BY <1>2, <1>3

\* Every step keeps the invariant.
LEMMA NextIInv == IInv /\ [Next]_vars => IInv'
<1> SUFFICES ASSUME IInv, [Next]_vars PROVE IInv'
  OBVIOUS
<1>1. CASE UNCHANGED vars
  <2> USE <1>1 DEF vars, IInv
  <2>1. TypeOK' /\ IdealChain' /\ HitsFollowEvent' /\ ScratchSuffices'
    BY DEF TypeOK, IdealChain, HitsFollowEvent, ScratchSuffices
  <2>2. Layout' /\ Control' /\ CountersAgree'
    BY LayoutStays DEF Control, CountersAgree, RerunPending
  <2>3. InputIntact' /\ FaultsMasked'
    BY DEF InputIntact, FaultsMasked, Returned, HitsDuplicated, Duplicated, Shared, In, Out
  <2>4. CopiesFaithful'
    <3>1. /\ \A k : CopyAt(k)' = CopyAt(k)
          /\ Computed(node)' = Computed(node)
          /\ Shared(node)' = Shared(node)
      BY DEF CopyAt, Computed, Shared, In, Out
    <3>2. QED
      BY <3>1 DEF CopiesFaithful
  <2>5. QED
    BY <2>1, <2>2, <2>3, <2>4
<1>2. CASE RefuseNode \/ RejectEvent
  BY <1>2, ErrorIInv
<1>3. CASE RunUnprotected
  BY <1>3, RunUnprotectedIInv
<1>4. CASE GuardFirst
  BY <1>4, GuardFirstIInv
<1>5. CASE GuardRerun
  BY <1>5, GuardRerunIInv
<1>7. CASE DmrFirst
  BY <1>7, DmrFirstIInv
<1>8. CASE DmrSecond
  BY <1>8, DmrSecondIInv
<1>9. CASE DmrRerun
  BY <1>9, DmrRerunIInv
<1>10. CASE SetFaultEvent \/ ClearFaultEvent \/ ResetReliabilityStats
  BY <1>10, HostSettingsIInv
<1>11. CASE StartRun
  BY <1>11, StartRunIInv
<1>12. QED
  BY <1>1, <1>2, <1>3, <1>4, <1>5, <1>7, <1>8, <1>9, <1>10, <1>11
     DEF Next, ExecuteStep, Host

-----------------------------------------------------------------------------
(* The theorems.                                                           *)

\* The invariant holds of every package, event and sequence of runs.
THEOREM ProtectionInvariant == Spec => []IInv
BY InitIInv, NextIInv, PTL DEF Spec

\* The state of the runtime always has its type.
THEOREM ProtectionTypeCorrect == Spec => []TypeOK
BY ProtectionInvariant, PTL DEF IInv

\* Faults that hit only nodes under DMR with a place of their own never reach
\* the output, and runs without a fault are right under every protection.
THEOREM DmrMasksFaults == Spec => []FaultsMasked
BY ProtectionInvariant, PTL DEF IInv

\* Every alarm has one rerun and one verdict.
THEOREM CountersAlwaysAgree == Spec => []CountersAgree
BY ProtectionInvariant, PTL DEF IInv

\* The scratch of the package is enough for the copies of DMR.
THEOREM ScratchAlwaysSuffices == Spec => []ScratchSuffices
BY ProtectionInvariant, PTL DEF IInv

\* A DMR alarm is always raised by a fault on its own node.
LEMMA AlarmHasFault ==
  ASSUME IInv, [Next]_vars, node # -1, stats'.detected > stats.detected,
         package.mode[node] = DMR_COMPARE_RERUN
  PROVE  node \in hit'
<1> USE DEF IInv
<1>1. stats \in Stats /\ stats.detected \in Nat
  BY DEF TypeOK, Stats
<1>2. stats' # stats /\ stats' # InjectedStats(node)
  BY <1>1, InjectedCounters
<1>3. CASE DmrSecond
  <2>1. /\ Succeeds(DMR_COMPARE_RERUN, 1) /\ ~CopyIs(0, Result(node))
    BY <1>2, <1>3 DEF DmrSecond
  <2>2. /\ node \notin hit' => node \notin hit /\ Result(node) = Computed(node)
        /\ stage = 1
    BY <2>1 DEF Succeeds, Executes, ExecuteOnce, Result
  <2>3. QED
    BY <2>1, <2>2, FirstCopyFaithful
<1>4. CASE DmrRerun
  BY <1>4 DEF DmrRerun, Succeeds, Executes, ExecuteOnce, CopiesFaithful
<1>5. ~GuardFirst /\ ~GuardRerun
  BY DEF GuardFirst, GuardRerun, Succeeds, Executes, RANGE_GUARD_RERUN, DMR_COMPARE_RERUN
<1>6. ~RefuseNode /\ ~RejectEvent /\ ~RunUnprotected /\ ~DmrFirst
  BY <1>2 DEF RefuseNode, RejectEvent, RunUnprotected, DmrFirst
<1>7. ~Host
  BY DEF Host, SetFaultEvent, ClearFaultEvent, ResetReliabilityStats, StartRun
<1>8. QED
  BY <1>2, <1>3, <1>4, <1>5, <1>6, <1>7 DEF Next, ExecuteStep, vars

\* Kernels that overwrite the scratch, and nodes that overwrite their input,
\* never make the two copies of DMR differ.
THEOREM DmrRaisesNoFalseAlarm == Spec => NoFalseDmrAlarm
<1>1. IInv /\ [Next]_vars =>
        [node # -1 /\ stats'.detected > stats.detected =>
           (package.mode[node] = DMR_COMPARE_RERUN => node \in hit')]_vars
  BY AlarmHasFault
<1>2. QED
  BY <1>1, ProtectionInvariant, PTL DEF Spec, NoFalseDmrAlarm

\* The rerun of a duplicated node agrees with one of the copies.
LEMMA VerdictIsRecovered ==
  ASSUME IInv, [Next]_vars, node # -1, Duplicated(node)
  PROVE  /\ stats'.unrecovered = stats.unrecovered
         /\ stats'.recovered > stats.recovered => memory'[Out(node)] = Computed(node)
<1> USE DEF IInv
<1>1. /\ package.mode[node] = DMR_COMPARE_RERUN /\ ~Shared(node)
      /\ stats \in Stats /\ InjectedStats(node) \in Stats
  BY StatsType DEF Duplicated, TypeOK
<1>2. /\ \A n \in Nat : ~(n > n)
      /\ stats.recovered \in Nat
  BY <1>1 DEF Stats
<1>3. CASE UNCHANGED stats \/ stats' = InjectedStats(node) \/ stats' = Alarm(InjectedStats(node))
  BY <1>1, <1>2, <1>3, InjectedCounters, AlarmCounters
<1>4. CASE DmrRerun
  <2>1. /\ Succeeds(DMR_COMPARE_RERUN, 2) /\ stage = 2
        /\ stats' = Verdict(InjectedStats(node),
                            CopyIs(0, Result(node)) \/ CopyIs(1, Result(node)))
        /\ ExecuteOnce(node, Result(node)) /\ UNCHANGED hostVars
        /\ scratch' = Scribbled(node) /\ UNCHANGED observed
    BY <1>4 DEF DmrRerun, Succeeds, Executes
  <2> DEFINE good == CopyIs(0, Result(node)) \/ CopyIs(1, Result(node))
  <2>2. good \in BOOLEAN
    BY DEF CopyIs
  <2>3. /\ scratch' \in [0 .. package.scratchSize - 1 -> Values \cup {Junk}]
        /\ observed' \in [Nodes -> SUBSET Values] /\ stats' \in Stats
    <3> HIDE DEF good
    <3>1. stats' = Verdict(InjectedStats(node), good)
      BY <2>1 DEF good
    <3>2. QED
      BY <2>1, <2>2, <3>1, ScribbledType, StatsType DEF TypeOK
  <2>4. /\ memory'[Out(node)] = Result(node)
        /\ ~Injected(node) => Result(node) = Computed(node)
        /\ node \in hit => ~Injected(node)
    BY <2>1, <2>3, SucceedsEffect DEF Modes
  <2>5. /\ node \in hit
        /\ \E k \in {0, 1} : \A c \in CopyAt(k) : scratch[c] = Computed(node)
    BY <1>1, <2>1 DEF CopiesFaithful
  <2>6. Result(node) = Computed(node)
    BY <2>4, <2>5
  <2>7. good
    <3>1. \A k \in {0, 1} : \A c \in CopyAt(k) : Scribbled(node)[c] = scratch[c]
      BY <1>1, CopiesLayout
    <3>2. QED
      BY <2>5, <2>6, <3>1 DEF CopyIs
  <2> HIDE DEF good
  <2>8. stats' = Verdict(InjectedStats(node), good)
    BY <2>1 DEF good
  <2>9. stats'.unrecovered = stats.unrecovered
    BY <1>1, <2>2, <2>7, <2>8, VerdictCounters, InjectedCounters
  <2>10. QED
    BY <2>4, <2>6, <2>9
<1>5. ~GuardFirst /\ ~GuardRerun
  BY <1>1 DEF GuardFirst, GuardRerun, Succeeds, Executes, RANGE_GUARD_RERUN, DMR_COMPARE_RERUN
<1>6. ~Host
  BY DEF Host, SetFaultEvent, ClearFaultEvent, ResetReliabilityStats, StartRun
<1>7. RefuseNode \/ RejectEvent \/ RunUnprotected \/ DmrFirst \/ DmrSecond
      \/ UNCHANGED vars =>
        UNCHANGED stats \/ stats' = InjectedStats(node) \/ stats' = Alarm(InjectedStats(node))
  BY DEF RefuseNode, RejectEvent, RunUnprotected, DmrFirst, DmrSecond, vars
<1>8. QED
  BY <1>3, <1>4, <1>5, <1>6, <1>7 DEF Next, ExecuteStep

\* DMR on a node with a place of its own always recovers, and to the right output.
THEOREM DmrVerdictsAreTrue == Spec => DmrVerdictsTrue
<1>1. IInv /\ [Next]_vars =>
        [node # -1 /\ Duplicated(node) =>
           /\ stats'.unrecovered = stats.unrecovered
           /\ stats'.recovered > stats.recovered => memory'[Out(node)] = Computed(node)]_vars
  BY VerdictIsRecovered
<1>2. QED
  BY <1>1, ProtectionInvariant, PTL DEF Spec, DmrVerdictsTrue
=============================================================================
