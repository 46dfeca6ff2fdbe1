------------------------- MODULE MCProtectionStudy -------------------------
(***************************************************************************)
(* Small networks for ProtectionStudy:                                     *)
(*   Fused     two convolutions, each fused with a call of the same Relu   *)
(*             module, and a linear layer: screening and runtime number    *)
(*             the nodes differently;                                      *)
(*   Plain     the same Relu module before and after a convolution, and an *)
(*             addition the screening does not see: the numbers agree;     *)
(*             it comes without a checkpoint;                              *)
(*   Detector  screened in the runtime, with a node of two outputs;        *)
(*   Inlined   a Relu that is a function and not a module.                 *)
(***************************************************************************)
EXTENDS ProtectionStudy, TLC

Tensor(node, bytes, critical, activation, gradient) ==
    [node |-> node, outputs |-> 1, bytes |-> bytes, critical |-> critical,
     severity |-> 10 * activation, activation |-> activation, gradient |-> gradient]

Call(module, tensor) == [module |-> module, tensor |-> tensor]
Onnx(op, tensor, reads, macs) == [op |-> op, tensor |-> tensor, reads |-> reads, macs |-> macs]

Fused ==
    [task |-> "classification", checkpoint |-> TRUE,
     points |-> <<Call("conv1", 1), Call("relu", 2), Call("conv2", 3), Call("relu", 4), Call("fc", 5)>>,
     onnx |-> <<Onnx("Conv", 1, {0}, 4), Onnx("Relu", 2, {1}, 0), Onnx("Conv", 3, {2}, 6),
                Onnx("Relu", 4, {3}, 0), Onnx("Gemm", 5, {4}, 1)>>,
     tensors |-> <<Tensor(Missing, 3, FALSE, 1, 4), Tensor(0, 3, TRUE, 2, 3), Tensor(Missing, 2, FALSE, 3, 1),
                   Tensor(1, 2, TRUE, 1, 1), Tensor(2, 1, FALSE, 4, 2)>>,
     latency |-> (0 :> 100 @@ 1 :> 200 @@ 2 :> 100)]

Plain ==
    [task |-> "classification", checkpoint |-> FALSE,
     points |-> <<Call("relu", 1), Call("conv", 2), Call("relu", 3)>>,
     onnx |-> <<Onnx("Relu", 1, {0}, 0), Onnx("Conv", 2, {1}, 5), Onnx("Relu", 3, {2}, 0),
                Onnx("Add", 4, {1, 3}, 0)>>,
     tensors |-> <<Tensor(0, 2, TRUE, 3, 2), Tensor(1, 1, FALSE, 2, 2), Tensor(2, 3, TRUE, 1, 5),
                   Tensor(3, 3, FALSE, 4, 1)>>,
     latency |-> (0 :> 100 @@ 1 :> 100 @@ 2 :> 200 @@ 3 :> 100)]

Detector ==
    [task |-> "detection", checkpoint |-> TRUE,
     points |-> <<Call("conv", 1), Call("act", 2)>>,
     onnx |-> <<Onnx("Conv", 1, {0}, 5), Onnx("Mul", 2, {1}, 0), Onnx("Split", 3, {2}, 0),
                Onnx("Concat", 4, {3}, 0)>>,
     tensors |-> <<Tensor(Missing, 2, TRUE, 2, 2), Tensor(0, 2, TRUE, 1, 3),
                   [Tensor(1, 2, TRUE, 1, 1) EXCEPT !.outputs = 2], Tensor(2, 3, FALSE, 2, 1)>>,
     latency |-> (0 :> 200 @@ 1 :> 100 @@ 2 :> 100)]

Inlined == [Plain EXCEPT !.points = <<Call("relu", 1), Call("conv", 2)>>]

MCNetworks == {Fused, Plain, Detector, Inlined}
MCBudgets == {[latency |-> 300, memory |-> 6], [latency |-> 700, memory |-> 4]}
=============================================================================
