SPECIFICATION MCFairSpec
CONSTANTS
  NumNodes = 2
  Values <- MCValues
  Zero = 0
  Junk = 9
  Ops = {"Conv", "Relu", "Reshape", "Custom"}
  FailingOps = {"Custom"}
  Kernels <- MCKernels
  InPlaceOps = {"Relu", "Reshape"}
  ShapeOps = {"Reshape"}
  Flips <- MCFlips
  ValidRanges <- MCRanges
  TensorCells = {1, 2}
  MaxCells = 2
  KernelCells = {1}
  MaxRuns = 2
INVARIANTS TypeOK FaultsMasked CountersAgree ScratchSuffices
PROPERTIES NoFalseDmrAlarm DmrVerdictsTrue RunReturns
CHECK_DEADLOCK FALSE
