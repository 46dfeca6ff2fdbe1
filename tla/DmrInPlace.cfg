SPECIFICATION Spec
CONSTANTS
  NumNodes = 2
  Values <- MCValues
  Zero = 0
  Junk = 9
  Ops = {"Conv", "Relu", "Reshape"}
  FailingOps = {}
  Kernels <- MCKernels
  InPlaceOps = {"Relu", "Reshape"}
  ShapeOps = {"Reshape"}
  Flips <- MCFlips
  ValidRanges <- MCRanges
  TensorCells = {1}
  MaxCells = 2
  KernelCells = {0}
  MaxRuns = 1
INVARIANTS EveryFaultRecovered
CHECK_DEADLOCK FALSE
