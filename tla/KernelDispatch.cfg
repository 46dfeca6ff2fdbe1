SPECIFICATION Spec
CONSTANTS
  Graphs <- MCGraphs
  Profiles <- MCProfiles
  Instances <- MCInstances
  Offers <- MCOffers
  TableSize = 2
  MaxRuns = 2
INVARIANTS
  TypeOK
  NodesExecute
  OperandsUsed
  KernelScratchFits
  UserKernelsPreferred
CHECK_DEADLOCK FALSE
