SPECIFICATION Spec
CONSTANTS
  MaxTensors = 5
  MaxArenaBytes = 0
  Families <- InPlaceFamilies
  CELL = 16
  MaxRuns = 1
INVARIANTS NodesReadTheirInputs
CHECK_DEADLOCK FALSE
