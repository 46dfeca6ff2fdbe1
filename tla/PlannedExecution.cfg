SPECIFICATION Spec
CONSTANTS
  MaxTensors = 5
  MaxArenaBytes = 64
  Families <- MCFamilies
  CELL = 8
  MaxRuns = 2
INVARIANTS TypeOK ReadsIntact OutputsCorrect TensorsWellPlaced KeyErrorOnlyForNested
CHECK_DEADLOCK FALSE
