SPECIFICATION Spec
CONSTANTS
  Tensors = {0, 1, 2, 3}
  FirstUses = {0, 1, 2}
  LastUses = {0, 1, 2}
  ByteSizes = {16, 48}
  MaxArenaBytes = 0
INVARIANTS ListsWellFormed
PROPERTIES ImplementsBestFit
CHECK_DEADLOCK FALSE
