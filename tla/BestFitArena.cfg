SPECIFICATION Spec
CONSTANTS
  Tensors = {0, 1, 2, 3}
  FirstUses = {0, 1, 2}
  LastUses = {0, 1, 2}
  ByteSizes = {16, 20}
  MaxArenaBytes = 96
INVARIANTS TypeOK NoLiveOverlap ArenaTiled EntriesInsideArena Aligned
PROPERTIES ImplementsArena
CHECK_DEADLOCK FALSE
