SPECIFICATION Spec
CONSTANT
  Families <- MCFamilies
INVARIANTS TypeOK OutputsKept NodesExecutable AllFused
CHECK_DEADLOCK FALSE
