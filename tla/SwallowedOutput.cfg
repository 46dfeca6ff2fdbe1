SPECIFICATION Spec
CONSTANT
  Families <- OutputFamilies
INVARIANTS OutputsUnchanged
CHECK_DEADLOCK FALSE
