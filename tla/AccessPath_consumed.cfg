SPECIFICATION Spec
CONSTANTS
  Literals = {1, 2, 3}
  ColumnValues = {0, 1, 2, 3, 4}
  None = None
  MaxConjuncts = 3
INVARIANTS ConsumedIsEnforced
CHECK_DEADLOCK FALSE
