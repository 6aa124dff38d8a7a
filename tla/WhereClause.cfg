SPECIFICATION MCSpec
CONSTANTS
  Literals = {1, 2, 3}
  ColumnValues = {0, 1, 2, 3, 4}
  None = None
  MaxConjuncts = 3
  a = a
  b = b
  Columns = {a, b}
  Clauses <- MCClauses
  MaxDamaged = 9
INVARIANTS NoRowLost ExactWhenEqualityFirst ReadAsWritten PlanKeepsRows PlanAddsNoRows
CHECK_DEADLOCK FALSE
