SPECIFICATION Spec
CONSTANTS
  Keys = {1, 2, 3}
  Hole = Hole
  Capacity = 3
  Ordered = TRUE
  MaxPages = 1
  MaxRows = 3
INVARIANTS
  SearchFindsEveryRow
