SPECIFICATION EngineSpec
CONSTANTS
  Keys = {1, 2}
  Hole = Hole
  Capacity = 1
  Ordered = TRUE
  MaxPages = 1
  MaxRows = 2
  MaxRowsPerInsert = 1
PROPERTIES ReorganizeKeepsPaths
