SPECIFICATION EnginesSpec
CONSTANTS
  Keys = {1, 2}
  Hole = Hole
  Capacity = 1
  HeapPages = 2
  HeapRows = 2
  HeapRowsPerInsert = 2
  OverflowPages = 1
  SequentialRows = 2
  SequentialRowsPerInsert = 1
INVARIANTS EngineTypeOK HashNeverMisleads DurableAfterSuccess
PROPERTIES IndexKept
