SPECIFICATION Spec
CONSTANTS
  Keys = {1, 2, 3}
  Capacity = 2
  MaxRecords = 5
  MaxStops = 0
INVARIANTS OverflowIsFollowed
