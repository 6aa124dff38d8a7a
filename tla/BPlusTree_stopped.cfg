SPECIFICATION Spec
CONSTANTS
  Keys = {1, 2, 3, 4, 5}
  Rids = {1}
  LeafCapacity = 2
  InternalCapacity = 2
  MaxPages = 12
  MaxStops = 1
INVARIANTS MetaPageHoldsRoot
CHECK_DEADLOCK FALSE
