CONSTANTS
  Keys = {0, 2}
  Rids = {1}
  Unpackable = {}
  Capacity = 1
  DirCapacity = 2
  MaxDepth = 2
  MaxEntries = 4
  MaxPages = 7
SPECIFICATION Spec
PROPERTIES RepeatedKeysServed
CHECK_DEADLOCK FALSE
