CONSTANTS
  CrowdedKeys = {0, 2}
  CrowdedRids = {1, 2}
  CrowdedPages = 7
  SpreadKeys = {0, 1, 2}
  SpreadRids = {1}
  SpreadPages = 6
  Unpackable = {2}
  Capacity = 1
  DirCapacity = 2
  MaxDepth = 2
  MaxEntries = 3
SPECIFICATION Spec
INVARIANTS TotalIsExact DirectoryConsistent PageOwnedOnce Reopenable
PROPERTIES SearchIsExact StopIsConfined InsertEnds
CHECK_DEADLOCK FALSE
