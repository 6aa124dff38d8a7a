SPECIFICATION FilesSpec
CONSTANTS
  Clients = {c1, c2, c3}
  Records = {a, b}
  PageCapacity = 2
  Unformatted = Unformatted
  MaxServicePages = 2
  Keys = {1, 2, 3, 4, 5}
  Rids = {1}
  LeafCapacity = 2
  InternalCapacity = 2
  TreePages = 12
  TreeStops = 1
  Ids = {1, 2, 3}
  RecordsPerPage = 2
  HeapPages = 3
  HeapStops = 2
  SequentialRecords = 5
  SequentialStops = 2
  Workers = {c1, c2, c3}
  Names = {n1, n2}
  NoText = NoText
  Garbled = Garbled
  MaxHashPages = 3
INVARIANTS
  FilesTypeOK SettledRecordsStay
  TreeSearchExact TreeRangeExact TreeBalanced TreeReadableAtEveryWrite
  HeapContentExact HeapNoRecordLost
  SequentialMainOrdered SequentialContentExact
  SequentialSearchExact SequentialNoRecordLost
  CreatedStayListed CreatedServedAsListed ListedExist
SYMMETRY Symmetry
CHECK_DEADLOCK FALSE
