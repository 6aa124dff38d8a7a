SPECIFICATION Spec
CONSTANTS
  Keys = {1, 2}
  Hole = Hole
  None = None
  Capacity = 2
  HeapPages = 3
  HeapRows = 4
  OverflowPages = 2
  SequentialRows = 3
  MemorySlots = 5
INVARIANTS SlicesExact MemoryIndexExact
PROPERTIES PortSpec
