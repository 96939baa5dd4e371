SPECIFICATION Spec
CONSTANTS
  PageSize = 8
  HeapStart = 80
  Sizes <- AllSizes
  WordSize = 65536
  MaxBlocks = 4
  MaxFrames = 5
INVARIANTS
  HeapSound
PROPERTIES
  KfreeSparesNeighbours
