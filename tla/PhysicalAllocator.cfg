SPECIFICATION Spec
CONSTANTS
  c1 = c1
  c2 = c2
  c3 = c3
  Clients = {c1, c2, c3}
  NoRegion = NoRegion
  Counts = {1, 2}
  InitialList <- CutList
  Unusable <- CutUnusable
  Reserved <- CutReserved
  HeapPage = 99
  MaxUsed = 8
INVARIANTS
  FreeListOrdered
  ReservedStaysOut
  SharedOnlyIfSwallowed
  PagesNeverCreated
PROPERTIES
  TopRegionNeverTouched
  MergePassEnds
