SPECIFICATION Spec
CONSTANTS
  Disks <- SomeDisks
  Paths <- SomePaths
  Ranges <- SomeRanges
  Span = 8
  MaxStorages = 3
INVARIANTS
  DenotesLatest
  OneDiskReachable
  
