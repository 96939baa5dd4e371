SPECIFICATION BootSpec
CONSTANTS
  PageSize = 2
  MemoryPages = 6
  MaxEntries = 3
  Maps <- MCMaps
  Kernels <- MCKernels
  Trampolines <- MCTrampolines
  MaxDescriptors = 2
INVARIANTS
  BootListExact
  BootMeetsAllocator
PROPERTIES
  BootReturns
