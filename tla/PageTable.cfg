SPECIFICATION Spec
CONSTANTS
  Fan = 4
  Frames <- AllFrames
  FreeFrames <- AllocatorFrames
  BufferPages = 4
  KernelSizes <- ImageSizes
  MapPages <- HeapPages
  LowPages <- IdentityPages
  Unmapped = Unmapped
INVARIANTS
  TablesSound
  FixedMappingsKept
  TlbNeverContradicts
PROPERTIES
  ImplementsAddressSpace
