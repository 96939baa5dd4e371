SPECIFICATION SataSpec
CONSTANTS
  Sector = 4
  Page = 8
  Sectors = 4
  MaxSlot = 2
  PrdtEntryCount = 2
  EntryLimit = 10
  ReadLbaLimit = 3
  CountLimit = 2
  Requests <- SomeRequests
  Layouts <- TwoLayouts
  Scratch <- ScratchAt
  Frames = 11
  MaxCalls = 2
  MaxErrors = 1

  
PROPERTIES
  
  MemoryOnlyDuringCall
  CallReturns
