SPECIFICATION Spec
CONSTANTS
  Machines <- MCMachines
  PageZero <- MCPageZero
  DevicesPerBus = 2
  FunctionsPerDevice = 2
  HostBuses = 2
  RingSize = 4
  Width = 3
  Height = 2
  Chars = {"x", "newline"}
  MaxPrinted = 9
  MaxDepth = 3
INVARIANTS
  ScanSound
  PortTranscript
  ScreenShowsTail
PROPERTIES
  ScanEnds
