SPECIFICATION Spec
CONSTANTS
  Offset = 2
  Half = 2
  Cascade = 1
  IOAPICs <- TwoIOAPICs
  PinWindow = 24
  Overrides <- TimerOverride
  Routed <- RoutedVectors
  DeviceLines <- FirstAndLast
  BootCpu = BootCpu
  OtherCpu = OtherCpu
  MaxRaises = 2
INVARIANTS
  InterruptLeavesNothing
  EnabledAsTold
  PinsAsAsked
PROPERTIES
  PendingDelivered
