SPECIFICATION SleepFairSpec
CONSTANTS
  Durations <- Longer
  MaxDrift = 1
  NumberOfCounters = 3
  MaxCount = 2
INVARIANTS
  NoLostWakeup
  SleepNotShort
PROPERTIES
  FlagRestored
  SleepReturns
