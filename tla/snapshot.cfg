SPECIFICATION Spec
CONSTANTS
  Cores = 2
  Memory <- MCMemory
  MB = 2
  Thresholds <- MCThresholds
  Env = {"fork", "refresh_error", "clock_error"}
  MaxTime = 4
INVARIANTS
  SnapshotTypeOK NothingMissed
PROPERTIES
  AlertsJustified MemoryAlertsJustified
