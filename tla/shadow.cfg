SPECIFICATION Spec
CONSTANTS
  HealthTimeout = 2
  SyncTimeout = 3
  Interval = 5
  FailoverTimeout = 15
  MaxCoins = 2
INVARIANTS FailoverInTime RecoveredInTime
PROPERTY CopyKept
