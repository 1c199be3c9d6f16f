SPECIFICATION EngineSpec
CONSTANTS
  d1 = d1
  m1 = m1
  m2 = m2
  Drivers = {d1}
  Reporters = {}
  Components <- EngineComponents
  Priority <- EnginePriority
  Stoppable <- EngineStoppable
  Monitors = {m1, m2}
  NoMonitor = NoMonitor
  StopMayFail = FALSE
  CleanReset = TRUE
  MaxErrors = 3
  MaxMeshes = 5
  PartialFail = TRUE
PROPERTY AllReleasedByStop
