SPECIFICATION EngineSpec
CONSTANTS
  d1 = d1
  r1 = r1
  m1 = m1
  m2 = m2
  Drivers = {d1}
  Reporters = {r1}
  Components <- EngineComponents
  Priority <- EnginePriority
  Stoppable <- EngineStoppable
  Monitors = {m1, m2}
  NoMonitor = NoMonitor
  StopMayFail = FALSE
  CleanReset = TRUE
  MaxErrors = 3
  MaxMeshes = 5
  PartialFail = TRUE
INVARIANTS RunningMeansLive StartedMeansLive
PROPERTIES ImplementsServices ReleasedByStop
