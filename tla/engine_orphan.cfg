\* A reset from ERROR without a shutdown, which transition_to allows: the startup
\* that follows replaces a MeshLayer that is still on.
SPECIFICATION EngineSpec
CONSTANTS
  d1 = d1
  r1 = r1
  m1 = m1
  m2 = m2
  Drivers = {d1}
  Reporters = {r1}
  Components <- EngineComponents
  Priority <- EnginePriority
  Stoppable <- EngineStoppable
  Monitors = {m1, m2}
  NoMonitor = NoMonitor
  StopMayFail = FALSE
  CleanReset = FALSE
  MaxErrors = 1
  MaxMeshes = 3
  PartialFail = FALSE
INVARIANT NoOrphanMesh
