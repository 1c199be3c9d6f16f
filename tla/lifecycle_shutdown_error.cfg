SPECIFICATION Spec
CONSTANTS
  d1 = d1
  r1 = r1
  m1 = m1
  m2 = m2
  Drivers = {d1}
  Reporters = {}
  Components = {"db", "mesh", "engine", "view"}
  Priority <- SelfTestPriority
  Stoppable = {"db", "mesh", "engine"}
  Monitors = {m1, m2}
  NoMonitor = NoMonitor
  StopMayFail = FALSE
  CleanReset = TRUE
  MaxErrors = 2
PROPERTY ShutdownReachesStopped
