\* Two threads start, stop and reset the same application.
SPECIFICATION FairSpec
CONSTANTS
  d1 = d1
  d2 = d2
  m1 = m1
  m2 = m2
  Drivers = {d1, d2}
  Reporters = {}
  Components = {"db", "mesh"}
  Priority <- RacePriority
  Stoppable = {"db"}
  Monitors = {m1, m2}
  NoMonitor = NoMonitor
  StopMayFail = TRUE
  CleanReset = FALSE
  MaxErrors = 1
INVARIANT ReadyIsUnderway
PROPERTY MonitorsEnd
