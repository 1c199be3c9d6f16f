\* Two threads call startup and shutdown of the same application: the join of one
\* shutdown meets the monitor that a startup has created and not yet started, and the
\* application stays in PAUSING.  Alternatives with the same constants, in the place
\* of PausingIsUnderway: StartedMeansLive.
SPECIFICATION Spec
CONSTANTS
  d1 = d1
  d2 = d2
  m1 = m1
  m2 = m2
  Drivers = {d1, d2}
  Reporters = {}
  Components = {"db", "mesh"}
  Priority <- RacePriority
  Stoppable = {"db"}
  Monitors = {m1, m2}
  NoMonitor = NoMonitor
  StopMayFail = FALSE
  CleanReset = TRUE
  MaxErrors = 0
INVARIANT PausingIsUnderway
