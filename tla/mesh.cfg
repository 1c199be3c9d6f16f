SPECIFICATION MeshFairSpec
CONSTANTS
  c1 = c1
  c2 = c2
  m1 = m1
  t1 = t1
  t2 = t2
  Tasks = {t1, t2}
  Monitors = {m1}
  NoMonitor = NoMonitor
  MaxQueue = 1
  Confirm = 2
  MaxFlips = 2
  Clients = {c1, c2}
  MaxCalls = 2
PROPERTIES ReleasedOnline ReconnectConfirmed QueuedIsDrained
