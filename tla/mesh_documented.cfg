\* A client that was told to wait, or whose routing failed, calls again.  Alternatives
\* with the same constants, in the place of NoTaskStranded: DrainedIsRouted (what was
\* queued is never routed), and INVARIANT AnswerIsPlain (a repeated call returns
\* ciphertext).
SPECIFICATION MeshFairSpec
CONSTANTS
  c1 = c1
  m1 = m1
  t1 = t1
  Tasks = {t1}
  Monitors = {m1}
  NoMonitor = NoMonitor
  MaxQueue = 1
  Confirm = 2
  MaxFlips = 2
  Clients = {c1}
  MaxCalls = 2
PROPERTY NoTaskStranded
