SPECIFICATION OfflineFairSpec
CONSTANTS
  m1 = m1
  m2 = m2
  Tasks = {"t1", "t2", "t3"}
  Monitors = {m1, m2}
  NoMonitor = NoMonitor
  MaxQueue = 2
  Confirm = 3
  MaxFlips = 2
INVARIANT AcceptedIsKept
PROPERTIES LossDetected Reconnects
