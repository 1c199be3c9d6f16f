SPECIFICATION FairSpec
CONSTANTS
  c1 = c1
  c2 = c2
  Nodes = {"n1"}
  Callers = {c1}
  Reports <- SomeReports
  Kinds = {"text"}
  Relevant <- EveryNode
  Latencies = {1, 9}
  Window = 2
  High = 6
  Low = 3
  QuietTime = 2
  HeartbeatTimeout = 1
  MaxTime = 1
  MaxRegistrations = 1
PROPERTY OverloadBringsBurst
