SPECIFICATION Spec
CONSTANTS
  c1 = c1
  c2 = c2
  Nodes = {"n1", "n2"}
  Callers = {c1}
  Reports <- SomeReports
  Kinds = {"text", "audio"}
  Relevant <- GpuOnFirst
  Latencies = {1, 9}
  Window = 2
  High = 6
  Low = 3
  QuietTime = 2
  HeartbeatTimeout = 1
  MaxTime = 3
  MaxRegistrations = 2
INVARIANT FreshIsActive
PROPERTIES RoutedWell EndsAfterQuiet
