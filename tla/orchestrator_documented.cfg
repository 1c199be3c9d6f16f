\* Two nodes, one of which may run out of memory, register again and again.
\* Alternative with the same constants, in the place of INVARIANT GaugeCountsNodes:
\* PROPERTY RoutedWithRam.
SPECIFICATION Spec
CONSTANTS
  c1 = c1
  Nodes = {"n1", "n2"}
  Callers = {c1}
  Reports <- NoMemory
  Kinds = {"text"}
  Relevant <- EveryNode
  Latencies = {1}
  Window = 2
  High = 6
  Low = 3
  QuietTime = 2
  HeartbeatTimeout = 1
  MaxTime = 1
  MaxRegistrations = 2
INVARIANT GaugeCountsNodes
