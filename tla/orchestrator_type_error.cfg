SPECIFICATION Spec
CONSTANTS
  c1 = c1
  c2 = c2
  Nodes = {"n1"}
  Callers = {c1, c2}
  Reports <- OneReport
  Kinds = {"text"}
  Relevant <- EveryNode
  Latencies = {1, 9}
  Window = 2
  High = 6
  Low = 3
  QuietTime = 1
  HeartbeatTimeout = 9
  MaxTime = 2
  MaxRegistrations = 1
INVARIANT NoTypeError
