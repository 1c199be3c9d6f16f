SPECIFICATION Spec
CONSTANTS
  c1 = c1
  c2 = c2
  l1 = l1
  l2 = l2
  Callers = {c1, c2}
  Managers = {c1}
  StatusCallers = {}
  Loops = {l1, l2}
  Keys = {"a"}
  NoProc = NoProc
  MaxOps = 4
  MaxCycles = 3
INVARIANT StoppedIsQuiet
CHECK_DEADLOCK FALSE
