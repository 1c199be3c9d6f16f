SPECIFICATION FairSpec
CONSTANTS
  c1 = c1
  c2 = c2
  l1 = l1
  l2 = l2
  Callers = {c1, c2}
  Managers = {c1}
  StatusCallers = {c1}
  Loops = {l1}
  Keys = {"a"}
  NoProc = NoProc
  MaxOps = 3
  MaxCycles = 2
PROPERTY MetadataIsPurged
CHECK_DEADLOCK FALSE
