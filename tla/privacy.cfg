\* Two callers; one manages the purge cycle and may restart it into a second
\* thread, the other may call get_status and lose the lock.
SPECIFICATION FairSpec
CONSTANTS
  c1 = c1
  c2 = c2
  l1 = l1
  l2 = l2
  Callers = {c1, c2}
  Managers = {c1}
  StatusCallers = {c2}
  Loops = {l1, l2}
  Keys = {"a"}
  NoProc = NoProc
  MaxOps = 4
  MaxCycles = 2
INVARIANTS ChainIntact PurgeAccounted
PROPERTIES ImplementsLedger PurgedUnlessBlocked LoopsEnd
\* Calls and purges are bounded, and get_status blocks its caller.
CHECK_DEADLOCK FALSE
