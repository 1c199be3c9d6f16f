\* Also violated here, each in the place of the line at the end:
\*   INVARIANT CallsDoNotRaise
\*   INVARIANT RecordsUntilStop
\*   INVARIANT OneLoop
\*   PROPERTY SegmentHeard
\*   PROPERTY StartsFresh
SPECIFICATION Spec
CONSTANTS
  Callers = {c1, c2}
  Starters = {c1}
  MaxStarts = 2
  MaxQueue = 1
\* Sessions are bounded.
CHECK_DEADLOCK FALSE
INVARIANT StoppedIsSilent
