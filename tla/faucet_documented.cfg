\* A heartbeat interval that leaves no room for a late cleanup. Also violated here,
\* each in the place of the line at the end:
\*   INVARIANT BannedIsDenied
\*   PROPERTY AuditKept
SPECIFICATION Spec
CONSTANTS
  Nodes = {n1}
  HeartbeatTimeout = 6
  MaxLate = 2
  BeatInterval = 4
  MaxMailbox = 2
PROPERTY LivelyKept
