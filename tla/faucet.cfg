\* Two nodes; a heartbeat interval that leaves room for a late cleanup.
SPECIFICATION Spec
CONSTANTS
  Nodes = {n1, n2}
  HeartbeatTimeout = 6
  MaxLate = 2
  BeatInterval = 3
  MaxMailbox = 2
INVARIANT SilentGone
PROPERTY LivelyKept
