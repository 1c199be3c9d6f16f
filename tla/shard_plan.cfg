\* All calls agree on the total. Also violated here, in the place of the line at the
\* end:
\*   PROPERTY ServedVersionKept
SPECIFICATION Spec
CONSTANTS
  Models = {m1}
  Indices = {0, 1, 2}
  Versions = {v1, v2}
  Totals = {3}
  Local = self
  Remotes = {n1}
  None = None
  FirstMayOmit = FALSE
INVARIANT TargetHoldsPart
