SPECIFICATION Spec
CONSTANTS
  Models = {m1}
  Indices = {0, 1, 2}
  Versions = {v1}
  Totals = {0, 2, 3}
  Local = self
  Remotes = {n1}
  None = None
  FirstMayOmit = FALSE
INVARIANT NodeHoldsPart
