SPECIFICATION Spec
CONSTANTS
  Models = {m1}
  Indices = {0, 1, 2, 3, 4, 5}
  Versions = {v1}
  Totals = {6}
  Local = self
  Remotes = {}
  None = None
  FirstMayOmit = FALSE
INVARIANT RatioRespected
