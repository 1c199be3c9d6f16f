\* The call that registers a model leaves its total out. Also violated here, each
\* in the place of the line at the end:
\*   INVARIANT AssembledIsWhole
\*   INVARIANT CheckSeesLocal
SPECIFICATION Spec
CONSTANTS
  Models = {m1}
  Indices = {0, 1, 2}
  Versions = {v1}
  Totals = {0, 2}
  Local = self
  Remotes = {n1}
  None = None
  FirstMayOmit = TRUE
INVARIANT NodeHoldsPart
