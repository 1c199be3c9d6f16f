SPECIFICATION Spec
CONSTANTS
  Unit = 3
  MaxSupply = 5
  MaxUint = 16
  Amounts = {1, 2, 3, 5}
  Values = {0, 1, 2, 4, 6}
  Rates = {1, 2, 4}
  MaxMints = 4
INVARIANT AlwaysFull
\* Mints are bounded, and without coins there is nothing to burn.
CHECK_DEADLOCK FALSE
