SPECIFICATION Spec
CONSTANTS
  Miners = {m1, m2, m3}
  Burn = burn
  None = none
  Advance = 2
  MaxCrashes = 1
  MaxErrors = 1
  MaxLost = 0
SYMMETRY Symmetric
INVARIANTS
  EntrantsReviewed
  EntrantsCompared
  EntrantsActive
  ResolvedAreOut
CHECK_DEADLOCK FALSE
