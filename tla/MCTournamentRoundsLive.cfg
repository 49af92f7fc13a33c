SPECIFICATION FairSpec
CONSTANTS
  Miners = {m1, m2}
  Burn = burn
  None = none
  Advance = 2
  MaxCrashes = 1
  MaxErrors = 1
  MaxLost = 2
PROPERTIES
  Settles
CHECK_DEADLOCK FALSE
