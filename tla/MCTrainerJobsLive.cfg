SPECIFICATION FairSpec
CONSTANTS
  Keys = {k1}
  Gpus = {g1}
  MaxRuns = 2
  MaxPolls = 0
  MaxRestarts = 1
PROPERTIES
  
  RecoveryIsSound
CHECK_DEADLOCK FALSE
