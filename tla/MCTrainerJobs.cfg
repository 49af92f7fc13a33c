SPECIFICATION Spec
CONSTANTS
  Keys = {k1}
  Gpus = {g1}
  MaxRuns = 2
  MaxPolls = 1
  MaxRestarts = 0
INVARIANTS
  SuccessMeansUploaded
CHECK_DEADLOCK FALSE
