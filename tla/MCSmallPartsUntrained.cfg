SPECIFICATION Spec
CONSTANTS
  Tasks = {t1, t2}
  t1 = t1
  MaxPreps = 1
  MaxAssigns = 2
  MaxDelays = 1
  MaxAttempts = 2
  MaxFaults = 1
  Gpus = {0, 1, 2, 3}
  Miners = {1, 2, 3}
  IdealPool = 2
  NoLoss = none
  Losses = {1, 2}
  Earners = {burn, a, b, c}
  Burn = burn
  Nobody = nobody
  Champions = {a}
INVARIANTS
  UntrainedIsUnranked
CHECK_DEADLOCK FALSE
