SPECIFICATION FairSpec
CONSTANTS
  Gpus = {g1, g2}
  Trainers = {a}
  Home <- OneTrainer
  Refreshers = {r}
  Tasks = {1}
  Pairs = {p}
  Need <- OneGpu
  MaxJobs = 3
  MaxFaults = 1
INVARIANTS
  OnePreparation
  
  
PROPERTIES
  EventuallyPrepared
CHECK_DEADLOCK FALSE
