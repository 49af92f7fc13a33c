SPECIFICATION FairSpec
CONSTANTS
  p1 = p1
  p2 = p2
  Pairs = {p1, p2, p3}
  HasRepo = {p1, p2}
  Priority <- MCPriority
  Created <- MCCreated
  Trainers = {t1}
  NoTrainer = NoTrainer
  NoPair = NoPair
  Slots = 1
  MaxAttempts = 2
  PostTries = 2
  MaxFaults = 1
INVARIANTS
  
  SuccessIsEarned
  OneRunWithoutFaults
PROPERTIES
  
  EventuallyDecided
CHECK_DEADLOCK FALSE
