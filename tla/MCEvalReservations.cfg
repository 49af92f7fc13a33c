SPECIFICATION FairSpec
CONSTANTS
  Rows = {r1, r2}
  Names = {n1, n2, n3, n4}
  NoName = none
  Backends = {"basilica", "runpod"}
  Slots = 1
  Retries = 2
  MaxFaults = 1

  
  
PROPERTIES
  ReaperSparesWork
  EventuallySettled
CHECK_DEADLOCK FALSE
