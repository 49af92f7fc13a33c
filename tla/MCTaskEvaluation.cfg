SPECIFICATION FairSpec
CONSTANTS
  Hotkeys = {h1, h2, h3}
  Kinds = {"tournament", "organic", "runpod", "benchmark"}
  MaxRetries = 1
  MaxRestarts = 1
INVARIANTS
  NobodyLeftOut
PROPERTIES
  EventuallyFinal
CHECK_DEADLOCK FALSE
