SPECIFICATION FairSpec
CONSTANTS
  instruct = instruct
  grpo = grpo
  qwen = qwen
  Types = {instruct, grpo}
  Lineages = {qwen}
  Target <- OneOfEach
  Paired = {instruct}
  Instruct = instruct
  MaxPrepFailures = 1
  MaxFailures = 1
  MaxSkips = 1
  MaxCrashes = 2
INVARIANTS
  
  EveryLineageHeld
  DecidersBounded
  
PROPERTIES
  VerdictsStand
  EventuallyCrowned
CHECK_DEADLOCK FALSE
