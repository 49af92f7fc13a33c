------------------------ MODULE MCTrainingScheduler ------------------------
(* Instances of TrainingScheduler for TLC. *)
EXTENDS TrainingScheduler, TLC

CONSTANTS p1, p2

\* p1 and p2: a benchmark pair and a tournament pair.
MCPriority == [p \in Pairs |-> IF p = p1 THEN 3 ELSE 2]
MCCreated  == [p \in Pairs |-> IF p = p1 THEN 1 ELSE 2]
=============================================================================
