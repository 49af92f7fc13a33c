---------------------------- MODULE MCModelPrep ----------------------------
(* Instances of ModelPrep for TLC: one trainer, one GPU per job.           *)
EXTENDS ModelPrep, TLC

OneTrainer == [g \in Gpus |-> CHOOSE tr \in Trainers : TRUE]
OneGpu == [x \in Tasks \cup Pairs |-> 1]
=============================================================================
