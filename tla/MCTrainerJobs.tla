--------------------------- MODULE MCTrainerJobs ---------------------------
(* Instances of TrainerJobs for TLC: the .cfg files give the constants. *)
EXTENDS TrainerJobs

=============================================================================
