-------------------------- MODULE MCTaskEvaluation --------------------------
(* Instances of TaskEvaluation for TLC: the .cfg files give the constants. *)
EXTENDS TaskEvaluation

=============================================================================
