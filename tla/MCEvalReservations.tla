------------------------- MODULE MCEvalReservations -------------------------
(* Two rows that compete for one slot, and names to choose from.           *)
EXTENDS EvalReservations
=============================================================================
