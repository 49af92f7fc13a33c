------------------------- MODULE MCTournamentRounds -------------------------
(* Instances of TournamentRounds for TLC.                                  *)
EXTENDS TournamentRounds, TLC

Symmetric == Permutations(Miners)
=============================================================================
