------------------------------- MODULE MCTurns -------------------------------
(* TLC instances of Turns. *)
EXTENDS Turns
=============================================================================
