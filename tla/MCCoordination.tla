--------------------------- MODULE MCCoordination ---------------------------
(* TLC instances of Coordination. *)
EXTENDS Coordination, TLC

CallerSymmetry == Permutations(Callers)
=============================================================================
