--------------------------- MODULE MCContextSync ---------------------------
(* TLC instances of ContextSync. *)
EXTENDS ContextSync, TLC

RequestSymmetry == Permutations(Polls) \cup Permutations(Reports)
=============================================================================
