------------------------------ MODULE MCSignals ------------------------------
(* TLC instances of Signals. *)
EXTENDS Signals, TLC

OneThing == [m \in Messages |-> "i1"]
=============================================================================
