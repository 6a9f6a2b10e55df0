---------------------------- MODULE MCSignalStore ----------------------------
(* TLC instances of SignalStore. *)
EXTENDS SignalStore, TLC
=============================================================================
