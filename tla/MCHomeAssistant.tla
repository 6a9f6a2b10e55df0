--------------------------- MODULE MCHomeAssistant ---------------------------
(* TLC instances of HomeAssistant. *)
EXTENDS HomeAssistant
=============================================================================
