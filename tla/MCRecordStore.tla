--------------------------- MODULE MCRecordStore ---------------------------
(* TLC instances of RecordStore. *)
EXTENDS RecordStore, TLC
=============================================================================
