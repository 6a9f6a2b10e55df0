-------------------------- MODULE MCStorageBreaker --------------------------
(* TLC instances of StorageBreaker. *)
EXTENDS StorageBreaker, TLC
=============================================================================
