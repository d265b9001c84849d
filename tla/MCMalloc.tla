------------------------------ MODULE MCMalloc ------------------------------
(* Small instances of Malloc for TLC. *)
EXTENDS Malloc
=============================================================================
