------------------------------ MODULE MCFdManager ------------------------------
(* FdManager on a small instance. *)
EXTENDS FdManager, TLC
=============================================================================
