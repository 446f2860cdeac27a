------------------------------ MODULE MCNewQueue ------------------------------
(* NewQueue with two producers and a ring that fills up and wraps around. *)
EXTENDS NewQueue, TLC
=============================================================================
