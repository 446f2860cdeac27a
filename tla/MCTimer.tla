-------------------------------- MODULE MCTimer --------------------------------
(* The threads that use the timer may be exchanged. *)
EXTENDS Timer, TLC

Symmetry == Permutations(Users)
=============================================================================
