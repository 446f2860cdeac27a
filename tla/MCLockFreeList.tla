---------------------------- MODULE MCLockFreeList ----------------------------
(* Threads of a kind and values may be exchanged. *)
EXTENDS LockFreeList, TLC

Symmetry == Permutations(Consumers) \cup Permutations(Values)
=============================================================================
