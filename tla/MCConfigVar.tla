------------------------------ MODULE MCConfigVar ------------------------------
(* ConfigVar on small instances. *)
EXTENDS ConfigVar, TLC
=============================================================================
