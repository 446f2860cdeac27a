----------------------------- MODULE MCEventPoller -----------------------------
(* EventPoller on small instances. *)
EXTENDS EventPoller, TLC
=============================================================================
