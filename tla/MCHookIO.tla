------------------------------- MODULE MCHookIO -------------------------------
(* HookIO with a fiber that reads and one that connects and closes. *)
EXTENDS HookIO, TLC

CONSTANTS Reader, Other
MCOps == Reader :> {<<"read", TRUE>>, <<"read", FALSE>>}
         @@ Other :> {<<"connect", FALSE>>, <<"close", FALSE>>}
=============================================================================
