------------------------------ MODULE FiberPool ------------------------------
(***************************************************************************)
(* What the scheduler promises of fibers, with no queue, lock or flag in   *)
(* sight.  A fiber may be run while it holds a ticket; running it spends   *)
(* the ticket, and at any time it holds at most one.                       *)
(*                                                                         *)
(*   life    "new" until createFiber, "live", then "done"                  *)
(*   ticket  "none", "promised" while some thread, timer or waker fiber is *)
(*           on its way to a processer with the fiber, "queued" once a     *)
(*           processer has it                                              *)
(*   runner  the processer on whose thread the fiber's stack is in use     *)
(***************************************************************************)
CONSTANTS Fibers, Procs, NoProc

VARIABLES life, ticket, runner
vars == <<life, ticket, runner>>

Init ==
    /\ life = [f \in Fibers |-> "new"]
    /\ ticket = [f \in Fibers |-> "none"]
    /\ runner = [f \in Fibers |-> NoProc]

Give(f, k) == ticket' = [ticket EXCEPT ![f] = k]

Create(f) ==
    /\ life[f] = "new"
    /\ life' = [life EXCEPT ![f] = "live"]
    /\ Give(f, "promised")
    /\ UNCHANGED runner

\* A processer takes the fiber; a stopped scheduler may discard it instead, and
\* it may displace one that is queued.
Enqueue(f) ==
    /\ ticket[f] = "promised" /\ Give(f, "queued")
    /\ UNCHANGED <<life, runner>>

Displace(f, g) ==
    /\ ticket[f] = "promised" /\ ticket[g] = "queued"
    /\ ticket' = [ticket EXCEPT ![f] = "queued", ![g] = "none"]
    /\ UNCHANGED <<life, runner>>

Discard(f) ==
    /\ ticket[f] # "none" /\ Give(f, "none")
    /\ UNCHANGED <<life, runner>>

\* The fiber runs on p: its stack is in use by nobody, and it is not dead.
Resume(f, p) ==
    /\ ticket[f] = "queued" /\ Give(f, "none")
    /\ life[f] = "live" /\ runner[f] = NoProc
    /\ runner' = [runner EXCEPT ![f] = p]
    /\ UNCHANGED life

\* The running fiber asks to be woken later: the ticket may be queued before
\* the fiber has left its processer.
Arm(f) ==
    /\ runner[f] # NoProc
    /\ ticket[f] = "none" /\ Give(f, "promised")
    /\ UNCHANGED <<life, runner>>

\* The fiber leaves its processer: to wait for its ticket, straight back to
\* the queue, or for good.
Leave(f) ==
    /\ runner[f] # NoProc
    /\ runner' = [runner EXCEPT ![f] = NoProc]

Wait(f) == Leave(f) /\ UNCHANGED <<life, ticket>>

Requeue(f) ==
    /\ Leave(f)
    /\ ticket[f] = "none" /\ Give(f, "queued")
    /\ UNCHANGED life

Finish(f) ==
    /\ Leave(f)
    /\ ticket[f] = "none"
    /\ life[f] = "live" /\ life' = [life EXCEPT ![f] = "done"]
    /\ UNCHANGED ticket

Next ==
    \E f \in Fibers :
        \/ Create(f)
        \/ Enqueue(f) \/ Discard(f) \/ \E g \in Fibers : Displace(f, g)
        \/ \E p \in Procs : Resume(f, p)
        \/ Arm(f) \/ Wait(f) \/ Requeue(f) \/ Finish(f)

\* Most steps of an implementation leave the pool alone, which is quick to see.
Moves == vars' # vars

Spec == Init /\ [][Moves /\ Next]_vars
=============================================================================
