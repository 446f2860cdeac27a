-------------------------------- MODULE HookIO --------------------------------
(***************************************************************************)
(* Hooked calls (fiber/hook.cc): fibers that read, write, accept or        *)
(* connect on a descriptor that is not ready register an event of the      *)
(* poller and, with a timeout, a task of its timer, and yield; a fiber     *)
(* that closes the descriptor cancels the others' waits.                   *)
(*                                                                         *)
(* It composes EventPoller with the callers of its operations.  A callback *)
(* runs in a fiber of its own, so between its launch and its run, and      *)
(* between its steps, everybody else may move.                             *)
(***************************************************************************)
EXTENDS EventPoller

CONSTANTS
    Fibers,
    Ops,        \* what each fiber may call: pairs of an operation and whether it
                \* has a timeout
    MaxCalls    \* bound: calls of one fiber

\* read stands for accept and the other calls that wait for READ.
OpNames == {"read", "write", "connect", "close"}
ASSUME OpsAssumption == Ops \in [Fibers -> SUBSET (OpNames \X BOOLEAN)]
ASSUME HookAssumption == Fds # {} /\ Fibers # {} /\ MaxCalls \in Nat

VARIABLES
    open,       \* descriptors that are open
    managed,    \* descriptors that have an FdCtx
    pc,         \* where each fiber is
    call,       \* the call it is in: descriptor, operation, and whether it has
                \* a timeout
    tag,        \* its timer_info, one for each call
    cancelled,  \* canclelled of it: the timer_info whose timeout has set it, or 0
    timers,     \* tasks of createCondTimer, and their callbacks
    waiter,     \* the fiber that the callback of each registration adds
    tickets,    \* how often the callbacks launched so far will still add a fiber
    raced       \* history: whether an event was registered after the cancelAll
                \* of a close

fiberVars == <<pc, call, tag, cancelled>>
hookVars == <<open, managed, fiberVars, timers, waiter, tickets, raced>>
allVars == <<vars, hookVars>>

ClosePCs == {"cancelAll", "del", "close"}
Timers == [fiber : Fibers, tag : 1..MaxCalls, fd : Fds, ev : Events,
           st : {"set", "launched", "cancelling"}]

HookTypeOK ==
    /\ TypeOK
    /\ open \in SUBSET Fds /\ managed \in SUBSET open
    /\ pc \in [Fibers -> {"out", "try", "add", "wait"} \cup ClosePCs]
    /\ call \in [Fibers -> [fd : Fds, op : OpNames, timed : BOOLEAN]]
    /\ tag \in [Fibers -> 0..MaxCalls]
    /\ cancelled \in [Fibers -> 0..MaxCalls]
    /\ timers \in SUBSET Timers
    /\ waiter \in [Calls -> Fibers]
    /\ tickets \in [Fibers -> Nat]
    /\ raced \in BOOLEAN

NoCallYet == [fd |-> CHOOSE f \in Fds : TRUE, op |-> "read", timed |-> FALSE]

HookInit ==
    /\ Init
    /\ open = Fds /\ managed = Fds
    /\ pc = [b \in Fibers |-> "out"]
    /\ call = [b \in Fibers |-> NoCallYet]
    /\ tag = [b \in Fibers |-> 0]
    /\ cancelled = [b \in Fibers |-> 0]
    /\ timers = {}
    /\ waiter = [c \in Calls |-> CHOOSE b \in Fibers : TRUE]
    /\ tickets = [b \in Fibers |-> 0]
    /\ raced = FALSE

Goto(b, l) == pc' = [pc EXCEPT ![b] = l] /\ UNCHANGED <<call, cancelled>>

\* The call returns, and its locals are gone.
Return(b) ==
    /\ pc' = [pc EXCEPT ![b] = "out"]
    /\ call' = [call EXCEPT ![b] = NoCallYet]
    /\ cancelled' = [cancelled EXCEPT ![b] = 0]

\* A callback launched in this step will add its fiber.
Launch ==
    tickets' = [b \in Fibers |-> tickets[b] +
                  Cardinality({c \in Calls : waiter[c] = b /\ ends'[c] # ends[c]})]

-----------------------------------------------------------------------------
(* do_io and connect_with_timeout *)

\* The call has a timer_info of its own.  A descriptor without context is left
\* to the system call.
NewCall(b, f, op, timed, l) ==
    /\ pc[b] = "out" /\ tag[b] < MaxCalls /\ f \in managed /\ <<op, timed>> \in Ops[b]
    /\ pc' = [pc EXCEPT ![b] = l]
    /\ call' = [call EXCEPT ![b] = [fd |-> f, op |-> op, timed |-> timed]]
    /\ tag' = [tag EXCEPT ![b] = @ + 1]
    /\ UNCHANGED <<vars, open, managed, cancelled, timers, waiter, tickets, raced>>

Enter(b, f) ==
    \E op \in OpNames \ {"close"}, timed \in BOOLEAN : NewCall(b, f, op, timed, "try")

Event(b) == IF call[b].op = "read" THEN "READ" ELSE "WRITE"
Ready(b) == call[b].fd \notin open \/ cond[call[b].fd] \cap {Event(b), Hup} # {}

\* The system call is done: it has taken all or some of what was there, it has
\* failed, or it was interrupted (line 61 compares with 1 and not with -1, and
\* does not try again).
TryDone(b) ==
    /\ pc[b] = "try" /\ Return(b)
    /\ \/ UNCHANGED cond
       \/ Ready(b) /\ cond' = [cond EXCEPT ![call[b].fd] = @ \ {Event(b)}]
    /\ UNCHANGED <<contexts, epoll, batch, todo, ends, stray, open, managed, tag,
                   timers, waiter, tickets, raced>>

\* Mutant: the callback cancels the other event.
TaskOfOther(b) == [fiber |-> b, tag |-> tag[b], fd |-> call[b].fd,
                   ev |-> CHOOSE e \in Events : e # Event(b), st |-> "set"]
Task(b) == [fiber |-> b, tag |-> tag[b], fd |-> call[b].fd, ev |-> Event(b),
            st |-> "set"]

\* EAGAIN or EINPROGRESS
TryAgain(b) ==
    /\ pc[b] = "try" /\ ~Ready(b) /\ Goto(b, "add")
    /\ timers' = timers \cup {r \in {Task(b)} : call[b].timed}
    /\ UNCHANGED <<vars, open, managed, tag, waiter, tickets, raced>>

\* Mutant: the task is left in the timer.
NoCancel(b) == UNCHANGED timers
\* timerTask->cancel: a task whose callback was launched is out of its reach.
CancelTimer(b) == timers' = timers \ {Task(b)}

\* The registrations have names of their own, which are taken in order.
NextCall == CHOOSE c \in todo : TRUE
\* Mutant: nobody looks at what addEvent returned.
AddAlways(f) == TRUE
AddOk(f) == f \in open /\ IF events[f] = {} THEN ~AddFails(f) ELSE ~ModFails(f)
Closing(f, l) == \E b \in Fibers : call[b].fd = f /\ pc[b] \in l

Add(b) ==
    LET f == call[b].fd
    IN /\ pc[b] = "add" /\ todo # {}
       /\ IF AddOk(f)
          THEN /\ AddEvent(f, Event(b), NextCall)
               /\ waiter' = [waiter EXCEPT ![NextCall] = b]
               /\ raced' = (raced \/ Closing(f, {"del", "close"}))
               /\ Goto(b, "wait")
               /\ UNCHANGED timers
          ELSE CancelTimer(b) /\ Return(b) /\ UNCHANGED <<vars, waiter, raced>>
       /\ UNCHANGED <<open, managed, tag, tickets>>

\* A callback adds the fiber, and it runs: toYield returns, the task is cancelled
\* and the flag looked at.
Resume(b) ==
    /\ pc[b] = "wait" /\ tickets[b] > 0
    /\ tickets' = [tickets EXCEPT ![b] = @ - 1]
    /\ CancelTimer(b)
    /\ IF cancelled[b] # 0 \/ call[b].op = "connect" THEN Return(b) ELSE Goto(b, "try")
    /\ UNCHANGED <<vars, open, managed, tag, waiter, raced>>

Run(b) == TryDone(b) \/ TryAgain(b) \/ Add(b) \/ Resume(b)

-----------------------------------------------------------------------------
(* Timeouts: the task's callback runs in a fiber of its own. *)

Turn(r, st) == timers' = (timers \ {r}) \cup {[r EXCEPT !.st = st]}

\* The poller takes the task out and launches its callback.
Expire(r) ==
    /\ r.st = "set" /\ Turn(r, "launched")
    /\ UNCHANGED <<vars, open, managed, fiberVars, waiter, tickets, raced>>

\* Mutant: the callback finds whatever call its fiber is in.
AnyCall(r) == pc[r.fiber] # "out"
\* winfo.lock(): the call's timer_info is alive.
Alive(r) == pc[r.fiber] # "out" /\ tag[r.fiber] = r.tag

TimerTest(r) ==
    /\ r.st = "launched"
    /\ IF Alive(r) /\ cancelled[r.fiber] = 0
       THEN Turn(r, "cancelling") /\ cancelled' = [cancelled EXCEPT ![r.fiber] = r.tag]
       ELSE timers' = timers \ {r} /\ UNCHANGED cancelled
    /\ UNCHANGED <<vars, open, managed, pc, call, tag, waiter, tickets, raced>>

TimerCancel(r) ==
    /\ r.st = "cancelling" /\ timers' = timers \ {r}
    /\ IF r.ev \in events[r.fd] /\ ~ModFails(r.fd)
       THEN CancelEvent(r.fd, r.ev)
       ELSE UNCHANGED vars
    /\ Launch
    /\ UNCHANGED <<open, managed, fiberVars, waiter, raced>>

TimerStep == \E r \in timers : Expire(r) \/ TimerTest(r) \/ TimerCancel(r)

-----------------------------------------------------------------------------
(* close *)

CloseCall(b, f) ==
    ~Closing(f, ClosePCs) /\ NewCall(b, f, "close", FALSE, "cancelAll")

\* Mutant: waits are left alone.
CancelNone(f) == UNCHANGED vars
CancelWaits(f) == IF ModFails(f) THEN UNCHANGED vars ELSE CancelAll(f)

CloseCancel(b) ==
    /\ pc[b] = "cancelAll" /\ Goto(b, "del")
    /\ CancelWaits(call[b].fd) /\ Launch
    /\ UNCHANGED <<open, managed, tag, timers, waiter, raced>>

\* Mutant: the context stays.
DelNothing(f) == managed
Del(f) == managed \ {f}

CloseDel(b) ==
    /\ pc[b] = "del" /\ Goto(b, "close")
    /\ managed' = Del(call[b].fd)
    /\ UNCHANGED <<vars, open, tag, timers, waiter, tickets, raced>>

\* epoll forgets a descriptor that is closed; the poller's context does not.
CloseF(b) ==
    LET f == call[b].fd
    IN /\ pc[b] = "close" /\ Return(b)
       /\ open' = open \ {f}
       /\ CtlDel(f) /\ cond' = [cond EXCEPT ![f] = {}]
       /\ UNCHANGED <<contexts, batch, todo, ends, stray, managed, tag, timers, waiter, tickets, raced>>

CloseStep(b) == CloseCancel(b) \/ CloseDel(b) \/ CloseF(b)

\* socket or accept gets the number again, and FdManager::get its context.
Open(f) ==
    /\ f \notin open
    /\ open' = open \cup {f} /\ managed' = managed \cup {f}
    /\ UNCHANGED <<vars, fiberVars, timers, waiter, tickets, raced>>

-----------------------------------------------------------------------------

Poll ==
    /\ Wait \/ \E f \in Fds : Process(f)
    /\ Launch
    /\ UNCHANGED <<open, managed, fiberVars, timers, waiter, raced>>

\* Data, room or a hang-up of the other side; more of it is an edge of its own.
Arrive(f, k) ==
    /\ f \in open /\ Becomes(f, k)
    /\ UNCHANGED hookVars

HookNext ==
    /\ ~crashed /\ ~stray
    /\ \/ \E b \in Fibers :
             \/ Run(b) \/ CloseStep(b)
             \/ \E f \in Fds : Enter(b, f) \/ CloseCall(b, f)
       \/ TimerStep \/ Poll
       \/ \E f \in Fds : Open(f) \/ \E k \in Events \cup {Hup} : Arrive(f, k)

HookSpec == HookInit /\ [][HookNext]_allVars

\* A fiber that a processer runs goes on, time passes, and the poller's thread
\* runs.  Nobody has to call anything, no data has to come, and del and close_f may
\* be kept waiting by the lock of FdManager.  Nor does a fiber that was queued have
\* to run, be it a callback's or the one it adds: its processer may sleep over it
\* (processer.cc:75-80).
HookFairSpec ==
    /\ HookSpec
    /\ \A b \in Fibers : WF_allVars(TryDone(b) \/ TryAgain(b) \/ Add(b) \/ CloseCancel(b))
    /\ WF_allVars(\E r \in timers : Expire(r) \/ TimerCancel(r))
    /\ WF_allVars(Poll)

-----------------------------------------------------------------------------

\* A fiber inside toYield is resumed once: either its registration is still
\* there or one callback that will add it was launched, whatever the event, the
\* timeout and a close do in whatever order (hook.cc:82-84, 96-98, 256).
Registrations(b) == {x \in Registered : LET c == cb[x[1]][x[2]] IN c # NoCall /\ waiter[c] = b}
WaitsOnce ==
    ~stray => \A b \in Fibers :
        Cardinality(Registrations(b)) + tickets[b] = IF pc[b] = "wait" THEN 1 ELSE 0

\* A call leaves no task in the timer when it returns, and has at most the one
\* of its present wait (hook.cc:94, 101); and one that fails with ETIMEDOUT had a
\* timeout of its own that was due, although callbacks launched for earlier calls
\* may still run (hook.cc:78-83).
TimersEnd ==
    /\ \A r \in timers : r.st = "set" =>
          pc[r.fiber] \in {"add", "wait"} /\ r.tag = tag[r.fiber]
    /\ \A b \in Fibers : cancelled[b] \in {0, tag[b]}

\* A fiber that would end b's wait is queued: one whose callback adds b, b itself, or
\* the timeout's of its present call.
Queued(b) == \/ tickets[b] > 0
             \/ \E r \in timers : r.fiber = b /\ r.tag = tag[b] /\ r.st = "launched"
Undone == stray \/ raced \/ crashed

\* A wait with a timeout ends, unless the fiber that would end it stays queued for
\* ever, or the descriptor is closed under it (hook.cc:71-99).  Not meant is the
\* wait of a call whose timeout fired before its event was registered: its flag is
\* set, and nothing ends it.
TimeoutEnds ==
    \A b \in Fibers :
        \/ (pc[b] = "wait" /\ call[b].timed /\ cancelled[b] = 0) ~> (pc[b] # "wait" \/ Undone)
        \/ <>[]Queued(b)

\* A close ends every wait on the descriptor, with or without a timeout, unless the
\* fiber that would end it stays queued for ever (hook.cc:252-256).
CloseEnds ==
    \A b \in Fibers :
        \/ (pc[b] = "wait" /\ Closing(call[b].fd, {"cancelAll"})) ~> (pc[b] # "wait" \/ Undone)
        \/ <>[]Queued(b)
=============================================================================
