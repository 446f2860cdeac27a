------------------------------ MODULE Scheduler ------------------------------
(***************************************************************************)
(* The fiber scheduler: Scheduler (scheduler.cc), its Processers           *)
(* (processer.cc), the life of a Fiber (fiber.cc), and the part of the     *)
(* network poller that turns an armed timer or event into a wake-up        *)
(* (poller.cc, hook.cc sleep).                                             *)
(*                                                                         *)
(* Every thread has a program counter, and one action is one atomic step   *)
(* of the code: one access to a variable that other threads also access.   *)
(* A critical section that no unlocked access can tell apart from a single *)
(* step is one action; Processer::idle, whose flag is written without the  *)
(* lock, is cut at every access.                                           *)
(*                                                                         *)
(* newQueue is a single-producer ring that several threads push into.  As  *)
(* long as no two pushes overlap, it is the queue newQueue[p], and a push  *)
(* its three steps: look for room, write the slot, store the index.  Once  *)
(* two pushes have overlapped the indices may be stored out of order, and  *)
(* slots be overwritten: overlapped records where, and the ring then is    *)
(* any part of its slots.  Module NewQueue has the ring index by index.    *)
(***************************************************************************)
EXTENDS Naturals, Sequences, FiniteSets

CONSTANTS
    N,          \* number of processers (m_processerNumber)
    Tasks,      \* fibers that run user code
    Wakers,     \* fibers the poller creates to run Scheduler::addFiber
    NoFiber,    \* the null Fiber::ptr
    Capacity,   \* capacity of a newQueue (128 in the code)
    NewMax,     \* m_newfiberCount above which a busy processer refills (32)
    GcMax,      \* length of gcQueue above which it is emptied (32)
    MaxMoves,   \* bound: times a task creates, suspends or reschedules
    MayStop     \* whether the owner ever destroys the Scheduler

ASSUME NAssumption == N \in Nat \ {0}
ASSUME FiberAssumption == /\ Tasks \cap Wakers = {}
                          /\ NoFiber \notin Tasks \cup Wakers
ASSUME BoundAssumption == /\ Capacity \in Nat \ {0}
                          /\ NewMax \in Nat
                          /\ GcMax \in Nat
                          /\ MaxMoves \in Nat
                          /\ MayStop \in BOOLEAN

Fibers == Tasks \cup Wakers
Ptrs == Fibers \cup {NoFiber}
Procs == 1..N

\* Threads: the processers' own threads are 1..N, the thread that owns the
\* Scheduler is 0 and the network poller's is N + 1.
Main == 0
Poller == N + 1
Threads == 0..(N + 1)
NoProc == 0

VARIABLES
    sched,      \* Scheduler::m_state
    pstate,     \* Processer::m_state
    notidied,   \* Processer::m_notidied
    newQueue,   \* Processer::newQueue
    newCount,   \* Processer::m_newfiberCount
    runable,    \* Processer::runableQueue
    stray,      \* fibers in newQueue's slots outside its indices
    overlapped, \* history: processers into whose newQueue two threads have
                \* pushed at the same time
    gcQueue,    \* Processer::gcQueue
    cur,        \* fb in Processer::execute (t_fiber once it runs)
    fstate,     \* Fiber::m_state, "free" before the Fiber exists
    fproc,      \* Fiber::m_proc
    wakes,      \* the fiber a waker still has to pass to addFiber
    moves,      \* what is left of MaxMoves
    armed,      \* fibers whose timer or event the poller still has to deliver
    rr,         \* the static id of Scheduler::addFiber
    robin,      \* threads between choosing by rr and advancing it
    pc,         \* where each thread is
    arg,        \* the fiber a thread passes to addFiber
    tgt         \* the processer a thread looks at or adds to

stateVars == <<sched, pstate, notidied>>
queueVars == <<newQueue, newCount, runable, stray, overlapped>>
localVars == <<gcQueue, cur>>
fiberVars == <<fstate, fproc, wakes, moves, armed>>
callVars  == <<rr, robin, arg, tgt>>
vars == <<stateVars, queueVars, localVars, fiberVars, callVars, pc>>

-----------------------------------------------------------------------------
(* Program counters *)

Adding   == {"own", "scan", "check", "push", "write", "store", "count", "peek",
             "flag", "flagNotify", "notify", "rotate"}
IdleLocked == {"idleTest", "idleReset", "idleState", "idleCheck", "idleWait",
               "idleLeave"}
ProcPCs  == {"start", "loop", "refill", "idle", "waiting", "woken", "dispatch",
             "body", "armed", "switch", "exit"} \cup IdleLocked
MainPCs  == {"user", "stopSet", "stopNotify", "join", "joinPoller", "exit"}
PollPCs  == {"poll", "exit"}
PCs == Adding \cup ProcPCs \cup MainPCs \cup PollPCs

\* Where a thread goes on when its call of Scheduler::addFiber returns.  Its
\* locals arg and tgt are reset once the code reads them no more.
Home(t) == CASE t = Main   -> "user"
             [] t = Poller -> "poll"
             [] OTHER      -> "body"

StateTypes ==
    /\ sched \in {"running", "stop", "done"}
    /\ pstate \in [Procs -> {"init", "running", "idle", "stop"}]
    /\ notidied \in [Procs -> BOOLEAN]
QueueTypes ==
    /\ newQueue \in [Procs -> Seq(Ptrs)]
    /\ newCount \in [Procs -> Nat]
    /\ runable \in [Procs -> Seq(Ptrs)]
    /\ stray \in [Procs -> SUBSET Ptrs]
    /\ overlapped \in SUBSET Procs
LocalTypes ==
    /\ gcQueue \in [Procs -> Seq(Ptrs)]
    /\ cur \in [Procs -> Ptrs]
FiberTypes ==
    /\ fstate \in [Fibers -> {"free", "running", "block", "done"}]
    /\ fproc \in [Fibers -> Procs \cup {NoProc}]
    /\ wakes \in [Fibers -> Ptrs]
    /\ moves \in [Fibers -> 0..MaxMoves]
    /\ armed \in SUBSET Fibers
CallTypes ==
    /\ rr \in Procs
    /\ robin \in SUBSET Threads
    /\ arg \in [Threads -> Ptrs]
    /\ tgt \in [Threads -> Procs]
PcTypes == pc \in [Threads -> PCs]

\* The type invariant.
TypeOK ==
    /\ StateTypes /\ QueueTypes /\ LocalTypes
    /\ FiberTypes /\ CallTypes /\ PcTypes

\* The state Scheduler::start leaves: every thread is created, none has run.
Init ==
    /\ sched = "running"
    /\ pstate = [p \in Procs |-> "init"]
    /\ notidied = [p \in Procs |-> FALSE]
    /\ newQueue = [p \in Procs |-> <<>>]
    /\ newCount = [p \in Procs |-> 0]
    /\ runable = [p \in Procs |-> <<>>]
    /\ stray = [p \in Procs |-> {}]
    /\ overlapped = {}
    /\ gcQueue = [p \in Procs |-> <<>>]
    /\ cur = [p \in Procs |-> NoFiber]
    /\ fstate = [f \in Fibers |-> "free"]
    /\ fproc = [f \in Fibers |-> NoProc]
    /\ wakes = [f \in Fibers |-> NoFiber]
    /\ moves = [f \in Fibers |-> IF f \in Tasks THEN MaxMoves ELSE 0]
    /\ armed = {}
    /\ rr = 1
    /\ robin = {}
    /\ pc = [t \in Threads |-> IF t = Main THEN "user"
                               ELSE IF t = Poller THEN "poll" ELSE "start"]
    /\ arg = [t \in Threads |-> NoFiber]
    /\ tgt = [t \in Threads |-> 1]

Goto(t, l) == pc' = [pc EXCEPT ![t] = l]

-----------------------------------------------------------------------------
(* Scheduler::addFiber(fb), called by thread t with fb = arg[t] *)

\* Mutant: fb's own processer is not preferred.
OwnProcesserIgnored(f) == NoProc

\* fb's own processer, if it has one and that one is running.
OwnProcesser(f) == IF fproc[f] # NoProc /\ pstate[fproc[f]] = "running"
                   THEN fproc[f] ELSE NoProc

TryOwn(t) ==
    /\ pc[t] = "own"
    /\ LET p == OwnProcesser(arg[t])
       IN IF p # NoProc
          THEN tgt' = [tgt EXCEPT ![t] = p] /\ Goto(t, "check")
          ELSE tgt' = [tgt EXCEPT ![t] = 1] /\ Goto(t, "scan")
    /\ UNCHANGED <<stateVars, queueVars, localVars, fiberVars, rr, robin, arg>>

\* The loop over m_processers for one that isWaitting, a read at a time; the
\* end of the loop falls through to the round robin.  No code sets a
\* processer's state to block, so the round robin takes m_processers[id].
Scan(t) ==
    /\ pc[t] = "scan"
    /\ IF pstate[tgt[t]] = "idle"
       THEN Goto(t, "check") /\ UNCHANGED <<tgt, robin>>
       ELSE IF tgt[t] < N
       THEN tgt' = [tgt EXCEPT ![t] = @ + 1] /\ UNCHANGED <<pc, robin>>
       ELSE /\ tgt' = [tgt EXCEPT ![t] = rr]
            /\ robin' = robin \cup {t}
            /\ Goto(t, "check")
    /\ UNCHANGED <<stateVars, queueVars, localVars, fiberVars, rr, arg>>

\* Processer::addFiber returned to Scheduler::addFiber.
AfterAdd(t) == IF t \in robin THEN "rotate" ELSE Home(t)
Leave(t) == Goto(t, AfterAdd(t)) /\ tgt' = [tgt EXCEPT ![t] = 1]

\* Mutant: the index is not wrapped.
NextIdUnwrapped(i) == i + 1
NextId(i) == (i % N) + 1

\* id = (id + 1) % n.  The static id is shared and not atomic: when another
\* thread is between its read and its write, the write may leave any index.
Rotate(t) ==
    /\ pc[t] = "rotate"
    /\ IF robin = {t} THEN rr' = NextId(rr) ELSE rr' \in Procs
    /\ robin' = robin \ {t}
    /\ Goto(t, Home(t))
    /\ UNCHANGED <<stateVars, queueVars, localVars, fiberVars, arg, tgt>>

-----------------------------------------------------------------------------
(* Processer::addFiber(fiber) of processer tgt[t], called by thread t *)

\* A stopped processer drops the fiber.
CheckStopped(t) ==
    /\ pc[t] = "check"
    /\ IF pstate[tgt[t]] = "stop"
       THEN Leave(t) /\ arg' = [arg EXCEPT ![t] = NoFiber]
       ELSE Goto(t, "push") /\ UNCHANGED <<arg, tgt>>
    /\ UNCHANGED <<stateVars, queueVars, localVars, fiberVars, rr, robin>>

\* Threads inside newQueue.push of p that have loaded its write index.
InPush(p) == {t \in Threads : pc[t] \in {"write", "store"} /\ tgt[t] = p}

\* while(!newQueue.push(fiber)) {} spins while the queue is full.
PushTest(t) ==
    /\ pc[t] = "push"
    /\ Len(newQueue[tgt[t]]) < Capacity
    /\ overlapped' = overlapped \cup {p \in {tgt[t]} : InPush(p) # {}}
    /\ Goto(t, "write")
    /\ UNCHANGED <<stateVars, newQueue, newCount, runable, stray, localVars,
                   fiberVars, callVars>>

\* The slot behind the loaded index is written.  It is nobody else's, unless
\* pushes have overlapped: then it may be one that another push has written,
\* published or not, and the fiber in it is lost.
WriteFree(p, f) ==
    /\ stray' = [stray EXCEPT ![p] = @ \cup {f}]
    /\ UNCHANGED newQueue
WriteOver(p, f) ==
    /\ p \in overlapped
    /\ \/ \E g \in stray[p] :
            /\ stray' = [stray EXCEPT ![p] = (@ \ {g}) \cup {f}]
            /\ UNCHANGED newQueue
       \/ \E i \in 1..Len(newQueue[p]) :
            /\ newQueue' = [newQueue EXCEPT ![p] = [@ EXCEPT ![i] = f]]
            /\ UNCHANGED stray

PushWrite(t) ==
    /\ pc[t] = "write"
    /\ WriteFree(tgt[t], arg[t]) \/ WriteOver(tgt[t], arg[t])
    /\ arg' = [arg EXCEPT ![t] = NoFiber]
    /\ Goto(t, "store")
    /\ UNCHANGED <<stateVars, newCount, runable, overlapped, localVars,
                   fiberVars, rr, robin, tgt>>

\* The fibers in p's slots, and what the slots between two indices may hold: a
\* slot holds a fiber, or no fiber any more.
Slotted(p) ==
    (stray[p] \cup {newQueue[p][i] : i \in 1..Len(newQueue[p])}) \ {NoFiber}
Windows(p) ==
    {q \in UNION {[1..n -> Slotted(p) \cup {NoFiber}] : n \in 0..Capacity} :
        \A i, j \in DOMAIN q : q[i] = q[j] => i = j \/ q[i] = NoFiber}

\* The slot is published.
StoreNext(p) ==
    \E f \in stray[p] :
        /\ newQueue' = [newQueue EXCEPT ![p] = Append(@, f)]
        /\ stray' = [stray EXCEPT ![p] = @ \ {f}]

\* After an overlap the stored index may be behind the present one or behind
\* the reader's: slots leave the queue and others return to it.
StoreAny(p) ==
    \E q \in Windows(p) :
        /\ newQueue' = [newQueue EXCEPT ![p] = q]
        /\ stray' = [stray EXCEPT ![p] =
                        Slotted(p) \ {q[i] : i \in DOMAIN q}]

PushStore(t) ==
    /\ pc[t] = "store"
    /\ IF tgt[t] \in overlapped THEN StoreAny(tgt[t]) ELSE StoreNext(tgt[t])
    /\ Goto(t, "count")
    /\ UNCHANGED <<stateVars, newCount, runable, overlapped, localVars,
                   fiberVars, callVars>>

Count(t) ==
    /\ pc[t] = "count"
    /\ newCount' = [newCount EXCEPT ![tgt[t]] = @ + 1]
    /\ Goto(t, "peek")
    /\ UNCHANGED <<stateVars, newQueue, runable, stray, overlapped, localVars,
                   fiberVars, callVars>>

\* if(!isRunning())
Peek(t) ==
    /\ pc[t] = "peek"
    /\ Goto(t, IF pstate[tgt[t]] = "running" THEN "flag" ELSE "flagNotify")
    /\ UNCHANGED <<stateVars, queueVars, localVars, fiberVars, callVars>>

\* m_notidied = true, without the lock; notify() follows in one branch only.
Flag(t) ==
    /\ pc[t] \in {"flag", "flagNotify"}
    /\ notidied' = [notidied EXCEPT ![tgt[t]] = TRUE]
    /\ IF pc[t] = "flag" THEN Leave(t) ELSE Goto(t, "notify") /\ UNCHANGED tgt
    /\ UNCHANGED <<sched, pstate, queueVars, localVars, fiberVars, rr, robin,
                   arg>>

\* Mutant: the waiters are notified but the flag they test is not set.
NotifyUnflagged(t, p, l) ==
    /\ pc[p] \notin IdleLocked
    /\ pc' = [pc EXCEPT ![t] = l, ![p] = IF @ = "waiting" THEN "woken" ELSE @]
    /\ UNCHANGED notidied

\* Processer::notify of p by t, which then is at l: takes p's mutex, which p
\* itself holds in IdleLocked; a waiting p wakes up and has to take it again.
NotifyProcesser(t, p, l) ==
    /\ pc[p] \notin IdleLocked
    /\ notidied' = [notidied EXCEPT ![p] = TRUE]
    /\ pc' = [pc EXCEPT ![t] = l, ![p] = IF @ = "waiting" THEN "woken" ELSE @]

Notify(t) ==
    /\ pc[t] = "notify"
    /\ NotifyProcesser(t, tgt[t], AfterAdd(t))
    /\ tgt' = [tgt EXCEPT ![t] = 1]
    /\ UNCHANGED <<sched, pstate, queueVars, localVars, fiberVars, rr, robin,
                   arg>>

AddStep(t) == \/ TryOwn(t) \/ Scan(t) \/ Rotate(t) \/ CheckStopped(t)
              \/ PushTest(t) \/ PushWrite(t) \/ PushStore(t)
              \/ Count(t) \/ Peek(t) \/ Flag(t) \/ Notify(t)

-----------------------------------------------------------------------------
(* Scheduler::createFiber: t makes Fiber f and calls addFiber with it *)

Create(t, f) ==
    /\ fstate[f] = "free"
    /\ fstate' = [fstate EXCEPT ![f] = "running"]
    /\ arg' = [arg EXCEPT ![t] = f]
    /\ Goto(t, "own")

-----------------------------------------------------------------------------
(* Processer::execute on thread p *)

\* m_state = running
Start(p) ==
    /\ pc[p] = "start"
    /\ pstate' = [pstate EXCEPT ![p] = "running"]
    /\ Goto(p, "loop")
    /\ UNCHANGED <<sched, notidied, queueVars, localVars, fiberVars, callVars>>

\* The test of the outer loop and the front of runableQueue, which is null if a
\* pop read a slot without a fiber.
Loop(p) ==
    /\ pc[p] = "loop"
    /\ IF sched = "stop"
       THEN Goto(p, "exit") /\ UNCHANGED <<cur, runable>>
       ELSE IF runable[p] # <<>>
       THEN /\ cur' = [cur EXCEPT ![p] = Head(runable[p])]
            /\ runable' = [runable EXCEPT ![p] = Tail(@)]
            /\ Goto(p, IF cur'[p] = NoFiber THEN "refill" ELSE "dispatch")
       ELSE Goto(p, "refill") /\ UNCHANGED <<cur, runable>>
    /\ UNCHANGED <<stateVars, newQueue, newCount, stray, overlapped, gcQueue,
                   fiberVars, callVars>>

\* Mutant: everything in the queue is taken, counted or not.
GetNewFibersAll(p, base) ==
    /\ newCount' = [newCount EXCEPT ![p] = 0]
    /\ newQueue' = [newQueue EXCEPT ![p] = <<>>]
    /\ runable' = [runable EXCEPT ![p] = base \o newQueue[p]]
    /\ UNCHANGED <<stray, overlapped>>

\* Processer::getNewFibers, with base as the runableQueue it appends to: the
\* counter is exchanged for 0 and that many fibers are popped.  A push between
\* the exchange and a pop goes behind them, so both are one step.  A pop that finds
\* nothing, after an overlap, appends nothing.
GetNewFibers(p, base) ==
    LET n == IF newCount[p] < Len(newQueue[p]) THEN newCount[p]
             ELSE Len(newQueue[p])
    IN /\ newCount' = [newCount EXCEPT ![p] = 0]
       /\ newQueue' = [newQueue EXCEPT ![p] = SubSeq(@, n + 1, Len(@))]
       /\ runable' = [runable EXCEPT ![p] = base \o SubSeq(newQueue[p], 1, n)]
       /\ UNCHANGED <<stray, overlapped>>

Refill(p) ==
    /\ pc[p] = "refill"
    /\ GetNewFibers(p, runable[p])
    /\ Goto(p, IF runable'[p] = <<>> THEN "idle" ELSE "loop")
    /\ UNCHANGED <<stateVars, localVars, fiberVars, callVars>>

\* The inner loop's test, then SwapIn; at a stop the fiber is not run.
Dispatch(p) ==
    /\ pc[p] = "dispatch"
    /\ IF sched = "stop"
       THEN /\ cur' = [cur EXCEPT ![p] = NoFiber]
            /\ Goto(p, "loop")
            /\ UNCHANGED <<fstate, fproc>>
       ELSE /\ fstate' = [fstate EXCEPT ![cur[p]] = "running"]
            /\ fproc' = [fproc EXCEPT ![cur[p]] = p]
            /\ Goto(p, "body")
            /\ UNCHANGED cur
    /\ UNCHANGED <<stateVars, queueVars, gcQueue, wakes, moves, armed,
                   callVars>>

\* A fiber that left without blocking goes to the back of runableQueue, and a
\* processer that always has such fibers looks for new ones here.
\* Mutant: it is not pushed back.
PutBackNothing(p) == UNCHANGED queueVars
PutBack(p) ==
    IF newCount[p] > NewMax
    THEN GetNewFibers(p, Append(runable[p], cur[p]))
    ELSE /\ runable' = [runable EXCEPT ![p] = Append(@, cur[p])]
         /\ UNCHANGED <<newQueue, newCount, stray, overlapped>>

\* After SwapOut: the switch on the fiber's state.
SwitchOut(p) ==
    /\ pc[p] = "switch"
    /\ CASE fstate[cur[p]] = "running" -> PutBack(p) /\ UNCHANGED gcQueue
         [] fstate[cur[p]] = "block" -> UNCHANGED <<queueVars, gcQueue>>
         [] OTHER ->
              /\ gcQueue' = [gcQueue EXCEPT ![p] =
                     IF Len(@) > GcMax THEN <<cur[p]>> ELSE Append(@, cur[p])]
              /\ UNCHANGED queueVars
    /\ cur' = [cur EXCEPT ![p] = NoFiber]
    /\ Goto(p, "loop")
    /\ UNCHANGED <<stateVars, fiberVars, callVars>>

-----------------------------------------------------------------------------
(* Processer::idle on thread p *)

\* gc(), then the lock.
IdleLock(p) ==
    /\ pc[p] = "idle"
    /\ gcQueue' = [gcQueue EXCEPT ![p] = <<>>]
    /\ Goto(p, "idleTest")
    /\ UNCHANGED <<stateVars, queueVars, cur, fiberVars, callVars>>

\* Mutant: the flag is cleared on the way into the wait.
IdleTestForgets(p) ==
    /\ pc[p] = "idleTest"
    /\ notidied' = [notidied EXCEPT ![p] = FALSE]
    /\ Goto(p, "idleState")
    /\ UNCHANGED <<sched, pstate, queueVars, localVars, fiberVars, callVars>>

IdleTest(p) ==
    /\ pc[p] = "idleTest"
    /\ Goto(p, IF notidied[p] THEN "idleReset" ELSE "idleState")
    /\ UNCHANGED <<stateVars, queueVars, localVars, fiberVars, callVars>>

\* m_notidied = false; return.  A flag set since IdleTest is lost here.
IdleReset(p) ==
    /\ pc[p] = "idleReset"
    /\ notidied' = [notidied EXCEPT ![p] = FALSE]
    /\ Goto(p, "loop")
    /\ UNCHANGED <<sched, pstate, queueVars, localVars, fiberVars, callVars>>

\* m_state = idle before the wait, m_state = running after it.
IdleState(p) ==
    /\ pc[p] \in {"idleState", "idleLeave"}
    /\ LET entering == pc[p] = "idleState"
       IN /\ pstate' = [pstate EXCEPT ![p] =
                            IF entering THEN "idle" ELSE "running"]
          /\ Goto(p, IF entering THEN "idleCheck" ELSE "loop")
    /\ UNCHANGED <<sched, notidied, queueVars, localVars, fiberVars, callVars>>

\* while(!m_notidied)
IdleCheck(p) ==
    /\ pc[p] = "idleCheck"
    /\ Goto(p, IF notidied[p] THEN "idleLeave" ELSE "idleWait")
    /\ UNCHANGED <<stateVars, queueVars, localVars, fiberVars, callVars>>

\* Mutant: the wait keeps the mutex, and no notifier gets it.
IdleWaitHolding(p) ==
    /\ pc[p] = "woken" /\ Goto(p, "idleCheck")
    /\ UNCHANGED <<stateVars, queueVars, localVars, fiberVars, callVars>>

\* m_cv.wait(m_mutex) starts, and ends by taking the mutex again.
IdleWait(p) ==
    /\ \/ pc[p] = "idleWait" /\ Goto(p, "waiting")
       \/ pc[p] = "woken" /\ Goto(p, "idleCheck")
    /\ UNCHANGED <<stateVars, queueVars, localVars, fiberVars, callVars>>

\* A wait may end without a notification; nothing makes it.
SpuriousWake(p) ==
    /\ pc[p] = "waiting"
    /\ Goto(p, "woken")
    /\ UNCHANGED <<stateVars, queueVars, localVars, fiberVars, callVars>>

ProcStep(p) ==
    \/ Start(p) \/ Loop(p) \/ Refill(p) \/ Dispatch(p) \/ SwitchOut(p)
    \/ IdleLock(p) \/ IdleTest(p) \/ IdleReset(p) \/ IdleState(p)
    \/ IdleCheck(p) \/ IdleWait(p)

-----------------------------------------------------------------------------
(* What the fiber cur[p] does while p runs it *)

Running(p, f) == pc[p] = "body" /\ cur[p] = f /\ wakes[f] = NoFiber

\* A task creates another one.
CreateFromTask(p, f, g) ==
    /\ Running(p, f) /\ moves[f] > 0
    /\ moves' = [moves EXCEPT ![f] = @ - 1]
    /\ Create(p, g)
    /\ UNCHANGED <<stateVars, queueVars, localVars, fproc, wakes, armed, rr,
                   robin, tgt>>

\* Hooked sleep and I/O: createTimer or addEvent with a callback that adds f
\* again, and only then Processer::toYield.
Arm(p, f) ==
    /\ Running(p, f) /\ moves[f] > 0
    /\ moves' = [moves EXCEPT ![f] = @ - 1]
    /\ armed' = armed \cup {f}
    /\ Goto(p, "armed")
    /\ UNCHANGED <<stateVars, queueVars, localVars, fstate, fproc, wakes,
                   callVars>>

\* Mutant: toYield does not mark the fiber blocked.
YieldRunning(p) ==
    /\ pc[p] = "armed"
    /\ Goto(p, "switch")
    /\ UNCHANGED <<stateVars, queueVars, localVars, fiberVars, callVars>>

Yield(p) ==
    /\ pc[p] = "armed"
    /\ fstate' = [fstate EXCEPT ![cur[p]] = "block"]
    /\ Goto(p, "switch")
    /\ UNCHANGED <<stateVars, queueVars, localVars, fproc, wakes, moves, armed,
                   callVars>>

\* A SwapOut that leaves the state at running: f goes to the back of the queue.
Reschedule(p, f) ==
    /\ Running(p, f) /\ moves[f] > 0
    /\ moves' = [moves EXCEPT ![f] = @ - 1]
    /\ Goto(p, "switch")
    /\ UNCHANGED <<stateVars, queueVars, localVars, fstate, fproc, wakes,
                   armed, callVars>>

\* The body of a waker: Scheduler::addFiber of the fiber it was made for.
PassOn(p, f) ==
    /\ pc[p] = "body" /\ cur[p] = f /\ wakes[f] # NoFiber
    /\ arg' = [arg EXCEPT ![p] = wakes[f]]
    /\ wakes' = [wakes EXCEPT ![f] = NoFiber]
    /\ Goto(p, "own")
    /\ UNCHANGED <<stateVars, queueVars, localVars, fstate, fproc, moves,
                   armed, rr, robin, tgt>>

\* Fiber::run after m_fn: m_state = done, SwapOut.
Finish(p, f) ==
    /\ Running(p, f)
    /\ fstate' = [fstate EXCEPT ![f] = "done"]
    /\ moves' = [moves EXCEPT ![f] = 0]
    /\ Goto(p, "switch")
    /\ UNCHANGED <<stateVars, queueVars, localVars, fproc, wakes, armed, callVars>>

BodyStep(p) ==
    \/ \E f \in Tasks : \E g \in Tasks : CreateFromTask(p, f, g)
    \/ \E f \in Tasks : Arm(p, f) \/ Reschedule(p, f)
    \/ \E f \in Wakers : PassOn(p, f)
    \/ \E f \in Fibers : Finish(p, f)
    \/ Yield(p)

-----------------------------------------------------------------------------
(* The thread that owns the Scheduler *)

MainCreate(f) ==
    /\ pc[Main] = "user"
    /\ Create(Main, f)
    /\ UNCHANGED <<stateVars, queueVars, localVars, fproc, wakes, moves, armed,
                   rr, robin, tgt>>

\* ~Scheduler: m_state = stop, then stop().
MainStop ==
    /\ MayStop
    /\ pc[Main] = "user"
    /\ sched' = "stop"
    /\ tgt' = [tgt EXCEPT ![Main] = 1]
    /\ Goto(Main, "stopSet")
    /\ UNCHANGED <<pstate, notidied, queueVars, localVars, fiberVars, rr,
                   robin, arg>>

StopSet ==
    /\ pc[Main] = "stopSet"
    /\ pstate' = [pstate EXCEPT ![tgt[Main]] = "stop"]
    /\ Goto(Main, "stopNotify")
    /\ UNCHANGED <<sched, notidied, queueVars, localVars, fiberVars, callVars>>

StopNotify ==
    /\ pc[Main] = "stopNotify"
    /\ IF tgt[Main] < N
       THEN /\ NotifyProcesser(Main, tgt[Main], "stopSet")
            /\ tgt' = [tgt EXCEPT ![Main] = @ + 1]
       ELSE /\ NotifyProcesser(Main, tgt[Main], "join")
            /\ tgt' = [tgt EXCEPT ![Main] = 1]
    /\ UNCHANGED <<sched, pstate, queueVars, localVars, fiberVars, rr, robin,
                   arg>>

\* The processers' threads have ended; stop and wake the poller.
Join ==
    /\ pc[Main] = "join"
    /\ \A p \in Procs : pc[p] = "exit"
    /\ Goto(Main, "joinPoller")
    /\ UNCHANGED <<stateVars, queueVars, localVars, fiberVars, callVars>>

\* The poller's thread has ended; the processers are deleted.
JoinPoller ==
    /\ pc[Main] = "joinPoller"
    /\ pc[Poller] = "exit"
    /\ sched' = "done"
    /\ Goto(Main, "exit")
    /\ UNCHANGED <<pstate, notidied, queueVars, localVars, fiberVars,
                   callVars>>

StopStep == StopSet \/ StopNotify \/ Join \/ JoinPoller

-----------------------------------------------------------------------------
(* Poller::networkPoller, as far as it adds fibers *)

\* stopping() && m_sche->isStopping(): stop() stores the poller's state after
\* it has joined the processers.
PollStopping == sched = "stop" /\ pc[Main] = "joinPoller"

PollExit ==
    /\ pc[Poller] = "poll"
    /\ PollStopping
    /\ Goto(Poller, "exit")
    /\ UNCHANGED <<stateVars, queueVars, localVars, fiberVars, callVars>>

\* The timer's task or the event's callback is taken out once.
\* Mutant: it stays.
ExpireKept(f) == armed' = armed
Expire(f) == armed' = armed \ {f}

\* An expired timer or a ready event: createFiber of its callback.
Deliver(f, w) ==
    /\ pc[Poller] = "poll"
    /\ ~PollStopping
    /\ f \in armed
    /\ Expire(f)
    /\ wakes' = [wakes EXCEPT ![w] = f]
    /\ Create(Poller, w)
    /\ UNCHANGED <<stateVars, queueVars, localVars, fproc, moves, rr, robin,
                   tgt>>

PollStep == PollExit \/ \E f \in Tasks, w \in Wakers : Deliver(f, w)

-----------------------------------------------------------------------------

\* The whole process has ended.
Ended == pc[Main] = "exit" /\ UNCHANGED vars

Next ==
    \/ \E t \in Threads : AddStep(t)
    \/ \E p \in Procs : ProcStep(p) \/ SpuriousWake(p) \/ BodyStep(p)
    \/ \E f \in Tasks : MainCreate(f)
    \/ MainStop \/ StopStep
    \/ PollStep
    \/ Ended

\* The operating system runs every thread that can take a step, and a mutex is
\* not refused for ever to a thread that waits for it in notify().  Nothing
\* makes the owner create a fiber or stop, nor a wait end by itself.
Fairness ==
    /\ \A t \in Threads : WF_vars(AddStep(t)) /\ SF_vars(Notify(t))
    /\ \A p \in Procs : WF_vars(ProcStep(p)) /\ WF_vars(BodyStep(p))
    /\ WF_vars(StopStep) /\ SF_vars(StopNotify)
    /\ WF_vars(PollStep)

Spec == Init /\ [][Next]_vars
FairSpec == Spec /\ Fairness

-----------------------------------------------------------------------------
(* Safety *)

\* p has switched to f and not yet looked at its state after the switch back.
Executes(p, f) == cur[p] = f /\ pc[p] # "dispatch"

\* Threads of the parts of addFiber that still own their fiber: it is in no
\* queue yet.
Carries(t, f) ==
    arg[t] = f /\ pc[t] \in {"own", "scan", "check", "push", "write"}

Places(q, f) == {i \in 1..Len(q) : q[i] = f}

\* Everything that will, without a further wake-up, make some processer run f.
Tickets(f) ==
    (UNION {{"new"} \X {p} \X Places(newQueue[p], f) : p \in Procs})
    \cup {<<"stray", p, 0>> : p \in {q \in Procs : f \in stray[q]}}
    \cup (UNION {{"runable"} \X {p} \X Places(runable[p], f) : p \in Procs})
    \cup {<<"dispatch", p, 0>> :
              p \in {q \in Procs : cur[q] = f /\ pc[q] = "dispatch"}}
    \cup {<<"carried", t, 0>> : t \in {u \in Threads : Carries(u, f)}}
    \cup {<<"armed", 0, 0>> : x \in {f} \cap armed}
    \cup {<<"waker", 0, v>> : v \in {u \in Fibers : wakes[u] = f}}

\* Two processers never run the same fiber at once: the stack of a fiber that
\* was woken between its Arm and its Yield is still in use by its own
\* processer.  It rests on addFiber preferring the running processer of fb
\* (scheduler.cc:65) and on the scheduler stopping before its processers do.
OneRunner ==
    \A f \in Fibers : \A p, q \in Procs :
        Executes(p, f) /\ Executes(q, f) => p = q

\* A fiber is pending in at most one place, so no wake-up resumes it twice;
\* one that has ended is pending nowhere, so its dead stack is never resumed;
\* and one being run is pending only when it has armed its own wake-up.
SingleTicket ==
    \A f \in Fibers :
        /\ Cardinality(Tickets(f)) <= 1
        /\ fstate[f] \in {"free", "done"} => Tickets(f) = {}
        /\ \A p \in Procs :
             Executes(p, f) /\ Tickets(f) # {} =>
                \/ pc[p] = "armed"
                \/ pc[p] = "switch" /\ fstate[f] = "block"

\* Until the scheduler stops, and as long as no two pushes into the same newQueue
\* overlap (processer.cc:70), no fiber is lost: one that has been created and has
\* not ended is being run or is pending (processer.cc's queues, the poller's
\* timers and the fibers in flight between threads account for all of them).
NothingLost ==
    sched = "running" /\ overlapped = {} =>
        \A f \in Fibers : fstate[f] \in {"running", "block"} =>
            Tickets(f) # {} \/ \E p \in Procs : Executes(p, f)

\* m_newfiberCount is the length of newQueue but for the adders between their
\* push and their fetch_add, as long as no two pushes into that newQueue overlap:
\* getNewFibers never pops an empty queue and leaves no counted fiber behind
\* (processer.cc:70, 188-195).
Pushing(p) == {t \in Threads : pc[t] = "count" /\ tgt[t] = p}
CountMatches ==
    \A p \in Procs \ overlapped :
        Len(newQueue[p]) = newCount[p] + Cardinality(Pushing(p))

\* A processer on its way into the wait, or in it, with fibers counted in its
\* newQueue has its flag up or an adder on the way to raise it: the resets of
\* the unlocked flag in idle() lose no fiber.
AtIdle == {"idle", "idleTest", "idleState", "idleCheck", "idleWait", "waiting",
           "woken"}
WillFlag(p) == \E t \in Threads :
                  pc[t] \in {"peek", "flag", "flagNotify"} /\ tgt[t] = p
WorkIsFlagged ==
    \A p \in Procs :
        pc[p] \in AtIdle /\ newCount[p] > 0 => notidied[p] \/ WillFlag(p)

-----------------------------------------------------------------------------
(* Refinement: the scheduler implements FiberPool *)

Promised(f) ==
    \/ f \in armed
    \/ \E v \in Fibers : wakes[v] = f
    \/ \E t \in Threads : Carries(t, f)

Queued(f) ==
    \E p \in Procs :
        \/ cur[p] = f /\ pc[p] = "dispatch"
        \/ \E i \in 1..Len(newQueue[p]) : newQueue[p][i] = f
        \/ f \in stray[p]
        \/ \E i \in 1..Len(runable[p]) : runable[p][i] = f

Runner(f) == IF \E p \in Procs : Executes(p, f)
             THEN CHOOSE p \in Procs : Executes(p, f) ELSE NoProc

Life(f) == CASE fstate[f] = "free" -> "new"
             [] fstate[f] = "done" /\ ~\E p \in Procs : Executes(p, f) -> "done"
             [] OTHER -> "live"

Pool == INSTANCE FiberPool WITH
    life   <- [f \in Fibers |-> Life(f)],
    ticket <- [f \in Fibers |-> IF Queued(f) THEN "queued"
                                ELSE IF Promised(f) THEN "promised" ELSE "none"],
    runner <- [f \in Fibers |-> Runner(f)]

\* Every step of the threads is a step of the pool or none: no wake-up is
\* duplicated, none is spent twice, no fiber is resumed while its stack is in
\* use or after it has ended (scheduler.cc:60-99, processer.cc:113-174).
PoolSpec == Pool!Spec

-----------------------------------------------------------------------------
(* Liveness *)

\* ~Scheduler ends every processer's thread: wherever a thread is in its loop,
\* its idle or its fiber when stop() walks the processers, it sees the stop
\* (scheduler.cc:119-139).  What it cannot end is a fiber that spins for ever in
\* newQueue.push.
StopEndsProcessers ==
    \A p \in Procs :
        \/ sched = "stop" ~> pc[p] = "exit"
        \/ <>[](pc[p] = "push")

\* p's newQueue is full, and p does not empty it: it is on its way into its wait
\* or in it, has ended, or is itself inside addFiber.
Clogged(p) ==
    /\ Len(newQueue[p]) = Capacity
    /\ pc[p] \in AtIdle \cup Adding \cup {"exit"}

\* addFiber returns, unless it spins for ever at the full newQueue of a processer
\* that will not empty it (processer.cc:70): neither notify()'s mutex nor a
\* processer that is at work holds an adder up for ever.
AddFiberReturns ==
    \A t \in Threads :
        \/ []<>(pc[t] \notin Adding)
        \/ <>[](pc[t] = "push" /\ Clogged(tgt[t]))

\* scheduler.cc:61-62: a fiber put on a processer will soon be run, unless the
\* scheduler stops.
QueuedFiberRuns ==
    \A p \in Procs : newQueue[p] # <<>> ~> newQueue[p] = <<>> \/ sched # "running"
=============================================================================
