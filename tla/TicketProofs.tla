---------------------------- MODULE TicketProofs ----------------------------
(***************************************************************************)
(* Proofs about Scheduler, for any number of processers and fibers, of     *)
(* what is said of a fiber's tickets: it has one at most, it is run by one *)
(* processer at most, and it is lost only by a stop.                       *)
(*                                                                         *)
(* The first part follows the tickets between the queues, the threads'     *)
(* hands, the poller and the waker fibers: one lemma for every step that   *)
(* moves one, and one for all those that do not.  The second is the        *)
(* inductive invariant.  The last one shows, with it, that the scheduler   *)
(* implements FiberPool.                                                   *)
(***************************************************************************)
EXTENDS SchedulerProofs

-----------------------------------------------------------------------------
(* The places a ticket can be in *)

InNew(f, p, i) == p \in Procs /\ i \in 1..Len(newQueue[p]) /\ newQueue[p][i] = f
InRunable(f, p, i) == p \in Procs /\ i \in 1..Len(runable[p]) /\ runable[p][i] = f
InStray(f, p) == p \in Procs /\ f \in stray[p]
AtDispatch(f, p) == p \in Procs /\ cur[p] = f /\ pc[p] = "dispatch"
InHands(f, t) == t \in Threads /\ Carries(t, f)
WithWaker(f, v) == v \in Fibers /\ wakes[v] = f

Tick(f, k, a, i) ==
    \/ k = "new" /\ InNew(f, a, i)
    \/ k = "stray" /\ InStray(f, a) /\ i = 0
    \/ k = "runable" /\ InRunable(f, a, i)
    \/ k = "dispatch" /\ AtDispatch(f, a) /\ i = 0
    \/ k = "carried" /\ InHands(f, a) /\ i = 0
    \/ k = "armed" /\ f \in armed /\ a = 0 /\ i = 0
    \/ k = "waker" /\ a = 0 /\ WithWaker(f, i)

\* The seven kinds of tickets, one by one.
LEMMA TicketKinds ==
    \A f, x : x \in Tickets(f) <=>
        \/ \E p, i : x = <<"new", p, i>> /\ InNew(f, p, i)
        \/ \E p : x = <<"stray", p, 0>> /\ InStray(f, p)
        \/ \E p, i : x = <<"runable", p, i>> /\ InRunable(f, p, i)
        \/ \E p : x = <<"dispatch", p, 0>> /\ AtDispatch(f, p)
        \/ \E t : x = <<"carried", t, 0>> /\ InHands(f, t)
        \/ x = <<"armed", 0, 0>> /\ f \in armed
        \/ \E v : x = <<"waker", 0, v>> /\ WithWaker(f, v)
BY DEF Tickets, InNew, InStray, InRunable, AtDispatch, InHands, WithWaker, Places

TicketForm ==
    \A f : /\ \A k, a, i : <<k, a, i>> \in Tickets(f) <=> Tick(f, k, a, i)
           /\ \A x \in Tickets(f) : x = <<x[1], x[2], x[3]>>

\* The set of a fiber's tickets, its emptiness and its parts in terms of Tick.
LEMMA TicketsAreTicks == TicketForm
<1> SUFFICES ASSUME NEW f
             PROVE  /\ \A k, a, i : <<k, a, i>> \in Tickets(f) <=> Tick(f, k, a, i)
                    /\ \A x \in Tickets(f) : x = <<x[1], x[2], x[3]>>
  BY DEF TicketForm
<1>1. \A x \in Tickets(f) : x = <<x[1], x[2], x[3]>>
  BY TicketKinds
<1>2. \A k, a, i : <<k, a, i>> \in Tickets(f) <=> Tick(f, k, a, i)
  BY TicketKinds DEF Tick
<1> QED BY <1>1, <1>2

\* The same after a step.
LEMMA TicketsAreTicksNext == TicketForm'
BY TicketsAreTicks, PTL

-----------------------------------------------------------------------------
(* How a step moves tickets *)

CarryPCs == {"own", "scan", "check", "push", "write"}

\* A step that moves no ticket.
SameHands(t) == /\ pc'[t] \in CarryPCs <=> pc[t] \in CarryPCs
                /\ pc[t] \in CarryPCs => arg'[t] = arg[t]
SameDispatch(p) == /\ pc'[p] = "dispatch" <=> pc[p] = "dispatch"
                   /\ pc[p] = "dispatch" => cur'[p] = cur[p]
Quiet ==
    /\ UNCHANGED <<newQueue, stray, runable, wakes, armed>>
    /\ \A t \in Threads : SameHands(t)
    /\ \A p \in Procs : SameDispatch(p)

\* Which variables each kind of ticket depends on.
LEMMA SameTick ==
    ASSUME NEW f, NEW a, NEW i
    PROVE  /\ newQueue' = newQueue => (InNew(f, a, i)' <=> InNew(f, a, i))
           /\ stray' = stray => (InStray(f, a)' <=> InStray(f, a))
           /\ runable' = runable => (InRunable(f, a, i)' <=> InRunable(f, a, i))
           /\ (\A p \in Procs : SameDispatch(p)) =>
                (AtDispatch(f, a)' <=> AtDispatch(f, a))
           /\ (\A t \in Threads : SameHands(t)) => (InHands(f, a)' <=> InHands(f, a))
           /\ wakes' = wakes => (WithWaker(f, i)' <=> WithWaker(f, i))
<1>1. newQueue' = newQueue => (InNew(f, a, i)' <=> InNew(f, a, i))
  BY DEF InNew
<1>2. runable' = runable => (InRunable(f, a, i)' <=> InRunable(f, a, i))
  BY DEF InRunable
<1>3. (\A p \in Procs : SameDispatch(p)) => (AtDispatch(f, a)' <=> AtDispatch(f, a))
  BY DEF AtDispatch, SameDispatch
<1>4. (\A t \in Threads : SameHands(t)) => (InHands(f, a)' <=> InHands(f, a))
  BY DEF InHands, SameHands, Carries, CarryPCs
<1>5. wakes' = wakes => (WithWaker(f, i)' <=> WithWaker(f, i))
  BY DEF WithWaker
<1>6. stray' = stray => (InStray(f, a)' <=> InStray(f, a))
  BY DEF InStray
<1> QED BY <1>1, <1>2, <1>3, <1>4, <1>5, <1>6

\* A quiet step moves no ticket.
LEMMA TickQuiet ==
    ASSUME Quiet, NEW f, NEW k, NEW a, NEW i
    PROVE  Tick(f, k, a, i)' <=> Tick(f, k, a, i)
BY SameTick DEF Quiet, Tick

\* What a thread that keeps its fiber does with it.
MovesOn(t) ==
    pc[t] \in CarryPCs =>
        \/ pc'[t] = pc[t] /\ tgt'[t] = tgt[t]
        \/ pc[t] = "own" /\ TryOwn(t)
        \/ pc[t] = "scan"
        \/ pc[t] = "check" /\ pc'[t] = "push" /\ tgt'[t] = tgt[t]
        \/ pc[t] = "push" /\ pc'[t] = "write" /\ tgt'[t] = tgt[t]

Dropping(t) == CheckStopped(t) /\ pstate[tgt[t]] = "stop"
Taking(p) == Loop(p) /\ sched # "stop" /\ runable[p] # <<>>
PuttingBack(p) == SwitchOut(p) /\ fstate[cur[p]] = "running"

\* In addFiber only a push's two writes and the drop move a ticket.
LEMMA AddQuiet ==
    ASSUME TypeInv, NEW t \in Threads, AddStep(t), ~PushWrite(t), ~PushStore(t),
           ~Dropping(t)
    PROVE  Quiet /\ \A u \in Threads : MovesOn(u)
<1> USE ThreadFacts
    DEF TypeInv, TypeOK, PcTypes, CallTypes, QueueTypes, Goto, Leave, stateVars,
        queueVars, localVars, fiberVars, callVars, Quiet, SameHands, SameDispatch,
        MovesOn, CarryPCs
<1>0. AfterAdd(t) \notin CarryPCs \cup {"dispatch"} /\ Home(t) \notin CarryPCs \cup {"dispatch"}
  BY DEF AfterAdd, Home
<1>1. CASE TryOwn(t)
  <2>1. /\ UNCHANGED <<newQueue, stray, runable, wakes, armed, cur, arg>>
        /\ pc[t] = "own" /\ pc'[t] \in {"check", "scan"}
        /\ \A u \in Threads \ {t} : pc'[u] = pc[u] /\ tgt'[u] = tgt[u]
    BY <1>1 DEF TryOwn
  <2> QED BY <1>1, <2>1
<1>5. CASE Scan(t)
  <2>1. /\ UNCHANGED <<newQueue, stray, runable, wakes, armed, cur, arg>>
        /\ pc[t] = "scan" /\ pc'[t] \in {"check", "scan"}
        /\ \A u \in Threads \ {t} : pc'[u] = pc[u] /\ tgt'[u] = tgt[u]
    BY <1>5 DEF Scan
  <2> QED BY <2>1
<1>2. CASE Rotate(t) \/ Flag(t) \/ Count(t) \/ Peek(t)
  BY <1>0, <1>2 DEF Rotate, Flag, Count, Peek
<1>3. CASE CheckStopped(t)
  <2>1. /\ UNCHANGED <<newQueue, stray, runable, wakes, armed, cur, arg, tgt>>
        /\ pc[t] = "check" /\ pc'[t] = "push"
        /\ \A u \in Threads \ {t} : pc'[u] = pc[u]
    BY <1>3 DEF CheckStopped, Dropping
  <2> QED BY <2>1
<1>4. CASE Notify(t)
  BY <1>0, <1>4 DEF Notify, NotifyProcesser
<1>6. CASE PushTest(t)
  <2>1. /\ UNCHANGED <<newQueue, stray, runable, wakes, armed, cur, arg, tgt>>
        /\ pc[t] = "push" /\ pc'[t] = "write"
        /\ \A u \in Threads \ {t} : pc'[u] = pc[u]
    BY <1>6 DEF PushTest
  <2> QED BY <2>1
<1> QED BY <1>1, <1>2, <1>3, <1>4, <1>5, <1>6 DEF AddStep

\* In a processer's loop only taking, refilling, dispatching and putting back move one.
LEMMA ProcQuiet ==
    ASSUME TypeInv, NEW p \in Procs, ProcStep(p) \/ SpuriousWake(p),
           ~Taking(p), ~Refill(p), ~Dispatch(p), ~PuttingBack(p)
    PROVE  Quiet /\ \A u \in Threads : MovesOn(u)
<1> USE ThreadFacts
    DEF TypeInv, TypeOK, PcTypes, LocalTypes, Goto, stateVars,
        queueVars, localVars, fiberVars, callVars, Quiet, SameHands, SameDispatch,
        MovesOn, CarryPCs
<1>1. CASE Loop(p)
  BY <1>1 DEF Loop, Taking
<1>2. CASE SwitchOut(p)
  BY <1>2 DEF SwitchOut, PuttingBack
<1>3. CASE \/ Start(p) \/ IdleLock(p) \/ IdleTest(p) \/ IdleReset(p)
           \/ IdleState(p) \/ IdleCheck(p) \/ IdleWait(p) \/ SpuriousWake(p)
  BY <1>3 DEF Start, IdleLock, IdleTest, IdleReset, IdleState, IdleCheck, IdleWait,
              SpuriousWake
<1> QED BY <1>1, <1>2, <1>3 DEF ProcStep

\* A fiber that reschedules itself, ends or yields moves no ticket yet.
LEMMA BodyQuiet ==
    ASSUME TypeInv, NEW p \in Procs, NEW f,
           Reschedule(p, f) \/ Finish(p, f) \/ Yield(p)
    PROVE  Quiet /\ \A u \in Threads : MovesOn(u)
BY ThreadFacts
DEF TypeInv, TypeOK, PcTypes, Goto, stateVars, queueVars, localVars, fiberVars,
    callVars, Quiet, SameHands, SameDispatch, MovesOn, CarryPCs,
    Reschedule, Running, Finish, Yield

\* The owner's stop and the poller's exit move no ticket.
LEMMA OwnerQuiet ==
    ASSUME TypeInv, MainStop \/ StopStep \/ PollExit
    PROVE  Quiet /\ \A u \in Threads : MovesOn(u)
<1> USE ThreadFacts
    DEF TypeInv, TypeOK, PcTypes, CallTypes, Goto, stateVars,
        queueVars, localVars, fiberVars, callVars, Quiet, SameHands, SameDispatch,
        MovesOn, CarryPCs
<1>1. CASE MainStop \/ StopSet \/ Join \/ JoinPoller \/ PollExit
  BY <1>1 DEF MainStop, StopSet, Join, JoinPoller, PollExit
<1>2. CASE StopNotify
  <2>1. CASE tgt[Main] < N
    BY <1>2, <2>1 DEF StopNotify, NotifyProcesser
  <2>2. CASE ~(tgt[Main] < N)
    BY <1>2, <2>2 DEF StopNotify, NotifyProcesser
  <2> QED BY <2>1, <2>2
<1> QED BY <1>1, <1>2 DEF StopStep

\* Threads whose hands a step of t leaves alone.
LEMMA OtherHands ==
    ASSUME NEW f, NEW t, NEW a, a # t => SameHands(a)
    PROVE  InHands(f, a)' <=> \/ InHands(f, a) /\ a # t
                              \/ InHands(f, a)' /\ a = t
BY DEF InHands, SameHands, Carries, CarryPCs

\* A fiber is in p's ring: in the queue, or in a slot outside it.
RingTick(f, p, k, i) == k \in {"new", "stray"} /\ Tick(f, k, p, i)

\* t's write moves the ticket of the fiber in its hands to j of l in the ring, where
\* it displaces g, unless g is the null pointer.
Writes(t, g, l, j) ==
    /\ l \in {"new", "stray"}
    /\ g # NoFiber => Tick(g, l, tgt[t], j) /\ tgt[t] \in overlapped
    /\ \A f \in Fibers : \A k, a, i :
         Tick(f, k, a, i)' <=>
             \/ /\ Tick(f, k, a, i)
                /\ ~(k = "carried" /\ a = t)
                /\ ~(f = g /\ k = l /\ a = tgt[t] /\ i = j)
             \/ f = arg[t] /\ k = l /\ a = tgt[t] /\ i = j

\* The first half of a push is such a write.
LEMMA TickWrite ==
    ASSUME TypeInv, NEW t \in Threads, PushWrite(t)
    PROVE  \E g, l, j : Writes(t, g, l, j)
<1> USE ThreadFacts
<1> DEFINE p == tgt[t]
           q == newQueue[p]
           Moved(g, l, j) ==
             \A f \in Fibers : \A a, i :
                /\ InNew(f, a, i)' <=>
                     \/ InNew(f, a, i) /\ ~(f = g /\ l = "new" /\ a = p /\ i = j)
                     \/ f = arg[t] /\ l = "new" /\ a = p /\ i = j
                /\ InStray(f, a)' /\ i = 0 <=>
                     \/ InStray(f, a) /\ i = 0 /\ ~(f = g /\ l = "stray" /\ a = p /\ i = j)
                     \/ f = arg[t] /\ l = "stray" /\ a = p /\ i = j
<1>0. /\ p \in Procs /\ q \in Seq(Ptrs)
      /\ newQueue \in [Procs -> Seq(Ptrs)] /\ stray \in [Procs -> SUBSET Ptrs]
      /\ UNCHANGED <<runable, wakes, armed, cur>>
      /\ \A u \in Threads : u # t => pc'[u] = pc[u] /\ arg'[u] = arg[u]
      /\ pc[t] = "write" /\ pc'[t] = "store"
  BY DEF PushWrite, TypeInv, TypeOK, QueueTypes, CallTypes, PcTypes, Goto, localVars, fiberVars
<1>1. \A f, a : InHands(f, a)' <=> InHands(f, a) /\ a # t
  BY <1>0 DEF InHands, Carries
<1>2. \A r \in Procs : SameDispatch(r)
  BY <1>0 DEF SameDispatch
<1>3. ASSUME NEW g, NEW l, l \in {"new", "stray"}, NEW j,
             g # NoFiber => Tick(g, l, p, j) /\ p \in overlapped, Moved(g, l, j)
      PROVE  \E h, m, x : Writes(t, h, m, x)
  <2>1. ASSUME NEW f \in Fibers, NEW k, NEW a, NEW i
        PROVE  Tick(f, k, a, i)' <=>
                   \/ /\ Tick(f, k, a, i)
                      /\ ~(k = "carried" /\ a = t)
                      /\ ~(f = g /\ k = l /\ a = p /\ i = j)
                   \/ f = arg[t] /\ k = l /\ a = p /\ i = j
    BY <1>0, <1>1, <1>2, <1>3, SameTick DEF Tick
  <2>2. Writes(t, g, l, j)
    BY <1>3, <2>1 DEF Writes
  <2> QED BY <2>2
<1>4. CASE WriteFree(p, arg[t])
  <2>1. \A f \in Fibers : f # NoFiber
    BY FiberAssumption DEF Fibers
  <2>2. \A f, a : InStray(f, a)' <=> InStray(f, a) \/ (f = arg[t] /\ a = p)
    BY <1>0, <1>4 DEF WriteFree, InStray
  <2>3. \A f, a, i : InNew(f, a, i)' <=> InNew(f, a, i)
    BY <1>4 DEF WriteFree, InNew
  <2> HIDE DEF p, q
  <2>4. Moved(NoFiber, "stray", 0)
    BY <2>1, <2>2, <2>3
  <2> HIDE DEF Moved
  <2> QED BY <1>3, <2>4
<1>5. ASSUME p \in overlapped, NEW g \in stray[p],
             stray' = [stray EXCEPT ![p] = (@ \ {g}) \cup {arg[t]}],
             UNCHANGED newQueue
      PROVE  \E h, m, x : Writes(t, h, m, x)
  <2>1. \A f, a : InStray(f, a)' <=>
            \/ InStray(f, a) /\ ~(f = g /\ a = p)
            \/ f = arg[t] /\ a = p
    BY <1>0, <1>5 DEF InStray
  <2>2. \A f, a, i : InNew(f, a, i)' <=> InNew(f, a, i)
    BY <1>5 DEF InNew
  <2>3. Tick(g, "stray", p, 0)
    BY <1>0, <1>5 DEF Tick, InStray
  <2> HIDE DEF p, q
  <2>4. Moved(g, "stray", 0)
    BY <2>1, <2>2
  <2> HIDE DEF Moved
  <2> QED BY <1>3, <1>5, <2>3, <2>4
<1>6. ASSUME p \in overlapped, NEW n \in 1..Len(q),
             newQueue' = [newQueue EXCEPT ![p] = [@ EXCEPT ![n] = arg[t]]],
             UNCHANGED stray
      PROVE  \E h, m, x : Writes(t, h, m, x)
  <2>1. \A f, a : InStray(f, a)' <=> InStray(f, a)
    BY <1>6 DEF InStray
  <2>2. /\ newQueue'[p] = [q EXCEPT ![n] = arg[t]]
        /\ \A r \in Procs : r # p => newQueue'[r] = newQueue[r]
    BY <1>0, <1>6
  <2>3. /\ Len(newQueue'[p]) = Len(q)
        /\ \A i \in 1..Len(q) : newQueue'[p][i] = IF i = n THEN arg[t] ELSE q[i]
    BY <1>0, <2>2
  <2>4. \A f, a, i : InNew(f, a, i)' <=>
            \/ InNew(f, a, i) /\ ~(f = q[n] /\ a = p /\ i = n)
            \/ f = arg[t] /\ a = p /\ i = n
    <3> SUFFICES ASSUME NEW f, NEW a, NEW i
                 PROVE  InNew(f, a, i)' <=>
                            \/ InNew(f, a, i) /\ ~(f = q[n] /\ a = p /\ i = n)
                            \/ f = arg[t] /\ a = p /\ i = n
      OBVIOUS
    <3>1. CASE a = p
      <4>1. InNew(f, a, i)' <=> i \in 1..Len(q) /\ newQueue'[p][i] = f
        BY <1>0, <2>3, <3>1 DEF InNew
      <4>2. InNew(f, a, i) <=> i \in 1..Len(q) /\ q[i] = f
        BY <1>0, <3>1 DEF InNew
      <4> QED BY <1>6, <2>3, <3>1, <4>1, <4>2
    <3>2. CASE a # p
      BY <2>2, <3>2 DEF InNew
    <3> QED BY <3>1, <3>2
  <2>5. Tick(q[n], "new", p, n)
    BY <1>0, <1>6 DEF Tick, InNew
  <2>6. PICK g : g = q[n]
    OBVIOUS
  <2> HIDE DEF p, q
  <2>7. Moved(g, "new", n)
    BY <2>1, <2>4, <2>6
  <2> HIDE DEF Moved
  <2> QED BY <1>3, <1>6, <2>5, <2>6, <2>7
<1>7. CASE WriteOver(p, arg[t])
  BY <1>5, <1>6, <1>7 DEF WriteOver
<1> QED BY <1>4, <1>7 DEF PushWrite

\* The second half of a push moves fibers within p's ring: each is in it once, if it
\* was.
Stores(f, p) ==
    /\ \A k, a, i : (k \in {"new", "stray"} => a # p) =>
                        (Tick(f, k, a, i)' <=> Tick(f, k, a, i))
    /\ (\E k, i : RingTick(f, p, k, i)') <=> \E k, i : RingTick(f, p, k, i)
    /\ (\A k, l, i, j : RingTick(f, p, k, i) /\ RingTick(f, p, l, j) => k = l /\ i = j)
         => \A k, l, i, j : RingTick(f, p, k, i)' /\ RingTick(f, p, l, j)' => k = l /\ i = j

\* What Append puts where.
LEMMA AppendAt ==
    ASSUME NEW S, NEW q \in Seq(S), NEW e \in S, NEW f
    PROVE  \A j : j \in 1..Len(Append(q, e)) /\ Append(q, e)[j] = f <=>
                      \/ j \in 1..Len(q) /\ q[j] = f
                      \/ j = Len(q) + 1 /\ f = e
<1>1. Len(q) \in Nat
  OBVIOUS
<1>2. Len(Append(q, e)) = Len(q) + 1 /\ Append(q, e)[Len(q) + 1] = e
  OBVIOUS
<1>3. \A j \in 1..Len(q) : Append(q, e)[j] = q[j]
  OBVIOUS
<1>4. \A j : j \in 1..(Len(q) + 1) <=> j \in 1..Len(q) \/ j = Len(q) + 1
  BY <1>1
<1>5. Len(q) + 1 \notin 1..Len(q)
  BY <1>1
<1> QED BY <1>2, <1>3, <1>4, <1>5

\* What a fiber's ring ticks are, before a step and after it.
LEMMA RingIs ==
    ASSUME NEW f, NEW p \in Procs, NEW k, NEW i
    PROVE  /\ RingTick(f, p, k, i) <=>
                \/ k = "new" /\ i \in 1..Len(newQueue[p]) /\ newQueue[p][i] = f
                \/ k = "stray" /\ i = 0 /\ f \in stray[p]
           /\ RingTick(f, p, k, i)' <=>
                \/ k = "new" /\ i \in 1..Len(newQueue'[p]) /\ newQueue'[p][i] = f
                \/ k = "stray" /\ i = 0 /\ f \in stray'[p]
BY DEF RingTick, Tick, InNew, InStray

\* After an overlap the stored index may be any.
LEMMA TickStoreAny ==
    ASSUME TypeInv, NEW p \in Procs, StoreAny(p), NEW f \in Fibers
    PROVE  /\ (\E k, i : RingTick(f, p, k, i)') <=> \E k, i : RingTick(f, p, k, i)
           /\ \A k, l, i, j : RingTick(f, p, k, i)' /\ RingTick(f, p, l, j)' => k = l /\ i = j
<1>0. f # NoFiber
  BY FiberAssumption DEF Fibers
<1>1. PICK q \in Windows(p) : /\ newQueue' = [newQueue EXCEPT ![p] = q]
                              /\ stray' = [stray EXCEPT ![p] = Slotted(p) \ {q[i] : i \in DOMAIN q}]
  BY DEF StoreAny
<1>2. /\ newQueue'[p] = q
      /\ stray'[p] = Slotted(p) \ {q[i] : i \in DOMAIN q}
  BY <1>1 DEF TypeInv, TypeOK, QueueTypes
<1>3. PICK n \in 0..Capacity : q \in [1..n -> Slotted(p) \cup {NoFiber}]
  BY DEF Windows
<1>4. DOMAIN q = 1..Len(q) /\ \A i \in 1..Len(q) : q[i] \in Slotted(p) \cup {NoFiber}
  <2>1. n \in Nat
    BY BoundAssumption
  <2> QED BY <1>3, <2>1
<1>5. \A i, j \in 1..Len(q) : q[i] = f /\ q[j] = f => i = j
  BY <1>0, <1>4 DEF Windows
<1>6. \A k, i : RingTick(f, p, k, i)' <=> \/ k = "new" /\ i \in 1..Len(q) /\ q[i] = f
                                          \/ /\ k = "stray" /\ i = 0 /\ f \in Slotted(p)
                                             /\ \A j \in 1..Len(q) : q[j] # f
  BY <1>2, <1>4, RingIs
<1>7. (\E k, i : RingTick(f, p, k, i)) <=> f \in Slotted(p)
  <2>1. f \in Slotted(p) <=> \/ f \in stray[p]
                             \/ \E i \in 1..Len(newQueue[p]) : newQueue[p][i] = f
    BY <1>0 DEF Slotted
  <2> QED BY <2>1, RingIs
<1>8. (\E k, i : RingTick(f, p, k, i)') <=> f \in Slotted(p)
  BY <1>0, <1>4, <1>6
<1> QED BY <1>5, <1>6, <1>7, <1>8

\* Without one, a slot goes to the end of the queue.
LEMMA TickStoreNext ==
    ASSUME TypeInv, NEW p \in Procs, StoreNext(p), NEW f \in Fibers
    PROVE  /\ (\E k, i : RingTick(f, p, k, i)') <=> \E k, i : RingTick(f, p, k, i)
           /\ (\A k, l, i, j : RingTick(f, p, k, i) /\ RingTick(f, p, l, j) => k = l /\ i = j)
                => \A k, l, i, j : RingTick(f, p, k, i)' /\ RingTick(f, p, l, j)' => k = l /\ i = j
<1>1. PICK g \in stray[p] : /\ newQueue' = [newQueue EXCEPT ![p] = Append(@, g)]
                            /\ stray' = [stray EXCEPT ![p] = @ \ {g}]
  BY DEF StoreNext
<1>2. newQueue[p] \in Seq(Ptrs) /\ stray[p] \subseteq Ptrs
  BY DEF TypeInv, TypeOK, QueueTypes
<1>3. newQueue'[p] = Append(newQueue[p], g) /\ stray'[p] = stray[p] \ {g}
  BY <1>1 DEF TypeInv, TypeOK, QueueTypes
<1>4. \A i : i \in 1..Len(newQueue'[p]) /\ newQueue'[p][i] = f <=>
                 \/ i \in 1..Len(newQueue[p]) /\ newQueue[p][i] = f
                 \/ i = Len(newQueue[p]) + 1 /\ f = g
  BY <1>2, <1>3, AppendAt
<1>5. PICK m : m = Len(newQueue[p]) + 1
  OBVIOUS
<1>6. \A k, i : RingTick(f, p, k, i)' <=> \/ RingTick(f, p, k, i) /\ (k = "stray" => f # g)
                                          \/ k = "new" /\ i = m /\ f = g
  BY <1>3, <1>4, <1>5, RingIs
<1>7. f = g => RingTick(f, p, "stray", 0)
  BY RingIs
<1>8. \A k, i : RingTick(f, p, k, i) => k \in {"new", "stray"}
  BY DEF RingTick
<1>9. CASE f = g
  <2>1. \E k, i : RingTick(f, p, k, i)'
    BY <1>6, <1>9
  <2>2. \E k, i : RingTick(f, p, k, i)
    BY <1>7, <1>9
  <2>3. ASSUME \A k, l, i, j : RingTick(f, p, k, i) /\ RingTick(f, p, l, j) => k = l /\ i = j
        PROVE  \A k, i : RingTick(f, p, k, i)' => k = "new" /\ i = m
    <3>1. \A k, i : RingTick(f, p, k, i) => k = "stray"
      BY <1>7, <1>9, <2>3
    <3> QED BY <1>6, <1>9, <3>1
  <2> QED BY <2>1, <2>2, <2>3
<1>10. CASE f # g
  <2>1. \A k, i : RingTick(f, p, k, i)' <=> RingTick(f, p, k, i)
    BY <1>6, <1>10
  <2> QED BY <2>1
<1> QED BY <1>9, <1>10

\* The second half of a push only moves fibers within the ring.
LEMMA TickStore ==
    ASSUME TypeInv, NEW t \in Threads, PushStore(t), NEW p \in Procs, p = tgt[t],
           NEW f \in Fibers
    PROVE  Stores(f, p)
<1> USE ThreadFacts
<1>1. /\ \A r \in Procs : r # p => newQueue'[r] = newQueue[r] /\ stray'[r] = stray[r]
      /\ UNCHANGED <<runable, wakes, armed, cur, arg>>
      /\ pc[t] = "store" /\ pc'[t] = "count"
      /\ \A u \in Threads : u # t => pc'[u] = pc[u]
  BY DEF PushStore, StoreAny, StoreNext, Goto, localVars, fiberVars, callVars, TypeInv,
     TypeOK, CallTypes, QueueTypes, PcTypes
<1>2. \A u \in Threads : SameHands(u)
  BY <1>1 DEF SameHands, CarryPCs
<1>3. \A r \in Procs : SameDispatch(r)
  BY <1>1 DEF SameDispatch
<1>4. ASSUME NEW k, NEW a, NEW i, k \in {"new", "stray"} => a # p
      PROVE  Tick(f, k, a, i)' <=> Tick(f, k, a, i)
  <2>1. CASE k = "new"
    <3>1. InNew(f, a, i)' <=> InNew(f, a, i)
      BY <1>1, <1>4, <2>1 DEF InNew
    <3> QED BY <2>1, <3>1 DEF Tick
  <2>2. CASE k = "stray"
    <3>1. InStray(f, a)' <=> InStray(f, a)
      BY <1>1, <1>4, <2>2 DEF InStray
    <3> QED BY <2>2, <3>1 DEF Tick
  <2>3. CASE k \notin {"new", "stray"}
    BY <1>1, <1>2, <1>3, <2>3, SameTick DEF Tick
  <2> QED BY <2>1, <2>2, <2>3
<1>5. StoreAny(p) \/ StoreNext(p)
  BY DEF PushStore
<1>7. CASE StoreAny(p)
  BY <1>4, <1>7, TickStoreAny DEF Stores
<1>8. CASE StoreNext(p)
  BY <1>4, <1>8, TickStoreNext DEF Stores
<1> QED BY <1>5, <1>7, <1>8

\* The front of runableQueue becomes the fiber at hand.
LEMMA TickTaking ==
    ASSUME TypeInv, NEW p \in Procs, Taking(p), NEW f \in Fibers, NEW k, NEW a, NEW i
    PROVE  Tick(f, k, a, i)' <=>
               \/ Tick(f, k, a, i) /\ ~(k = "runable" /\ a = p)
               \/ k = "runable" /\ a = p /\ i \in Nat \ {0} /\ Tick(f, "runable", p, i + 1)
               \/ k = "dispatch" /\ a = p /\ i = 0 /\ Tick(f, "runable", p, 1)
<1> USE ThreadFacts
<1> DEFINE q == runable[p]
<1>0. /\ q \in Seq(Ptrs) /\ q # <<>>
      /\ \A r \in Procs \ {p} : runable'[r] = runable[r] /\ cur'[r] = cur[r]
      /\ runable'[p] = Tail(q) /\ cur'[p] = q[1]
      /\ UNCHANGED <<newQueue, stray, wakes, armed, arg>>
      /\ \A u \in Threads : u # p => pc'[u] = pc[u]
      /\ pc[p] = "loop" /\ pc'[p] = IF q[1] = NoFiber THEN "refill" ELSE "dispatch"
  BY DEF Taking, Loop, TypeInv, TypeOK, QueueTypes, LocalTypes, PcTypes, Goto,
         fiberVars, callVars
<1>1. InRunable(f, a, i)' <=> \/ InRunable(f, a, i) /\ a # p
                              \/ a = p /\ i \in Nat \ {0} /\ InRunable(f, p, i + 1)
  <2>1. CASE a = p
    <3>1. Len(Tail(q)) = Len(q) - 1 /\ Len(q) \in Nat \ {0}
      BY <1>0
    <3>2. \A j \in 1..(Len(q) - 1) : Tail(q)[j] = q[j + 1]
      BY <1>0
    <3>3. i \in 1..(Len(q) - 1) <=> i \in Nat \ {0} /\ i + 1 \in 1..Len(q)
      BY <3>1
    <3>4. InRunable(f, p, i)' <=> i \in 1..(Len(q) - 1) /\ Tail(q)[i] = f
      BY <1>0, <3>1 DEF InRunable
    <3>5. InRunable(f, p, i + 1) <=> i + 1 \in 1..Len(q) /\ q[i + 1] = f
      BY DEF InRunable
    <3> QED BY <2>1, <3>2, <3>3, <3>4, <3>5
  <2>2. CASE a # p
    BY <1>0, <2>2 DEF InRunable
  <2> QED BY <2>1, <2>2
<1>2. AtDispatch(f, a)' <=> AtDispatch(f, a) \/ (a = p /\ InRunable(f, p, 1))
  <2>1. 1 \in 1..Len(q)
    BY <1>0
  <2>2. f # NoFiber
    BY FiberAssumption DEF Fibers
  <2> QED BY <1>0, <2>1, <2>2 DEF AtDispatch, InRunable
<1>3. \A u \in Threads : SameHands(u)
  BY <1>0 DEF SameHands, CarryPCs
<1>4. ~AtDispatch(f, p)
  BY <1>0 DEF AtDispatch
<1> QED BY <1>0, <1>1, <1>2, <1>3, <1>4, SameTick DEF Tick

\* getNewFibers pops Taken(p) fibers off newQueue and puts them behind base.
Taken(p) == IF newCount[p] < Len(newQueue[p]) THEN newCount[p] ELSE Len(newQueue[p])

\* getNewFibers takes no more than newQueue holds.
LEMMA TakenType ==
    ASSUME TypeInv, NEW p \in Procs
    PROVE  /\ newQueue[p] \in Seq(Ptrs) /\ Len(newQueue[p]) \in Nat
           /\ Taken(p) \in 0..Len(newQueue[p])
BY DEF TypeInv, TypeOK, QueueTypes, Taken

\* getNewFibers leaves in newQueue what is behind the fibers it takes.
LEMMA InNewGet ==
    ASSUME TypeInv, NEW p \in Procs, NEW base, GetNewFibers(p, base),
           NEW f, NEW a, NEW i
    PROVE  InNew(f, a, i)' <=>
               \/ InNew(f, a, i) /\ a # p
               \/ a = p /\ i \in Nat \ {0} /\ InNew(f, p, i + Taken(p))
<1> DEFINE q == newQueue[p]
           n == Taken(p)
           m == Len(q)
<1>1. q \in Seq(Ptrs) /\ m \in Nat /\ n \in 0..m
  BY TakenType
<1>2. /\ newQueue'[p] = SubSeq(q, n + 1, m)
      /\ \A r \in Procs \ {p} : newQueue'[r] = newQueue[r]
  BY DEF GetNewFibers, Taken, TypeInv, TypeOK, QueueTypes
<1>3. CASE a = p
  <2> HIDE DEF q, n, m
  <2>1. /\ Len(SubSeq(q, n + 1, m)) = m - n
        /\ \A j \in 1..(m - n) : SubSeq(q, n + 1, m)[j] = q[j + n]
    <3>1. q \in Seq(Ptrs) /\ m = Len(q) /\ m \in Nat /\ n \in 0..m
      BY <1>1 DEF m
    <3> QED BY <3>1
  <2>2. i \in 1..(m - n) <=> i \in Nat \ {0} /\ i + n \in 1..m
    BY <1>1
  <2>3. InNew(f, p, i)' <=> i \in 1..(m - n) /\ SubSeq(q, n + 1, m)[i] = f
    BY <1>2, <2>1 DEF InNew
  <2>4. InNew(f, p, i + n) <=> i + n \in 1..m /\ q[i + n] = f
    BY DEF InNew, q, m
  <2>5. InNew(f, p, i)' <=> i \in Nat \ {0} /\ InNew(f, p, i + n)
    BY <2>1, <2>2, <2>3, <2>4
  <2> QED BY <1>3, <2>5 DEF n
<1>4. CASE a # p
  BY <1>2, <1>4 DEF InNew
<1> QED BY <1>3, <1>4

\* getNewFibers puts the fibers it takes behind the ones in runable.
LEMMA InRunableGet ==
    ASSUME TypeInv, NEW p \in Procs, NEW base \in Seq(Ptrs), GetNewFibers(p, base),
           NEW f, NEW a, NEW i
    PROVE  InRunable(f, a, i)' <=>
               \/ InRunable(f, a, i) /\ a # p
               \/ a = p /\ i \in 1..Len(base) /\ base[i] = f
               \/ /\ a = p /\ i \in Nat /\ i > Len(base)
                  /\ i - Len(base) \in 1..Taken(p)
                  /\ InNew(f, p, i - Len(base))
<1> DEFINE q == newQueue[p]
           n == Taken(p)
           b == Len(base)
           s == SubSeq(q, 1, n)
<1>1. q \in Seq(Ptrs) /\ Len(q) \in Nat /\ n \in 0..Len(q) /\ b \in Nat
  BY TakenType
<1>2. /\ runable'[p] = base \o s
      /\ \A r \in Procs \ {p} : runable'[r] = runable[r]
  BY DEF GetNewFibers, Taken, TypeInv, TypeOK, QueueTypes
<1>3. CASE a = p
  <2>1. s \in Seq(Ptrs) /\ Len(s) = n /\ \A j \in 1..n : s[j] = q[j]
    <3> HIDE DEF q, n
    <3> QED BY <1>1
  <2> HIDE DEF s, n, b
  <2>2. /\ Len(base \o s) = b + n
        /\ \A j \in 1..b : (base \o s)[j] = base[j]
        /\ \A j \in (b + 1)..(b + n) : (base \o s)[j] = s[j - b]
    BY <1>1, <2>1 DEF b
  <2>3. /\ i \in 1..(b + n) <=> i \in 1..b \/ i \in (b + 1)..(b + n)
        /\ i \in (b + 1)..(b + n) <=> i \in Nat /\ i > b /\ i - b \in 1..n
    BY <1>1
  <2>4. InRunable(f, p, i)' <=> i \in 1..(b + n) /\ (base \o s)[i] = f
    BY <1>2, <2>2 DEF InRunable
  <2>5. i - b \in 1..n => (InNew(f, p, i - b) <=> q[i - b] = f)
    BY <1>1 DEF InNew
  <2>6. InRunable(f, p, i)' <=>
            \/ i \in 1..b /\ base[i] = f
            \/ i \in Nat /\ i > b /\ i - b \in 1..n /\ InNew(f, p, i - b)
    <3>1. CASE i \in 1..b
      BY <1>1, <2>2, <2>3, <2>4, <3>1
    <3>2. CASE i \in (b + 1)..(b + n)
      <4>1. (base \o s)[i] = q[i - b] /\ i - b \in 1..n /\ i \notin 1..b
        BY <1>1, <2>1, <2>2, <2>3, <3>2
      <4> QED BY <2>3, <2>4, <2>5, <3>2, <4>1
    <3>3. CASE i \notin 1..b /\ i \notin (b + 1)..(b + n)
      BY <2>3, <2>4, <3>3
    <3> QED BY <3>1, <3>2, <3>3
  <2> QED BY <1>3, <2>6 DEF n, b
<1>4. CASE a # p
  BY <1>2, <1>4 DEF InRunable
<1> QED BY <1>3, <1>4

-----------------------------------------------------------------------------
(* What becomes of one fiber's tickets *)

One(f) == \A x, y \in Tickets(f) : x = y
Pending(f) == Tickets(f) # {}

OneForm(f) ==
    \A k, a, i, l, b, j :
        Tick(f, k, a, i) /\ Tick(f, l, b, j) => k = l /\ a = b /\ i = j
QueuedForm(f) ==
    \E a, i : \/ Tick(f, "new", a, i) \/ Tick(f, "stray", a, i)
             \/ Tick(f, "runable", a, i) \/ Tick(f, "dispatch", a, i)
PromisedForm(f) ==
    \E a, i : Tick(f, "carried", a, i) \/ Tick(f, "armed", a, i) \/ Tick(f, "waker", a, i)

Forms ==
    \A f : /\ One(f) <=> OneForm(f)
           /\ Queued(f) <=> QueuedForm(f)
           /\ Promised(f) <=> PromisedForm(f)
           /\ Pending(f) <=> Queued(f) \/ Promised(f)

\* One, Queued and Promised in terms of Tick.
LEMMA FormsNow == Forms
<1> SUFFICES ASSUME NEW f
             PROVE  /\ One(f) <=> OneForm(f)
                    /\ Queued(f) <=> QueuedForm(f)
                    /\ Promised(f) <=> PromisedForm(f)
                    /\ Pending(f) <=> Queued(f) \/ Promised(f)
  BY DEF Forms
<1>0. /\ \A k, a, i : <<k, a, i>> \in Tickets(f) <=> Tick(f, k, a, i)
      /\ \A x \in Tickets(f) : x = <<x[1], x[2], x[3]>>
  BY TicketsAreTicks DEF TicketForm
<1>1. One(f) <=> OneForm(f)
  <2>1. One(f) => OneForm(f)
    <3> SUFFICES ASSUME One(f), NEW k, NEW a, NEW i, NEW l, NEW b, NEW j,
                        Tick(f, k, a, i), Tick(f, l, b, j)
                 PROVE  k = l /\ a = b /\ i = j
      BY DEF OneForm
    <3>1. <<k, a, i>> = <<l, b, j>>
      BY <1>0 DEF One
    <3> QED BY <3>1
  <2>2. OneForm(f) => One(f)
    BY <1>0 DEF One, OneForm
  <2> QED BY <2>1, <2>2
<1>2. Queued(f) <=> QueuedForm(f)
  BY DEF Queued, QueuedForm, Tick, InNew, InStray, InRunable, AtDispatch
<1>3. Promised(f) <=> PromisedForm(f)
  BY DEF Promised, PromisedForm, Tick, InHands, WithWaker
<1>4. Pending(f) <=> Queued(f) \/ Promised(f)
  <2>1. \A k, a, i : Tick(f, k, a, i) =>
            k \in {"new", "stray", "runable", "dispatch", "carried", "armed", "waker"}
    BY DEF Tick
  <2>2. Pending(f) => QueuedForm(f) \/ PromisedForm(f)
    <3> SUFFICES ASSUME NEW x \in Tickets(f) PROVE QueuedForm(f) \/ PromisedForm(f)
      BY DEF Pending
    <3>1. Tick(f, x[1], x[2], x[3])
      BY <1>0
    <3> QED BY <2>1, <3>1 DEF QueuedForm, PromisedForm
  <2>3. ASSUME NEW k, NEW a, NEW i, Tick(f, k, a, i) PROVE Pending(f)
    BY <1>0, <2>3 DEF Pending
  <2>4. QueuedForm(f) \/ PromisedForm(f) => Pending(f)
    BY <2>3 DEF QueuedForm, PromisedForm
  <2> QED BY <1>2, <1>3, <2>2, <2>4
<1> QED BY <1>1, <1>2, <1>3, <1>4

\* The same after a step.
LEMMA FormsNext == Forms'
BY FormsNow, PTL

\* The same for one fiber, before a step and after it.
LEMMA FormsOf ==
    ASSUME NEW f
    PROVE  /\ One(f) <=> OneForm(f)
           /\ One(f)' <=> OneForm(f)'
           /\ Queued(f) <=> QueuedForm(f)
           /\ Queued(f)' <=> QueuedForm(f)'
           /\ Promised(f) <=> PromisedForm(f)
           /\ Promised(f)' <=> PromisedForm(f)'
           /\ Pending(f) <=> Queued(f) \/ Promised(f)
           /\ Pending(f)' <=> Queued(f)' \/ Promised(f)'
BY FormsNow, FormsNext DEF Forms

\* Where the ticks of a fiber stay, so do One, Queued and Promised.
LEMMA SameForms ==
    ASSUME NEW f, \A k, a, i : Tick(f, k, a, i)' <=> Tick(f, k, a, i)
    PROVE  /\ OneForm(f)' <=> OneForm(f)
           /\ QueuedForm(f)' <=> QueuedForm(f)
           /\ PromisedForm(f)' <=> PromisedForm(f)
<1>1. OneForm(f)' <=> OneForm(f)
  BY DEF OneForm
<1>2. QueuedForm(f)' <=> QueuedForm(f)
  BY DEF QueuedForm
<1>3. PromisedForm(f)' <=> PromisedForm(f)
  BY DEF PromisedForm
<1> QED BY <1>1, <1>2, <1>3

\* The fiber stays as pending as it was, in the same way; it may have moved.
Kept(f) == /\ One(f) => One(f)'
           /\ Queued(f)' <=> Queued(f)
           /\ Promised(f)' <=> Promised(f)

\* Where a ticket of f can have come from: it was there, or is at l of b, or was in
\* p's newQueue.
Shrinks(f) == \A k, a, i : Tick(f, k, a, i)' => Tick(f, k, a, i)
ShrinksOr(f, l, b) ==
    \A k, a, i : Tick(f, k, a, i)' => Tick(f, k, a, i) \/ (k = l /\ a = b)
Draws(f, p) ==
    \A k, a, i : Tick(f, k, a, i)' => Tick(f, k, a, i) \/ \E j : Tick(f, "new", p, j)

\* A quiet step keeps every fiber's tickets.
LEMMA KeptQuiet ==
    ASSUME Quiet, NEW f
    PROVE  Kept(f)
<1>1. \A k, a, i : Tick(f, k, a, i)' <=> Tick(f, k, a, i)
  BY TickQuiet
<1> QED BY <1>1, SameForms, FormsOf DEF Kept

\* Taking the first runable fiber leaves its ticket queued.
LEMMA TakingEffect ==
    ASSUME TypeInv, NEW p \in Procs, Taking(p), NEW f \in Fibers
    PROVE  Kept(f)
<1>0. \A k, a, i : Tick(f, k, a, i)' <=>
               \/ Tick(f, k, a, i) /\ ~(k = "runable" /\ a = p)
               \/ k = "runable" /\ a = p /\ i \in Nat \ {0} /\ Tick(f, "runable", p, i + 1)
               \/ k = "dispatch" /\ a = p /\ i = 0 /\ Tick(f, "runable", p, 1)
  BY TickTaking
<1>1. \A i : Tick(f, "runable", p, i) => i \in Nat \ {0}
  BY DEF Tick, InRunable
<1>2. OneForm(f) => OneForm(f)'
  <2> SUFFICES ASSUME OneForm(f), NEW k, NEW a, NEW i, NEW l, NEW b, NEW j,
                      Tick(f, k, a, i)', Tick(f, l, b, j)'
               PROVE  k = l /\ a = b /\ i = j
    BY DEF OneForm
  <2>1. \A x, y : Tick(f, "runable", p, x) /\ Tick(f, "runable", p, y) => x = y
    BY DEF OneForm
  <2>2. \A x, y \in Nat \ {0} : x + 1 = y + 1 => x = y
    OBVIOUS
  <2>3. \A x \in Nat \ {0} : x + 1 # 1
    OBVIOUS
  <2>4. \A m, c, x, y : Tick(f, m, c, x) /\ Tick(f, "runable", p, y) =>
            m = "runable" /\ c = p
    BY DEF OneForm
  <2> QED BY <1>0, <2>1, <2>2, <2>3, <2>4 DEF OneForm
<1>3. QueuedForm(f)' <=> QueuedForm(f)
  <2>1. ASSUME NEW i, Tick(f, "runable", p, i) PROVE QueuedForm(f)'
    <3>1. CASE i = 1
      <4>1. Tick(f, "dispatch", p, 0)'
        BY <1>0, <2>1, <3>1
      <4> QED BY <4>1 DEF QueuedForm
    <3>2. CASE i # 1
      <4>1. i - 1 \in Nat \ {0} /\ (i - 1) + 1 = i
        BY <1>1, <2>1, <3>2
      <4>2. Tick(f, "runable", p, i - 1)'
        BY <1>0, <2>1, <4>1
      <4> QED BY <4>2 DEF QueuedForm
    <3> QED BY <3>1, <3>2
  <2>2. QueuedForm(f) => QueuedForm(f)'
    BY <1>0, <2>1 DEF QueuedForm
  <2>3. QueuedForm(f)' => QueuedForm(f)
    BY <1>0 DEF QueuedForm
  <2> QED BY <2>2, <2>3
<1>4. PromisedForm(f)' <=> PromisedForm(f)
  BY <1>0 DEF PromisedForm
<1> QED BY <1>2, <1>3, <1>4, FormsOf DEF Kept

\* getNewFibers moves queued tickets, and each fiber keeps its own.
LEMMA GetEffect ==
    ASSUME TypeInv, NEW p \in Procs, NEW base \in Seq(Ptrs), GetNewFibers(p, base),
           UNCHANGED <<wakes, armed>>,
           \A t \in Threads : SameHands(t), \A r \in Procs : SameDispatch(r),
           NEW f, \A j : j \in 1..Len(base) /\ base[j] = f <=> InRunable(f, p, j)
    PROVE  /\ Draws(f, p)
           /\ Kept(f)
<1> DEFINE n == Taken(p)
           b == Len(base)
<1>1. n \in Nat /\ b \in Nat
  BY TakenType
<1>2. ASSUME NEW k, NEW a, NEW i
      PROVE  Tick(f, k, a, i)' <=>
               \/ Tick(f, k, a, i) /\ ~(k = "new" /\ a = p)
               \/ k = "new" /\ a = p /\ i \in Nat \ {0} /\ Tick(f, "new", p, i + n)
               \/ /\ k = "runable" /\ a = p /\ i \in Nat /\ i > b /\ i - b \in 1..n
                  /\ Tick(f, "new", p, i - b)
  <2>1. InNew(f, a, i)' <=> \/ InNew(f, a, i) /\ a # p
                            \/ a = p /\ i \in Nat \ {0} /\ InNew(f, p, i + n)
    BY InNewGet
  <2>2. InRunable(f, a, i)' <=>
               \/ InRunable(f, a, i)
               \/ /\ a = p /\ i \in Nat /\ i > b /\ i - b \in 1..n
                  /\ InNew(f, p, i - b)
    BY InRunableGet
  <2>3. stray' = stray
    BY DEF GetNewFibers
  <2> QED BY <2>1, <2>2, <2>3, SameTick DEF Tick
<1> HIDE DEF n, b
<1>3. \A i : Tick(f, "new", p, i) => i \in Nat \ {0}
  BY DEF Tick, InNew
<1>4. OneForm(f) => OneForm(f)'
  <2> SUFFICES ASSUME OneForm(f), NEW k, NEW a, NEW i, NEW l, NEW c, NEW j,
                      Tick(f, k, a, i)', Tick(f, l, c, j)'
               PROVE  k = l /\ a = c /\ i = j
    BY DEF OneForm
  <2> DEFINE Stays(m, d, x) == Tick(f, m, d, x) /\ ~(m = "new" /\ d = p)
             Ahead(m, d, x) == m = "new" /\ d = p /\ x \in Nat \ {0} /\ Tick(f, "new", p, x + n)
             Gets(m, d, x) == /\ m = "runable" /\ d = p /\ x \in Nat /\ x > b
                              /\ x - b \in 1..n /\ Tick(f, "new", p, x - b)
  <2>1. /\ Stays(k, a, i) \/ Ahead(k, a, i) \/ Gets(k, a, i)
        /\ Stays(l, c, j) \/ Ahead(l, c, j) \/ Gets(l, c, j)
    BY <1>2
  <2>2. \A x, y : Tick(f, "new", p, x) /\ Tick(f, "new", p, y) => x = y
    BY DEF OneForm
  <2>3. \A m, d, x, y : Tick(f, m, d, x) /\ Tick(f, "new", p, y) => m = "new" /\ d = p
    BY DEF OneForm
  <2>4. CASE Stays(k, a, i) \/ Stays(l, c, j)
    <3>1. Stays(k, a, i) /\ Stays(l, c, j)
      BY <2>1, <2>3, <2>4
    <3> QED BY <3>1 DEF OneForm
  <2>5. CASE Ahead(k, a, i) /\ Ahead(l, c, j)
    <3>1. i + n = j + n
      BY <2>2, <2>5
    <3> QED BY <1>1, <2>5, <3>1
  <2>6. CASE Gets(k, a, i) /\ Gets(l, c, j)
    <3>1. i - b = j - b
      BY <2>2, <2>6
    <3> QED BY <1>1, <2>6, <3>1
  <2>7. CASE Ahead(k, a, i) /\ Gets(l, c, j)
    <3>1. i + n = j - b
      BY <2>2, <2>7
    <3> QED BY <1>1, <2>7, <3>1
  <2>8. CASE Gets(k, a, i) /\ Ahead(l, c, j)
    <3>1. j + n = i - b
      BY <2>2, <2>8
    <3> QED BY <1>1, <2>8, <3>1
  <2> QED BY <2>1, <2>4, <2>5, <2>6, <2>7, <2>8
<1>5. QueuedForm(f)' <=> QueuedForm(f)
  <2>1. ASSUME NEW i, Tick(f, "new", p, i) PROVE QueuedForm(f)'
    <3>0. i \in Nat \ {0}
      BY <1>3, <2>1
    <3>1. CASE i > n
      <4>1. PICK j \in Nat \ {0} : j + n = i
        <5>1. i - n \in Nat \ {0} /\ (i - n) + n = i
          BY <1>1, <3>0, <3>1
        <5> QED BY <5>1
      <4>2. Tick(f, "new", p, j)'
        BY <1>2, <2>1, <4>1
      <4> QED BY <4>2 DEF QueuedForm
    <3>2. CASE ~(i > n)
      <4>1. i + b \in Nat /\ i + b > b /\ (i + b) - b = i /\ i \in 1..n
        BY <1>1, <3>0, <3>2
      <4>2. Tick(f, "runable", p, i + b)'
        BY <1>2, <2>1, <4>1
      <4> QED BY <4>2 DEF QueuedForm
    <3> QED BY <3>1, <3>2
  <2>2. QueuedForm(f) => QueuedForm(f)'
    BY <1>2, <2>1 DEF QueuedForm
  <2>3. QueuedForm(f)' => QueuedForm(f)
    BY <1>2 DEF QueuedForm
  <2> QED BY <2>2, <2>3
<1>6. PromisedForm(f)' <=> PromisedForm(f)
  BY <1>2 DEF PromisedForm
<1>7. Draws(f, p)
  BY <1>2 DEF Draws
<1> QED BY <1>4, <1>5, <1>6, <1>7, FormsOf DEF Kept

\* Refilling moves queued tickets, and each fiber keeps its own.
LEMMA RefillEffect ==
    ASSUME TypeInv, NEW p \in Procs, Refill(p), NEW f
    PROVE  /\ Draws(f, p)
           /\ Kept(f)
<1>1. runable[p] \in Seq(Ptrs)
  BY DEF TypeInv, TypeOK, QueueTypes
<1>2. PICK base \in Seq(Ptrs) : base = runable[p]
  BY <1>1
<1>3. GetNewFibers(p, base) /\ UNCHANGED <<wakes, armed>>
  BY <1>2 DEF Refill, fiberVars, GetNewFibers
<1>4. /\ \A t \in Threads : SameHands(t)
      /\ \A r \in Procs : SameDispatch(r)
  BY ThreadFacts DEF Refill, Goto, SameHands, SameDispatch, CarryPCs, localVars,
      callVars, TypeInv, TypeOK, PcTypes
<1>5. \A j : j \in 1..Len(base) /\ base[j] = f <=> InRunable(f, p, j)
  BY <1>2 DEF InRunable
<1> QED BY <1>3, <1>4, <1>5, GetEffect

\* A fiber that was not pending gets one ticket.
GetsQueued(f) == One(f)' /\ Queued(f)' /\ ~Promised(f)'
GetsPromised(f) == One(f)' /\ ~Queued(f)' /\ Promised(f)'

OnlyTick(f, l, b, j) == \A k, a, i : Tick(f, k, a, i) <=> k = l /\ a = b /\ i = j

\* A fiber with a single tick has one ticket, of the tick's kind.
LEMMA OneTick ==
    ASSUME NEW f, NEW l, NEW b, NEW j, OnlyTick(f, l, b, j)'
    PROVE  /\ One(f)'
           /\ l \in {"new", "stray", "runable", "dispatch"} => Queued(f)' /\ ~Promised(f)'
           /\ l \in {"carried", "armed", "waker"} => ~Queued(f)' /\ Promised(f)'
<1>1. OneForm(f)'
  BY DEF OnlyTick, OneForm
<1>2. l \in {"new", "stray", "runable", "dispatch"} => QueuedForm(f)' /\ ~PromisedForm(f)'
  BY DEF OnlyTick, QueuedForm, PromisedForm
<1>3. l \in {"carried", "armed", "waker"} => ~QueuedForm(f)' /\ PromisedForm(f)'
  BY DEF OnlyTick, QueuedForm, PromisedForm
<1> QED BY <1>1, <1>2, <1>3, FormsOf

\* A fiber is pending exactly if it has a tick.
LEMMA NoTick ==
    ASSUME NEW f
    PROVE  Pending(f) <=> \E k, a, i : Tick(f, k, a, i)
<1>1. ASSUME NEW k, NEW a, NEW i, Tick(f, k, a, i)
      PROVE  QueuedForm(f) \/ PromisedForm(f)
  <2>1. k \in {"new", "stray", "runable", "dispatch", "carried", "armed", "waker"}
    BY <1>1 DEF Tick
  <2> QED BY <1>1, <2>1 DEF QueuedForm, PromisedForm
<1>2. QueuedForm(f) \/ PromisedForm(f) => \E k, a, i : Tick(f, k, a, i)
  BY DEF QueuedForm, PromisedForm
<1> QED BY <1>1, <1>2, FormsOf

\* A fiber that is not pending is in none of the places.
LEMMA NotPending ==
    ASSUME NEW f, ~Pending(f)
    PROVE  /\ \A a, i : ~InNew(f, a, i) /\ ~InRunable(f, a, i) /\ ~WithWaker(f, i)
           /\ \A a : ~AtDispatch(f, a) /\ ~InHands(f, a) /\ ~InStray(f, a)
           /\ f \notin armed
<1>1. \A k, a, i : ~Tick(f, k, a, i)
  BY NoTick
<1>2. ASSUME NEW a, NEW i
      PROVE  ~InNew(f, a, i) /\ ~InRunable(f, a, i) /\ ~WithWaker(f, i)
  <2>1. ~Tick(f, "new", a, i) /\ ~Tick(f, "runable", a, i) /\ ~Tick(f, "waker", 0, i)
    BY <1>1
  <2> QED BY <2>1 DEF Tick
<1>3. ASSUME NEW a PROVE ~AtDispatch(f, a) /\ ~InHands(f, a) /\ ~InStray(f, a)
  <2>1. ~Tick(f, "dispatch", a, 0) /\ ~Tick(f, "carried", a, 0) /\ ~Tick(f, "stray", a, 0)
    BY <1>1
  <2> QED BY <2>1 DEF Tick
<1>4. ~Tick(f, "armed", 0, 0)
  BY <1>1
<1> QED BY <1>2, <1>3, <1>4 DEF Tick

\* A push's write turns the promised ticket of its fiber into a queued one; the fiber
\* it displaces loses its own, and the others keep theirs.
LEMMA WriteEffect ==
    ASSUME TypeInv, NEW t \in Threads, PushWrite(t), NEW g, NEW l, NEW j,
           Writes(t, g, l, j), NEW f \in Fibers
    PROVE  /\ f # arg[t] /\ f # g => Kept(f) /\ Shrinks(f)
           /\ f = arg[t] => ShrinksOr(f, l, tgt[t])
           /\ f = arg[t] /\ One(f) => One(f)' /\ Promised(f) /\ Queued(f)' /\ ~Promised(f)'
           /\ f = g /\ One(f) => f # arg[t]
           /\ f = g /\ f # arg[t] /\ One(f) => Queued(f) /\ One(f)' /\ ~Pending(f)'
<1>0. /\ l \in {"new", "stray"}
      /\ g # NoFiber => Tick(g, l, tgt[t], j)
      /\ f # NoFiber
  BY FiberAssumption DEF Writes, Fibers
<1>1. \A k, a, i : Tick(f, k, a, i)' <=>
          \/ /\ Tick(f, k, a, i)
             /\ ~(k = "carried" /\ a = t)
             /\ ~(f = g /\ k = l /\ a = tgt[t] /\ i = j)
          \/ f = arg[t] /\ k = l /\ a = tgt[t] /\ i = j
  BY DEF Writes
<1>2. CASE f # arg[t] /\ f # g
  <2>1. \A i : ~Tick(f, "carried", t, i)
    BY <1>2 DEF Tick, InHands, Carries
  <2>2. \A k, a, i : Tick(f, k, a, i)' <=> Tick(f, k, a, i)
    BY <1>1, <1>2, <2>1
  <2>3. /\ OneForm(f)' <=> OneForm(f)
        /\ QueuedForm(f)' <=> QueuedForm(f)
        /\ PromisedForm(f)' <=> PromisedForm(f)
    BY <2>2, SameForms
  <2>4. Shrinks(f)
    BY <2>2 DEF Shrinks
  <2> QED BY <1>2, <2>3, <2>4, FormsOf DEF Kept
<1>3. CASE f = arg[t]
  <2>1. Tick(f, "carried", t, 0)
    BY <1>3 DEF Tick, InHands, Carries, PushWrite
  <2>2. ShrinksOr(f, l, tgt[t])
    BY <1>1, <1>3 DEF ShrinksOr
  <2>3. ASSUME One(f)
        PROVE  f # g /\ One(f)' /\ Promised(f) /\ Queued(f)' /\ ~Promised(f)'
    <3>1. OneForm(f)
      BY <2>3, FormsOf
    <3>2. \A k, a, i : Tick(f, k, a, i) => k = "carried" /\ a = t
      BY <2>1, <3>1 DEF OneForm
    <3>3. f # g
      BY <1>0, <3>2
    <3>4. \A k, a, i : Tick(f, k, a, i)' <=> k = l /\ a = tgt[t] /\ i = j
      BY <1>1, <1>3, <3>2
    <3>5. PICK p : p = tgt[t]
      OBVIOUS
    <3>6. OnlyTick(f, l, p, j)'
      BY <3>4, <3>5 DEF OnlyTick
    <3>8. One(f)' /\ Queued(f)' /\ ~Promised(f)'
      BY <1>0, <3>6, OneTick
    <3>7. PromisedForm(f)
      BY <2>1 DEF PromisedForm
    <3> QED BY <3>3, <3>7, <3>8, FormsOf
  <2> QED BY <1>3, <2>2, <2>3
<1>4. CASE f = g /\ f # arg[t]
  <2> SUFFICES ASSUME One(f) PROVE Queued(f) /\ One(f)' /\ ~Pending(f)'
    BY <1>4
  <2>1. Tick(f, l, tgt[t], j)
    BY <1>0, <1>4
  <2>2. \A k, a, i : Tick(f, k, a, i) => k = l /\ a = tgt[t] /\ i = j
    BY <2>1, FormsOf DEF OneForm
  <2>3. \A k, a, i : ~Tick(f, k, a, i)'
    BY <1>1, <1>4, <2>2
  <2>4. OneForm(f)' /\ ~QueuedForm(f)' /\ ~PromisedForm(f)'
    BY <2>3 DEF OneForm, QueuedForm, PromisedForm
  <2>5. QueuedForm(f)
    BY <1>0, <2>1 DEF QueuedForm
  <2> QED BY <2>4, <2>5, FormsOf
<1> QED BY <1>2, <1>3, <1>4

\* A push's store leaves every ticket queued or promised as it was.
LEMMA StoreEffect ==
    ASSUME TypeInv, NEW t \in Threads, PushStore(t), NEW f \in Fibers
    PROVE  Kept(f)
<1>0. PICK p \in Procs : p = tgt[t]
  BY DEF PushStore, TypeInv, TypeOK, CallTypes
<1> DEFINE Ring(k, a) == k \in {"new", "stray"} /\ a = p
<1>1. Stores(f, p)
  BY <1>0, TickStore
<1>2. \A k, a, i : ~Ring(k, a) => (Tick(f, k, a, i)' <=> Tick(f, k, a, i))
  BY <1>1 DEF Stores
<1>3. \A k, a, i : Ring(k, a) => /\ Tick(f, k, a, i) <=> RingTick(f, p, k, i)
                                 /\ Tick(f, k, a, i)' <=> RingTick(f, p, k, i)'
  BY DEF RingTick
<1>4. (\E k, i : RingTick(f, p, k, i)') <=> \E k, i : RingTick(f, p, k, i)
  BY <1>1 DEF Stores
<1>5. \A k, i : /\ RingTick(f, p, k, i) => Ring(k, p) /\ Tick(f, k, p, i)
                /\ RingTick(f, p, k, i)' => Ring(k, p) /\ Tick(f, k, p, i)'
  BY DEF RingTick
<1>6. OneForm(f) => OneForm(f)'
  <2> SUFFICES ASSUME OneForm(f), NEW k, NEW a, NEW i, NEW l, NEW b, NEW j,
                      Tick(f, k, a, i)', Tick(f, l, b, j)'
               PROVE  k = l /\ a = b /\ i = j
    BY DEF OneForm
  <2>1. \A m, n, x, y : RingTick(f, p, m, x) /\ RingTick(f, p, n, y) => m = n /\ x = y
    BY <1>5 DEF OneForm
  <2>2. CASE Ring(k, a) /\ Ring(l, b)
    <3>1. RingTick(f, p, k, i)' /\ RingTick(f, p, l, j)'
      BY <1>3, <2>2
    <3> QED BY <1>1, <2>1, <2>2, <3>1 DEF Stores
  <2>3. CASE ~Ring(k, a) /\ ~Ring(l, b)
    BY <1>2, <2>3 DEF OneForm
  <2>4. ASSUME NEW m, NEW c, NEW x, NEW n, NEW d, NEW y,
               Tick(f, m, c, x)', Ring(m, c), Tick(f, n, d, y)', ~Ring(n, d)
        PROVE  FALSE
    <3>1. RingTick(f, p, m, x)'
      BY <1>3, <2>4
    <3>2. PICK k1, i1 : RingTick(f, p, k1, i1)
      BY <1>4, <3>1
    <3>3. Tick(f, k1, p, i1) /\ Ring(k1, p) /\ Tick(f, n, d, y)
      BY <1>2, <1>5, <2>4, <3>2
    <3>4. k1 = n /\ p = d
      BY <3>3 DEF OneForm
    <3> QED BY <2>4, <3>3, <3>4
  <2>5. ~(Ring(k, a) /\ ~Ring(l, b)) /\ ~(~Ring(k, a) /\ Ring(l, b))
    BY <2>4
  <2> QED BY <2>2, <2>3, <2>5
<1>7. QueuedForm(f)' <=> QueuedForm(f)
  <2>1. QueuedForm(f) <=> \/ \E k, i : RingTick(f, p, k, i)
                          \/ \E k, a, i : /\ k \in {"new", "stray", "runable", "dispatch"}
                                          /\ ~Ring(k, a) /\ Tick(f, k, a, i)
    BY <1>3, <1>5 DEF QueuedForm
  <2>2. QueuedForm(f)' <=> \/ \E k, i : RingTick(f, p, k, i)'
                           \/ \E k, a, i : /\ k \in {"new", "stray", "runable", "dispatch"}
                                           /\ ~Ring(k, a) /\ Tick(f, k, a, i)'
    BY <1>3, <1>5 DEF QueuedForm
  <2> QED BY <1>2, <1>4, <2>1, <2>2
<1>8. PromisedForm(f)' <=> PromisedForm(f)
  BY <1>2 DEF PromisedForm
<1> QED BY <1>6, <1>7, <1>8, FormsOf DEF Kept

\* The fiber that left without blocking goes behind those that were there.
LEMMA PutBackEffect ==
    ASSUME TypeInv, NEW p \in Procs, PuttingBack(p), NEW f
    PROVE  /\ f # cur[p] => Draws(f, p)
           /\ f # cur[p] => Kept(f)
           /\ f = cur[p] /\ ~Pending(f) => GetsQueued(f)
<1> DEFINE L == Len(runable[p])
<1>0. /\ runable[p] \in Seq(Ptrs) /\ cur[p] \in Ptrs
      /\ Append(runable[p], cur[p]) \in Seq(Ptrs)
      /\ L \in Nat
  BY DEF TypeInv, TypeOK, QueueTypes, LocalTypes
<1>1. PICK base \in Seq(Ptrs) : base = Append(runable[p], cur[p])
  BY <1>0
<1>2. \A j : j \in 1..Len(base) /\ base[j] = f <=>
                 InRunable(f, p, j) \/ (j = L + 1 /\ f = cur[p])
  <2>1. \A j : InRunable(f, p, j) <=> j \in 1..L /\ runable[p][j] = f
    BY DEF InRunable
  <2> QED BY <1>0, <1>1, <2>1, AppendAt
<1>3. UNCHANGED <<wakes, armed, stray>> /\ PutBack(p)
  BY DEF PuttingBack, SwitchOut, fiberVars, PutBack, GetNewFibers
<1>4. /\ \A t \in Threads : SameHands(t)
      /\ \A r \in Procs : SameDispatch(r)
  BY ThreadFacts
  DEF PuttingBack, SwitchOut, Goto, SameHands, SameDispatch, CarryPCs, callVars,
      TypeInv, TypeOK, PcTypes, LocalTypes
<1>5. newCount[p] > NewMax => GetNewFibers(p, base)
  BY <1>1, <1>3 DEF PutBack, GetNewFibers
<1>6. ~(newCount[p] > NewMax) =>
          /\ newQueue' = newQueue /\ runable'[p] = base
          /\ \A r \in Procs \ {p} : runable'[r] = runable[r]
  BY <1>1, <1>3 DEF PutBack, TypeInv, TypeOK, QueueTypes
<1>7. ASSUME NEW a, NEW i, ~(newCount[p] > NewMax)
      PROVE  InRunable(f, a, i)' <=>
                 InRunable(f, a, i) \/ (a = p /\ i = L + 1 /\ f = cur[p])
  <2>1. CASE a = p
    <3>1. InRunable(f, a, i)' <=> i \in 1..Len(base) /\ base[i] = f
      BY <1>6, <1>7, <2>1 DEF InRunable
    <3> QED BY <1>2, <2>1, <3>1
  <2>2. CASE a # p
    BY <1>6, <1>7, <2>2 DEF InRunable
  <2> QED BY <2>1, <2>2
<1> HIDE DEF L
<1>8. ASSUME f # cur[p]
      PROVE  /\ Kept(f)
             /\ Draws(f, p)
  <2>1. CASE newCount[p] > NewMax
    <3>1. \A j : j \in 1..Len(base) /\ base[j] = f <=> InRunable(f, p, j)
      BY <1>2, <1>8
    <3> QED BY <1>3, <1>4, <1>5, <2>1, <3>1, GetEffect
  <2>2. CASE ~(newCount[p] > NewMax)
    <3>1. \A k, a, i : Tick(f, k, a, i)' <=> Tick(f, k, a, i)
      BY <1>3, <1>4, <1>6, <1>7, <1>8, <2>2, SameTick DEF Tick
    <3>2. /\ OneForm(f)' <=> OneForm(f)
          /\ QueuedForm(f)' <=> QueuedForm(f)
          /\ PromisedForm(f)' <=> PromisedForm(f)
      BY <3>1, SameForms
    <3>3. Draws(f, p)
      BY <3>1 DEF Draws
    <3> QED BY <3>2, <3>3, FormsOf DEF Kept
  <2> QED BY <2>1, <2>2
<1>9. ASSUME f = cur[p], ~Pending(f) PROVE GetsQueued(f)
  <2>2. \A a, i : ~InNew(f, a, i) /\ ~InRunable(f, a, i) /\ ~WithWaker(f, i)
    BY <1>9, NotPending
  <2>3. f \notin armed /\ \A a : ~AtDispatch(f, a) /\ ~InHands(f, a) /\ ~InStray(f, a)
    BY <1>9, NotPending
  <2>4. ASSUME NEW a, NEW i
        PROVE  /\ ~InNew(f, a, i)'
               /\ InRunable(f, a, i)' <=> a = p /\ i = L + 1
    <3>1. CASE newCount[p] > NewMax
      <4>1. ~InNew(f, a, i)'
        BY <1>5, <2>2, <3>1, InNewGet
      <4>2. InRunable(f, a, i)' <=> a = p /\ i \in 1..Len(base) /\ base[i] = f
        BY <1>5, <2>2, <3>1, InRunableGet
      <4> QED BY <1>2, <1>9, <2>2, <4>1, <4>2
    <3>2. CASE ~(newCount[p] > NewMax)
      BY <1>6, <1>7, <1>9, <2>2, <3>2, SameTick
    <3> QED BY <3>1, <3>2
  <2>5. PICK j : j = L + 1
    OBVIOUS
  <2>6. \A k, a, i : Tick(f, k, a, i)' <=> k = "runable" /\ a = p /\ i = j
    BY <1>3, <1>4, <2>2, <2>3, <2>4, <2>5, SameTick DEF Tick
  <2>7. OnlyTick(f, "runable", p, j)'
    BY <2>6 DEF OnlyTick
  <2> QED BY <2>7, OneTick DEF GetsQueued
<1> QED BY <1>8, <1>9

\* The fiber at hand is spent, on a run or, at a stop, on nothing.
LEMMA DispatchEffect ==
    ASSUME TypeInv, NEW p \in Procs, Dispatch(p), NEW f
    PROVE  /\ f # cur[p] => Kept(f)
           /\ f = cur[p] => Queued(f)
           /\ f = cur[p] /\ One(f) => One(f)' /\ ~Pending(f)'
           /\ Shrinks(f)
<1>1. /\ UNCHANGED <<newQueue, stray, runable, wakes, armed>>
      /\ pc[p] = "dispatch" /\ pc'[p] \in {"loop", "body"}
      /\ \A u \in Threads : u # p => pc'[u] = pc[u]
      /\ \A r \in Procs : r # p => cur'[r] = cur[r]
      /\ arg' = arg
  BY ThreadFacts DEF Dispatch, queueVars, callVars, Goto, TypeInv, TypeOK, PcTypes,
     LocalTypes
<1>2. \A u \in Threads : SameHands(u)
  BY <1>1 DEF SameHands, CarryPCs
<1>3. ASSUME NEW a PROVE AtDispatch(f, a)' <=> AtDispatch(f, a) /\ a # p
  BY <1>1, ThreadFacts DEF AtDispatch
<1>4. \A k, a, i : Tick(f, k, a, i)' <=> Tick(f, k, a, i) /\ ~(k = "dispatch" /\ a = p)
  BY <1>1, <1>2, <1>3, SameTick DEF Tick
<1>7. Shrinks(f)
  BY <1>4 DEF Shrinks
<1>5. CASE f # cur[p]
  <2>1. \A i : ~Tick(f, "dispatch", p, i)
    BY <1>5 DEF Tick, AtDispatch
  <2>2. \A k, a, i : Tick(f, k, a, i)' <=> Tick(f, k, a, i)
    BY <1>4, <2>1
  <2>3. /\ OneForm(f)' <=> OneForm(f)
        /\ QueuedForm(f)' <=> QueuedForm(f)
        /\ PromisedForm(f)' <=> PromisedForm(f)
    BY <2>2, SameForms
  <2> QED BY <1>5, <1>7, <2>3, FormsOf DEF Kept
<1>6. CASE f = cur[p]
  <2>1. Tick(f, "dispatch", p, 0)
    BY <1>1, <1>6 DEF Tick, AtDispatch
  <2>2. Queued(f)
    BY <2>1, FormsOf DEF QueuedForm
  <2>3. ASSUME One(f) PROVE One(f)' /\ ~Pending(f)'
    <3>1. \A k, a, i : Tick(f, k, a, i) => k = "dispatch" /\ a = p
      BY <2>1, <2>3, FormsOf DEF OneForm
    <3>2. \A k, a, i : ~Tick(f, k, a, i)'
      BY <1>4, <3>1
    <3>3. OneForm(f)' /\ ~QueuedForm(f)' /\ ~PromisedForm(f)'
      BY <3>2 DEF OneForm, QueuedForm, PromisedForm
    <3> QED BY <3>3, FormsOf
  <2> QED BY <1>6, <1>7, <2>2, <2>3
<1> QED BY <1>5, <1>6, <1>7

\* A stopped processer drops the fiber of the thread that adds it.
LEMMA DroppingEffect ==
    ASSUME TypeInv, NEW t \in Threads, Dropping(t), NEW f
    PROVE  /\ f # arg[t] => Kept(f)
           /\ f = arg[t] => Promised(f)
           /\ f = arg[t] /\ One(f) => One(f)' /\ ~Pending(f)'
           /\ Shrinks(f)
<1>0. AfterAdd(t) \notin CarryPCs \cup {"dispatch"}
  BY DEF AfterAdd, Home, CarryPCs
<1>1. /\ UNCHANGED <<newQueue, stray, runable, wakes, armed, cur>>
      /\ pc[t] = "check" /\ pc'[t] = AfterAdd(t)
      /\ \A u \in Threads : u # t => pc'[u] = pc[u] /\ arg'[u] = arg[u]
  BY DEF Dropping, CheckStopped, Leave, queueVars, localVars, fiberVars, Goto, TypeInv,
     TypeOK, PcTypes, CallTypes
<1>2. \A r \in Procs : SameDispatch(r)
  BY <1>0, <1>1, ThreadFacts DEF SameDispatch
<1>3. ASSUME NEW a PROVE InHands(f, a)' <=> InHands(f, a) /\ a # t
  BY <1>0, <1>1 DEF InHands, Carries, CarryPCs
<1>4. \A k, a, i : Tick(f, k, a, i)' <=> Tick(f, k, a, i) /\ ~(k = "carried" /\ a = t)
  BY <1>1, <1>2, <1>3, SameTick DEF Tick
<1>7. Shrinks(f)
  BY <1>4 DEF Shrinks
<1>5. CASE f # arg[t]
  <2>1. \A i : ~Tick(f, "carried", t, i)
    BY <1>5 DEF Tick, InHands, Carries
  <2>2. \A k, a, i : Tick(f, k, a, i)' <=> Tick(f, k, a, i)
    BY <1>4, <2>1
  <2>3. /\ OneForm(f)' <=> OneForm(f)
        /\ QueuedForm(f)' <=> QueuedForm(f)
        /\ PromisedForm(f)' <=> PromisedForm(f)
    BY <2>2, SameForms
  <2> QED BY <1>5, <1>7, <2>3, FormsOf DEF Kept
<1>6. CASE f = arg[t]
  <2>1. Tick(f, "carried", t, 0)
    BY <1>1, <1>6 DEF Tick, InHands, Carries
  <2>2. Promised(f)
    BY <2>1, FormsOf DEF PromisedForm
  <2>3. ASSUME One(f) PROVE One(f)' /\ ~Pending(f)'
    <3>1. \A k, a, i : Tick(f, k, a, i) => k = "carried" /\ a = t
      BY <2>1, <2>3, FormsOf DEF OneForm
    <3>2. \A k, a, i : ~Tick(f, k, a, i)'
      BY <1>4, <3>1
    <3>3. OneForm(f)' /\ ~QueuedForm(f)' /\ ~PromisedForm(f)'
      BY <3>2 DEF OneForm, QueuedForm, PromisedForm
    <3> QED BY <3>3, FormsOf
  <2> QED BY <1>6, <1>7, <2>2, <2>3
<1> QED BY <1>5, <1>6, <1>7

\* A thread without a fiber takes a new one.
Creates(t, g) ==
    /\ Create(t, g)
    /\ pc[t] \notin CarryPCs \cup {"dispatch"}
    /\ UNCHANGED <<newQueue, stray, runable, cur>>

\* The tickets of a fiber not in t's hands once t has taken g into them.
LEMMA TakesInHands ==
    ASSUME TypeInv, NEW t \in Threads, NEW g,
           pc[t] \notin CarryPCs \cup {"dispatch"}, Goto(t, "own"),
           arg' = [arg EXCEPT ![t] = g], UNCHANGED <<newQueue, stray, runable, cur>>,
           NEW f
    PROVE  /\ \A a, i : /\ InNew(f, a, i)' <=> InNew(f, a, i)
                        /\ InRunable(f, a, i)' <=> InRunable(f, a, i)
                        /\ AtDispatch(f, a)' <=> AtDispatch(f, a)
                        /\ InStray(f, a)' <=> InStray(f, a)
           /\ \A a : InHands(f, a)' <=> InHands(f, a) \/ (a = t /\ f = g)
           /\ ~InHands(f, t)
<1>1. /\ pc'[t] = "own" /\ arg'[t] = g
      /\ \A u \in Threads : u # t => pc'[u] = pc[u] /\ arg'[u] = arg[u]
  BY DEF Goto, TypeInv, TypeOK, PcTypes, CallTypes
<1>2. \A r \in Procs : SameDispatch(r)
  BY <1>1, ThreadFacts DEF SameDispatch
<1>3. \A a : InHands(f, a)' <=> InHands(f, a) \/ (a = t /\ f = g)
  BY <1>1 DEF InHands, Carries, CarryPCs
<1>4. ~InHands(f, t)
  BY DEF InHands, Carries, CarryPCs
<1> QED BY <1>2, <1>3, <1>4, SameTick

\* A creation gives the new fiber a promised ticket and the others nothing.
LEMMA CreateEffect ==
    ASSUME TypeInv, NEW t \in Threads, NEW g, Creates(t, g), UNCHANGED <<wakes, armed>>,
           NEW f
    PROVE  /\ f # g => Kept(f) /\ Shrinks(f)
           /\ f = g /\ ~Pending(f) => GetsPromised(f)
<1>1. /\ \A a, i : /\ InNew(f, a, i)' <=> InNew(f, a, i)
                   /\ InRunable(f, a, i)' <=> InRunable(f, a, i)
                   /\ AtDispatch(f, a)' <=> AtDispatch(f, a)
                   /\ InStray(f, a)' <=> InStray(f, a)
      /\ \A a : InHands(f, a)' <=> InHands(f, a) \/ (a = t /\ f = g)
  BY TakesInHands DEF Creates, Create
<1>2. CASE f # g
  <2>1. \A k, a, i : Tick(f, k, a, i)' <=> Tick(f, k, a, i)
    BY <1>1, <1>2, SameTick DEF Tick
  <2>2. /\ OneForm(f)' <=> OneForm(f)
        /\ QueuedForm(f)' <=> QueuedForm(f)
        /\ PromisedForm(f)' <=> PromisedForm(f)
    BY <2>1, SameForms
  <2>3. Shrinks(f)
    BY <2>1 DEF Shrinks
  <2> QED BY <1>2, <2>2, <2>3, FormsOf DEF Kept
<1>3. CASE f = g /\ ~Pending(f)
  <2>1. OnlyTick(f, "carried", t, 0)'
    BY <1>1, <1>3, NotPending, SameTick DEF OnlyTick, Tick
  <2> QED BY <1>3, <2>1, OneTick DEF GetsPromised
<1> QED BY <1>2, <1>3

\* Arming gives the running fiber a promised ticket and the others nothing.
LEMMA ArmEffect ==
    ASSUME TypeInv, NEW p \in Procs, NEW g, Arm(p, g), NEW f
    PROVE  /\ ShrinksOr(f, "armed", 0)
           /\ f # g => Kept(f)
           /\ f = g /\ ~Pending(f) => GetsPromised(f)
<1>1. /\ UNCHANGED <<newQueue, stray, runable, wakes>>
      /\ armed' = armed \cup {g}
      /\ \A u \in Threads : SameHands(u)
      /\ \A r \in Procs : SameDispatch(r)
  BY ThreadFacts DEF Arm, Running, queueVars, localVars, callVars, Goto, TypeInv, TypeOK,
     PcTypes, SameHands, CarryPCs, SameDispatch
<1>4. ShrinksOr(f, "armed", 0)
  BY <1>1, SameTick DEF Tick, ShrinksOr
<1>2. CASE f # g
  <2>1. \A k, a, i : Tick(f, k, a, i)' <=> Tick(f, k, a, i)
    BY <1>1, <1>2, SameTick DEF Tick
  <2>2. /\ OneForm(f)' <=> OneForm(f)
        /\ QueuedForm(f)' <=> QueuedForm(f)
        /\ PromisedForm(f)' <=> PromisedForm(f)
    BY <2>1, SameForms
  <2> QED BY <1>2, <1>4, <2>2, FormsOf DEF Kept
<1>3. CASE f = g /\ ~Pending(f)
  <2>1. OnlyTick(f, "armed", 0, 0)'
    BY <1>1, <1>3, NotPending, SameTick DEF OnlyTick, Tick
  <2> QED BY <1>3, <1>4, <2>1, OneTick DEF GetsPromised
<1> QED BY <1>2, <1>3, <1>4

\* A ticket that changes its place and stays promised.
MovesTick(f, l, b, j, m, c, x) ==
    /\ Tick(f, l, b, j)
    /\ \A k, a, i : Tick(f, k, a, i)' <=> \/ Tick(f, k, a, i) /\ ~(k = l /\ a = b /\ i = j)
                                          \/ k = m /\ a = c /\ i = x

\* A promised ticket that goes from one place to another stays promised.
LEMMA TickMoves ==
    ASSUME NEW f, NEW l, NEW b, NEW j, NEW m, NEW c, NEW x,
           l \in {"carried", "armed", "waker"}, m \in {"carried", "armed", "waker"},
           MovesTick(f, l, b, j, m, c, x)
    PROVE  Kept(f)
<1> USE DEF MovesTick
<1>1. OneForm(f) => OneForm(f)'
  <2> SUFFICES ASSUME OneForm(f) PROVE OneForm(f)'
    OBVIOUS
  <2>1. \A k, a, i : Tick(f, k, a, i) => k = l /\ a = b /\ i = j
    BY DEF OneForm
  <2>2. \A k, a, i : Tick(f, k, a, i)' <=> k = m /\ a = c /\ i = x
    BY <2>1
  <2> QED BY <2>2 DEF OneForm
<1>2. QueuedForm(f)' <=> QueuedForm(f)
  BY DEF QueuedForm
<1>3. PromisedForm(f)' /\ PromisedForm(f)
  BY DEF PromisedForm
<1> QED BY <1>1, <1>2, <1>3, FormsOf DEF Kept

\* A waker fiber takes the fiber it was made for into the hands of its thread.
LEMMA PassOnEffect ==
    ASSUME TypeInv, NEW p \in Procs, NEW w \in Wakers, PassOn(p, w), NEW f \in Fibers
    PROVE  /\ ShrinksOr(f, "carried", p)
           /\ Kept(f)
<1> USE ThreadFacts, FiberFacts
<1>1. PICK g : g = wakes[w]
  OBVIOUS
<1>2. /\ pc[p] \notin CarryPCs \cup {"dispatch"} /\ Goto(p, "own")
      /\ arg' = [arg EXCEPT ![p] = g]
      /\ UNCHANGED <<newQueue, stray, runable, cur, armed>>
  BY <1>1 DEF PassOn, queueVars, localVars, CarryPCs
<1>3. /\ wakes'[w] = NoFiber /\ f # NoFiber
      /\ \A v \in Fibers : v # w => wakes'[v] = wakes[v]
  BY FiberAssumption DEF PassOn, TypeInv, TypeOK, FiberTypes, Fibers
<1>4. /\ \A a, i : /\ InNew(f, a, i)' <=> InNew(f, a, i)
                   /\ InRunable(f, a, i)' <=> InRunable(f, a, i)
                   /\ AtDispatch(f, a)' <=> AtDispatch(f, a)
                   /\ InStray(f, a)' <=> InStray(f, a)
      /\ \A a : InHands(f, a)' <=> InHands(f, a) \/ (a = p /\ f = g)
  BY <1>2, TakesInHands
<1>5. \A v : WithWaker(f, v)' <=> WithWaker(f, v) /\ v # w
  BY <1>3 DEF WithWaker
<1>6. WithWaker(f, w) <=> f = g
  BY <1>1 DEF WithWaker
<1>9. ShrinksOr(f, "carried", p)
  BY <1>2, <1>4, <1>5 DEF Tick, ShrinksOr
<1>7. CASE f # g
  <2>1. \A k, a, i : Tick(f, k, a, i)' <=> Tick(f, k, a, i)
    BY <1>2, <1>4, <1>5, <1>6, <1>7 DEF Tick
  <2>2. /\ OneForm(f)' <=> OneForm(f)
        /\ QueuedForm(f)' <=> QueuedForm(f)
        /\ PromisedForm(f)' <=> PromisedForm(f)
    BY <2>1, SameForms
  <2> QED BY <1>9, <2>2, FormsOf DEF Kept
<1>8. CASE f = g
  <2>1. Tick(f, "waker", 0, w)
    BY <1>6, <1>8 DEF Tick
  <2>2. \A k, a, i : Tick(f, k, a, i)' <=>
            \/ Tick(f, k, a, i) /\ ~(k = "waker" /\ a = 0 /\ i = w)
            \/ k = "carried" /\ a = p /\ i = 0
    BY <1>2, <1>4, <1>5, <1>8 DEF Tick
  <2>3. MovesTick(f, "waker", 0, w, "carried", p, 0)
    BY <2>1, <2>2 DEF MovesTick
  <2> QED BY <1>9, <2>3, TickMoves
<1> QED BY <1>7, <1>8, <1>9

\* The poller's waker fiber w takes over the ticket of g; w itself gets its first.
LEMMA DeliverEffect ==
    ASSUME TypeInv, NEW g \in Tasks, NEW w \in Wakers, Deliver(g, w),
           wakes[w] = NoFiber, NEW f \in Fibers
    PROVE  /\ f # w => ShrinksOr(f, "waker", 0)
           /\ f # w => Kept(f)
           /\ f = w /\ ~Pending(f) => GetsPromised(f)
<1> USE ThreadFacts, FiberFacts
<1>1. /\ pc[Poller] \notin CarryPCs \cup {"dispatch"} /\ Goto(Poller, "own")
      /\ arg' = [arg EXCEPT ![Poller] = w]
      /\ UNCHANGED <<newQueue, stray, runable, cur>>
      /\ g \in armed /\ armed' = armed \ {g}
  BY DEF Deliver, Create, Expire, queueVars, localVars, CarryPCs
<1>2. /\ wakes'[w] = g /\ f # NoFiber /\ w # g
      /\ \A v \in Fibers : v # w => wakes'[v] = wakes[v]
  BY FiberAssumption DEF Deliver, TypeInv, TypeOK, FiberTypes, Fibers
<1>3. /\ \A a, i : /\ InNew(f, a, i)' <=> InNew(f, a, i)
                   /\ InRunable(f, a, i)' <=> InRunable(f, a, i)
                   /\ AtDispatch(f, a)' <=> AtDispatch(f, a)
                   /\ InStray(f, a)' <=> InStray(f, a)
      /\ \A a : InHands(f, a)' <=> InHands(f, a) \/ (a = Poller /\ f = w)
  BY <1>1, TakesInHands
<1>4. \A v : WithWaker(f, v)' <=> WithWaker(f, v) \/ (v = w /\ f = g)
  BY <1>2 DEF WithWaker
<1>8. f # w => ShrinksOr(f, "waker", 0)
  BY <1>1, <1>3, <1>4 DEF Tick, ShrinksOr
<1>5. CASE f # w /\ f # g
  <2>1. \A k, a, i : Tick(f, k, a, i)' <=> Tick(f, k, a, i)
    BY <1>1, <1>3, <1>4, <1>5 DEF Tick
  <2>2. /\ OneForm(f)' <=> OneForm(f)
        /\ QueuedForm(f)' <=> QueuedForm(f)
        /\ PromisedForm(f)' <=> PromisedForm(f)
    BY <2>1, SameForms
  <2> QED BY <1>5, <1>8, <2>2, FormsOf DEF Kept
<1>6. CASE f = g
  <2>1. Tick(f, "armed", 0, 0)
    BY <1>1, <1>6 DEF Tick
  <2>2. \A k, a, i : Tick(f, k, a, i)' <=>
            \/ Tick(f, k, a, i) /\ ~(k = "armed" /\ a = 0 /\ i = 0)
            \/ k = "waker" /\ a = 0 /\ i = w
    BY <1>1, <1>2, <1>3, <1>4, <1>6 DEF Tick
  <2>3. MovesTick(f, "armed", 0, 0, "waker", 0, w)
    BY <2>1, <2>2 DEF MovesTick
  <2>4. Kept(f)
    BY <2>3, TickMoves
  <2> QED BY <1>2, <1>6, <1>8, <2>4
<1>7. CASE f = w /\ ~Pending(f)
  <2>1. OnlyTick(f, "carried", Poller, 0)'
    BY <1>1, <1>2, <1>3, <1>4, <1>7, NotPending DEF OnlyTick, Tick
  <2> QED BY <1>2, <1>7, <2>1, OneTick DEF GetsPromised
<1> QED BY <1>5, <1>6, <1>7, <1>8

-----------------------------------------------------------------------------
(* The inductive invariant *)

\* A processer at these labels has a fiber in its hands.
Holding == {"dispatch", "body", "armed", "switch"} \cup Adding
\* A processer at these labels has m_state == running, until the stop.
Active == Holding \cup {"loop", "refill", "idle", "idleTest", "idleReset", "idleState"}
Stopping == {"stopSet", "stopNotify", "join", "joinPoller"}

CurPlaced == \A p \in Procs : pc[p] \notin Holding => cur[p] = NoFiber

OwnerPlaced ==
    /\ pc[Main] \in Stopping => sched = "stop"
    /\ pc[Main] = "joinPoller" \/ sched = "done" => \A p \in Procs : pc[p] = "exit"

StatePlaced ==
    sched = "running" => \A p \in Procs :
        pstate[p] # "stop" /\ (pc[p] \in Active => pstate[p] = "running")

Placed == CurPlaced /\ OwnerPlaced /\ StatePlaced

\* A waker fiber that does not exist yet has nothing to pass on.
FreeWaker == \A w \in Fibers : fstate[w] = "free" => wakes[w] = NoFiber

\* Between its Arm and its SwapOut a fiber may be pending.
LeavesArmed(p, f) == pc[p] = "armed" \/ (pc[p] = "switch" /\ fstate[f] = "block")

\* What holds of one fiber at any time.
FiberInv(f) ==
    /\ One(f)
    /\ fstate[f] \in {"free", "done"} => ~Pending(f)
    /\ \A p \in Procs : Executes(p, f) =>
         /\ fstate[f] # "free"
         /\ pc[p] # "switch" => fstate[f] = "running"
         /\ Pending(f) => LeavesArmed(p, f)
    /\ \A p, q \in Procs : Executes(p, f) /\ Executes(q, f) => p = q

\* Where a fiber that p executes may be pending before the stop: its wake-up is
\* on its way to p, and only p can dispatch it.
Near(p, k, a) ==
    \/ k \in {"armed", "waker"}
    \/ k \in {"new", "stray"} /\ a = p
    \/ /\ k = "carried"
       /\ pc[a] = "own" \/ (pc[a] \in {"check", "push", "write"} /\ tgt[a] = p)
AllNear(p, f) == \A x \in Tickets(f) : Near(p, x[1], x[2])

\* What holds of it until the scheduler stops, and what of that until two pushes
\* overlap.
RunningInv(f) ==
    sched = "running" =>
        /\ \A p \in Procs : Executes(p, f) => fproc[f] = p /\ AllNear(p, f)
        /\ overlapped = {} =>
             /\ \A p \in Procs : Executes(p, f) /\ LeavesArmed(p, f) => Pending(f)
             /\ fstate[f] \in {"running", "block"} =>
                  Pending(f) \/ \E p \in Procs : Executes(p, f)

TicketInv ==
    /\ Placed
    /\ FreeWaker
    /\ \A f \in Fibers : FiberInv(f) /\ RunningInv(f)

-----------------------------------------------------------------------------
(* Threads and processers *)

\* What a call of addFiber leaves of the other parts.
LEMMA AddFrame ==
    ASSUME TypeInv, NEW t \in Threads, AddStep(t)
    PROVE  /\ UNCHANGED <<sched, pstate, cur, fstate, fproc, wakes>>
           /\ pc[t] \in Adding
           /\ pc'[t] \in Adding \cup {Home(t)}
           /\ \A u \in Threads : u # t => \/ pc'[u] = pc[u]
                                          \/ pc[u] = "waiting" /\ pc'[u] = "woken"
<1> USE DEF TypeInv, TypeOK, PcTypes, Adding, AfterAdd, Goto, stateVars, localVars,
        fiberVars
<1>1. CASE TryOwn(t)
  BY <1>1 DEF TryOwn
<1>2. CASE Scan(t)
  BY <1>2 DEF Scan
<1>3. CASE Rotate(t) \/ Count(t) \/ Peek(t)
  BY <1>3 DEF Rotate, Count, Peek
<1>7. CASE PushTest(t) \/ PushWrite(t) \/ PushStore(t)
  BY <1>7 DEF PushTest, PushWrite, PushStore, callVars
<1>4. CASE CheckStopped(t)
  BY <1>4 DEF CheckStopped, Leave
<1>5. CASE Flag(t)
  BY <1>5 DEF Flag, Leave
<1>6. CASE Notify(t)
  BY <1>6 DEF Notify, NotifyProcesser
<1> QED BY <1>1, <1>2, <1>3, <1>4, <1>5, <1>6, <1>7 DEF AddStep

\* addFiber leaves every processer's labels and state in step.
LEMMA PlacedAdd ==
    ASSUME TypeInv, Placed, NEW t \in Threads, AddStep(t)
    PROVE  Placed'
<1> USE ThreadFacts DEF TypeInv, TypeOK, PcTypes, StateTypes, LocalTypes, Placed
<1>1. /\ sched' = sched /\ pstate' = pstate /\ cur' = cur
      /\ pc[t] \in Adding
      /\ pc'[t] \in Adding \cup {Home(t)}
      /\ \A u \in Threads : u # t => \/ pc'[u] = pc[u]
                                     \/ pc[u] = "waiting" /\ pc'[u] = "woken"
  BY AddFrame
<1>2. /\ t \in Procs => Home(t) = "body"
      /\ t = Main => Home(t) = "user"
  BY DEF Home
<1>3. CurPlaced'
  BY <1>1, <1>2 DEF CurPlaced, Holding, Adding
<1>4. OwnerPlaced'
  <2>1. pc'[Main] \in Stopping => pc[Main] \in Stopping
    BY <1>1, <1>2 DEF Stopping, Adding
  <2>2. pc'[Main] = "joinPoller" => pc[Main] = "joinPoller"
    BY <1>1, <1>2 DEF Adding
  <2>3. (\A p \in Procs : pc[p] = "exit") => \A p \in Procs : pc'[p] = "exit"
    BY <1>1 DEF Adding
  <2> QED BY <1>1, <2>1, <2>2, <2>3 DEF OwnerPlaced
<1>5. StatePlaced'
  BY <1>1, <1>2 DEF StatePlaced, Active, Holding, Adding
<1> QED BY <1>3, <1>4, <1>5

\* A processer's loop leaves labels and states in step.
LEMMA PlacedProc ==
    ASSUME TypeInv, Placed, NEW p \in Procs, ProcStep(p) \/ SpuriousWake(p) \/ BodyStep(p)
    PROVE  Placed'
<1> USE ThreadFacts DEF TypeInv, TypeOK, PcTypes, StateTypes, LocalTypes, Placed
<1>1. /\ sched' = sched
      /\ \A u \in Threads : u # p => pc'[u] = pc[u]
      /\ \A r \in Procs : r # p => pstate'[r] = pstate[r] /\ cur'[r] = cur[r]
      /\ pc[p] # "exit"
  BY DEF ProcStep, SpuriousWake, BodyStep, Start, Loop, Refill, Dispatch, SwitchOut,
     IdleLock, IdleTest, IdleReset, IdleState, IdleCheck, IdleWait, CreateFromTask,
     Create, Arm, Reschedule, PassOn, Finish, Yield, Running, Goto, stateVars, localVars
<1>2. CurPlaced'
  <2>1. pc'[p] \notin Holding => cur'[p] = NoFiber
    <3>1. ProcStep(p) \/ SpuriousWake(p) => (pc'[p] \notin Holding => cur'[p] = NoFiber)
      BY DEF ProcStep, SpuriousWake, Start, Loop, Refill, Dispatch, SwitchOut,
         IdleLock, IdleTest, IdleReset, IdleState, IdleCheck, IdleWait, Goto, localVars,
         CurPlaced, Holding, Adding
    <3>2. BodyStep(p) => pc'[p] \in Holding
      BY DEF BodyStep, CreateFromTask, Create, Arm, Reschedule, PassOn, Finish, Yield,
         Goto, Holding, Adding
    <3> QED BY <3>1, <3>2
  <2> QED BY <1>1, <2>1 DEF CurPlaced
<1>3. OwnerPlaced'
  BY <1>1 DEF OwnerPlaced
<1>4. StatePlaced'
  <2>1. ASSUME pstate[p] # "stop", pc[p] \in Active => pstate[p] = "running"
        PROVE  pstate'[p] # "stop" /\ (pc'[p] \in Active => pstate'[p] = "running")
    <3>1. CASE ProcStep(p) \/ SpuriousWake(p)
      <4>1. CASE Start(p)
        BY <4>1 DEF Start
      <4>2. CASE IdleState(p)
        BY <4>2 DEF IdleState, Goto, Active, Holding, Adding
      <4>3. CASE \/ Loop(p) \/ Refill(p) \/ Dispatch(p) \/ SwitchOut(p) \/ IdleLock(p)
                 \/ IdleTest(p) \/ IdleReset(p)
        <5>1. pc[p] \in Active /\ pstate' = pstate
          BY <4>3 DEF Loop, Refill, Dispatch, SwitchOut, IdleLock, IdleTest, IdleReset,
             stateVars, Active, Holding
        <5> QED BY <2>1, <5>1
      <4>4. CASE IdleCheck(p) \/ IdleWait(p) \/ SpuriousWake(p)
        <5>1. pc'[p] \notin Active /\ pstate' = pstate
          BY <4>4 DEF IdleCheck, IdleWait, SpuriousWake, Goto, stateVars, Active,
             Holding, Adding
        <5> QED BY <2>1, <5>1
      <4> QED BY <3>1, <4>1, <4>2, <4>3, <4>4 DEF ProcStep
    <3>2. BodyStep(p) => pc[p] \in Active /\ pstate' = pstate
      BY DEF BodyStep, CreateFromTask, Create, Arm, Reschedule, PassOn, Finish, Yield,
         Running, Goto, stateVars, Active, Holding
    <3> QED BY <2>1, <3>1, <3>2
  <2> QED BY <1>1, <2>1 DEF StatePlaced
<1> QED BY <1>2, <1>3, <1>4

\* stop wakes waiting processers and moves no other.
LEMMA StopNotifyFrame ==
    ASSUME TypeInv, StopNotify
    PROVE  \A p \in Procs : pc'[p] = pc[p] \/ (pc[p] = "waiting" /\ pc'[p] = "woken")
<1>1. pc \in [Threads -> PCs] /\ Main \in Threads
      /\ \A p \in Procs : p \in Threads /\ p # Main
  BY ThreadFacts DEF TypeInv, TypeOK, PcTypes
<1>2. \E l : NotifyProcesser(Main, tgt[Main], l)
  BY DEF StopNotify
<1> QED BY <1>1, <1>2 DEF NotifyProcesser

\* The owner and the poller leave labels and states in step.
LEMMA PlacedOwner ==
    ASSUME TypeInv, Placed,
           (\E f \in Tasks : MainCreate(f)) \/ MainStop \/ StopStep \/ PollStep
    PROVE  Placed'
<1> USE ThreadFacts DEF TypeInv, TypeOK, PcTypes, StateTypes, LocalTypes, Placed
<1>1. /\ cur' = cur
      /\ \A p \in Procs : \/ pc'[p] = pc[p]
                          \/ pc[p] = "waiting" /\ pc'[p] = "woken"
  <2>1. CASE (\E f \in Tasks : MainCreate(f)) \/ MainStop \/ PollStep
    BY <2>1 DEF MainCreate, MainStop, PollStep, PollExit, Deliver, Create, Goto,
       localVars
  <2>2. CASE StopSet \/ Join \/ JoinPoller
    BY <2>2 DEF StopSet, Join, JoinPoller, Goto, localVars
  <2>3. CASE StopNotify
    <3>1. cur' = cur
      BY <2>3 DEF StopNotify, localVars
    <3> QED BY <2>3, <3>1, StopNotifyFrame
  <2> QED BY <2>1, <2>2, <2>3 DEF StopStep
<1>2. CurPlaced'
  BY <1>1 DEF CurPlaced, Holding, Adding
<1>3. (\A p \in Procs : pc[p] = "exit") => \A p \in Procs : pc'[p] = "exit"
  BY <1>1
<1>4. CASE (\E f \in Tasks : MainCreate(f)) \/ PollStep
  <2>1. /\ sched' = sched /\ pstate' = pstate
        /\ pc'[Main] = pc[Main] \/ pc'[Main] = "own"
    BY <1>4 DEF MainCreate, PollStep, PollExit, Deliver, Create, Goto, stateVars
  <2>2. OwnerPlaced'
    BY <1>3, <2>1 DEF OwnerPlaced, Stopping
  <2>3. StatePlaced'
    BY <1>1, <2>1 DEF StatePlaced, Active, Holding, Adding
  <2> QED BY <1>2, <2>2, <2>3
<1>5. CASE MainStop \/ StopStep
  <2>1. sched' # "running"
    BY <1>5 DEF MainStop, StopStep, StopSet, StopNotify, Join, JoinPoller, stateVars,
       OwnerPlaced, Stopping
  <2>2. OwnerPlaced'
    <3>1. CASE MainStop
      BY <1>3, <3>1 DEF MainStop, Goto, OwnerPlaced, Stopping
    <3>2. CASE StopSet
      BY <1>3, <3>2 DEF StopSet, Goto, OwnerPlaced, Stopping
    <3>3. CASE StopNotify
      <4>1. sched' = sched /\ pc[Main] = "stopNotify" /\ pc'[Main] \in {"stopSet", "join"}
        BY <3>3 DEF StopNotify, NotifyProcesser
      <4> QED BY <1>3, <4>1 DEF OwnerPlaced, Stopping
    <3>4. CASE Join
      BY <1>3, <3>4 DEF Join, Goto, stateVars, OwnerPlaced, Stopping
    <3>5. CASE JoinPoller
      BY <1>3, <3>5 DEF JoinPoller, Goto, OwnerPlaced, Stopping
    <3> QED BY <1>5, <3>1, <3>2, <3>3, <3>4, <3>5 DEF StopStep
  <2> QED BY <1>2, <2>1, <2>2 DEF StatePlaced
<1> QED BY <1>4, <1>5

\* Every step leaves labels and states in step.
LEMMA PlacedStep ==
    ASSUME TypeInv, Placed, Next
    PROVE  Placed'
<1>1. CASE Ended
  BY <1>1 DEF Ended, vars, stateVars, localVars, Placed, CurPlaced, OwnerPlaced, StatePlaced
<1> QED BY <1>1, PlacedAdd, PlacedProc, PlacedOwner DEF Next

-----------------------------------------------------------------------------
(* The fibers a step is not about *)

\* The fiber is run where it was run, at the same stage.
SameRun(f) ==
    /\ fstate'[f] = fstate[f] /\ fproc'[f] = fproc[f]
    /\ \A p \in Procs :
         /\ Executes(p, f)' <=> Executes(p, f)
         /\ Executes(p, f) => /\ pc'[p] = "armed" <=> pc[p] = "armed"
                              /\ pc'[p] = "switch" <=> pc[p] = "switch"

\* No fiber is the null pointer.
LEMMA RealFiber == \A f \in Fibers : f # NoFiber
BY FiberAssumption DEF Fibers

\* addFiber runs no fiber.
LEMMA RunAdd ==
    ASSUME TypeInv, NEW t \in Threads, AddStep(t), NEW f \in Fibers
    PROVE  SameRun(f)
<1>1. t \in Procs => Home(t) = "body"
  BY ThreadFacts DEF Home
<1> QED BY <1>1, AddFrame, ThreadFacts DEF SameRun, Executes, Adding

\* A processer's loop begins and ends the run of the fiber in its hands only.
LEMMA RunProc ==
    ASSUME TypeInv, Placed, NEW p \in Procs, ProcStep(p) \/ SpuriousWake(p),
           NEW f \in Fibers, Dispatch(p) \/ SwitchOut(p) => f # cur[p]
    PROVE  SameRun(f)
<1> USE ThreadFacts, RealFiber
    DEF TypeInv, TypeOK, PcTypes, LocalTypes, FiberTypes, Goto, SameRun, Executes,
        localVars, fiberVars
<1>1. pc[p] \notin Holding => cur[p] = NoFiber
  BY DEF Placed, CurPlaced
<1>2. CASE Loop(p)
  <2>1. cur[p] = NoFiber
    BY <1>1, <1>2 DEF Loop, Holding, Adding
  <2> QED BY <1>2, <2>1 DEF Loop
<1>3. CASE Dispatch(p)
  BY <1>3 DEF Dispatch
<1>4. CASE SwitchOut(p)
  BY <1>4 DEF SwitchOut
<1>5. CASE \/ Start(p) \/ Refill(p) \/ IdleLock(p) \/ IdleTest(p) \/ IdleReset(p)
           \/ IdleState(p) \/ IdleCheck(p) \/ IdleWait(p) \/ SpuriousWake(p)
  BY <1>5 DEF Start, Refill, IdleLock, IdleTest, IdleReset, IdleState, IdleCheck,
     IdleWait, SpuriousWake
<1> QED BY <1>2, <1>3, <1>4, <1>5 DEF ProcStep

\* A step of a running fiber changes the run of the fibers it names only.
LEMMA RunBody ==
    ASSUME TypeInv, NEW p \in Procs, NEW f \in Fibers
    PROVE  /\ \A g, h \in Tasks : CreateFromTask(p, g, h) /\ f # h => SameRun(f)
           /\ \A g \in Tasks : (Arm(p, g) \/ Reschedule(p, g)) /\ f # g => SameRun(f)
           /\ \A g \in Wakers : PassOn(p, g) => SameRun(f)
           /\ \A g \in Fibers : Finish(p, g) /\ f # g => SameRun(f)
           /\ Yield(p) /\ f # cur[p] => SameRun(f)
<1> USE ThreadFacts
    DEF TypeInv, TypeOK, PcTypes, FiberTypes, LocalTypes, Goto, SameRun, Executes,
        localVars, fiberVars, Running
<1>1. ASSUME NEW g \in Tasks, NEW h \in Tasks, CreateFromTask(p, g, h), f # h
      PROVE  SameRun(f)
  BY <1>1 DEF CreateFromTask, Create
<1>2. ASSUME NEW g \in Tasks, Arm(p, g) \/ Reschedule(p, g), f # g
      PROVE  SameRun(f)
  BY <1>2 DEF Arm, Reschedule
<1>3. ASSUME NEW g \in Wakers, PassOn(p, g) PROVE SameRun(f)
  BY <1>3 DEF PassOn
<1>4. ASSUME NEW g \in Fibers, Finish(p, g), f # g PROVE SameRun(f)
  BY <1>4 DEF Finish
<1>5. ASSUME Yield(p), f # cur[p] PROVE SameRun(f)
  BY <1>5 DEF Yield
<1> QED BY <1>1, <1>2, <1>3, <1>4, <1>5

\* The owner and the poller change the run of the fiber they create only.
LEMMA RunOwner ==
    ASSUME TypeInv, NEW f \in Fibers
    PROVE  /\ \A g \in Tasks : MainCreate(g) /\ f # g => SameRun(f)
           /\ MainStop \/ StopStep \/ PollExit => SameRun(f)
           /\ \A g \in Tasks, w \in Wakers : Deliver(g, w) /\ f # w => SameRun(f)
<1> USE ThreadFacts
    DEF TypeInv, TypeOK, PcTypes, FiberTypes, LocalTypes, Goto, SameRun, Executes,
        localVars, fiberVars
<1>1. ASSUME NEW g \in Tasks, MainCreate(g), f # g PROVE SameRun(f)
  BY <1>1 DEF MainCreate, Create
<1>2. ASSUME MainStop \/ StopSet \/ Join \/ JoinPoller \/ PollExit PROVE SameRun(f)
  BY <1>2 DEF MainStop, StopSet, Join, JoinPoller, PollExit
<1>3. ASSUME StopNotify PROVE SameRun(f)
  <2>1. UNCHANGED <<fstate, fproc, cur>>
    BY <1>3 DEF StopNotify
  <2>2. \A p \in Procs : \/ pc'[p] = pc[p]
                         \/ pc[p] = "waiting" /\ pc'[p] = "woken"
    BY <1>3, StopNotifyFrame
  <2> QED BY <2>1, <2>2
<1>4. ASSUME NEW g \in Tasks, NEW w \in Wakers, Deliver(g, w), f # w PROVE SameRun(f)
  BY <1>4 DEF Deliver, Create
<1> QED BY <1>1, <1>2, <1>3, <1>4 DEF StopStep

\* The fiber stays as pending as it was.
Still(f) == (One(f) => One(f)') /\ (Pending(f)' <=> Pending(f))

\* A fiber that keeps its tickets is pending exactly if it was.
LEMMA KeptStill ==
    ASSUME NEW f, Kept(f)
    PROVE  Still(f)
BY FormsOf DEF Kept, Still

\* What the invariant says of one fiber is kept by a step that is not about it.
LEMMA UndisturbedInv ==
    ASSUME NEW f \in Fibers, FiberInv(f), Still(f), SameRun(f)
    PROVE  FiberInv(f)'
<1>1. Pending(f)' <=> Pending(f)
  BY DEF Still
<1>2. One(f)'
  BY DEF Still, FiberInv
<1>3. fstate'[f] = fstate[f]
  BY DEF SameRun
<1>4. (fstate[f] \in {"free", "done"} => ~Pending(f))'
  BY <1>1, <1>3 DEF FiberInv
<1>5. ASSUME NEW p \in Procs, Executes(p, f)'
      PROVE  (/\ fstate[f] # "free"
              /\ pc[p] # "switch" => fstate[f] = "running"
              /\ Pending(f) => LeavesArmed(p, f))'
  <2>1. Executes(p, f) /\ (pc'[p] = "armed" <=> pc[p] = "armed")
        /\ (pc'[p] = "switch" <=> pc[p] = "switch")
    BY <1>5 DEF SameRun
  <2>2. /\ fstate[f] # "free"
        /\ pc[p] # "switch" => fstate[f] = "running"
        /\ Pending(f) => LeavesArmed(p, f)
    BY <2>1 DEF FiberInv
  <2> QED BY <1>1, <1>3, <2>1, <2>2 DEF LeavesArmed
<1>6. ASSUME NEW p \in Procs, NEW q \in Procs, Executes(p, f)', Executes(q, f)'
      PROVE  p = q
  BY <1>6 DEF SameRun, FiberInv
<1> QED BY <1>2, <1>4, <1>5, <1>6 DEF FiberInv

\* A stop and an overlap are for good.
Onward == /\ sched' = "running" => sched = "running"
          /\ overlapped' = {} => overlapped = {}

\* What is known of a running fiber stays while its run and its tickets do.
LEMMA UndisturbedRunning ==
    ASSUME NEW f \in Fibers, RunningInv(f), Still(f), SameRun(f),
           Onward,
           \A p \in Procs : sched = "running" /\ Executes(p, f) /\ Executes(p, f)'
                                => AllNear(p, f)'
    PROVE  RunningInv(f)'
<1> SUFFICES ASSUME sched' = "running"
             PROVE  /\ \A p \in Procs : Executes(p, f)' => fproc'[f] = p /\ AllNear(p, f)'
                    /\ overlapped' = {} =>
                         /\ \A p \in Procs : Executes(p, f)' /\ LeavesArmed(p, f)' => Pending(f)'
                         /\ fstate'[f] \in {"running", "block"} =>
                              Pending(f)' \/ \E p \in Procs : Executes(p, f)'
  BY DEF RunningInv
<1>0. sched = "running" /\ (overlapped' = {} => overlapped = {})
  BY DEF Onward
<1>1. Pending(f)' <=> Pending(f)
  BY DEF Still
<1>2. fstate'[f] = fstate[f] /\ fproc'[f] = fproc[f]
  BY DEF SameRun
<1>3. ASSUME NEW p \in Procs, Executes(p, f)' PROVE fproc'[f] = p /\ AllNear(p, f)'
  BY <1>0, <1>2, <1>3 DEF SameRun, RunningInv
<1>4. ASSUME NEW p \in Procs, overlapped' = {}, Executes(p, f)', LeavesArmed(p, f)'
      PROVE  Pending(f)'
  BY <1>0, <1>1, <1>2, <1>4 DEF SameRun, RunningInv, LeavesArmed
<1>5. overlapped' = {} /\ fstate'[f] \in {"running", "block"} =>
        Pending(f)' \/ \E p \in Procs : Executes(p, f)'
  BY <1>0, <1>1, <1>2 DEF SameRun, RunningInv
<1> QED BY <1>3, <1>4, <1>5

-----------------------------------------------------------------------------
(* The wake-up of a fiber that still runs stays on its way to its processer *)

NearForm == \A p, f : AllNear(p, f) <=> \A k, a, i : Tick(f, k, a, i) => Near(p, k, a)

\* AllNear in terms of Tick.
LEMMA NearFormNow == NearForm
<1> SUFFICES ASSUME NEW p, NEW f
             PROVE  AllNear(p, f) <=> \A k, a, i : Tick(f, k, a, i) => Near(p, k, a)
  BY DEF NearForm
<1>0. /\ \A k, a, i : <<k, a, i>> \in Tickets(f) <=> Tick(f, k, a, i)
      /\ \A x \in Tickets(f) : x = <<x[1], x[2], x[3]>>
  BY TicketsAreTicks DEF TicketForm
<1>1. ASSUME AllNear(p, f), NEW k, NEW a, NEW i, Tick(f, k, a, i) PROVE Near(p, k, a)
  <2>1. <<k, a, i>> \in Tickets(f)
    BY <1>0, <1>1
  <2> QED BY <1>1, <2>1 DEF AllNear
<1>2. ASSUME \A k, a, i : Tick(f, k, a, i) => Near(p, k, a) PROVE AllNear(p, f)
  <2>1. ASSUME NEW x \in Tickets(f) PROVE Near(p, x[1], x[2])
    BY <1>0, <1>2
  <2> QED BY <2>1 DEF AllNear
<1> QED BY <1>1, <1>2

\* The same after a step.
LEMMA NearFormNext == NearForm'
BY NearFormNow, PTL

\* From AllNear to each tick, and back.
LEMMA NearOf ==
    ASSUME NEW p, NEW f
    PROVE  /\ AllNear(p, f) => \A k, a, i : Tick(f, k, a, i) => Near(p, k, a)
           /\ (\A k, a, i : Tick(f, k, a, i)' => Near(p, k, a)') => AllNear(p, f)'
BY NearFormNow, NearFormNext DEF NearForm

\* Tickets stay near as long as those that carry the fiber move on with it.
LEMMA NearStays ==
    ASSUME TypeInv, Placed, sched = "running", NEW p \in Procs, NEW f \in Fibers,
           Executes(p, f), fproc[f] = p, AllNear(p, f),
           NEW k, NEW a, NEW i, Tick(f, k, a, i), Tick(f, k, a, i)',
           InHands(f, a) /\ InHands(f, a)' => MovesOn(a)
    PROVE  Near(p, k, a)'
<1>1. Near(p, k, a)
  BY NearOf
<1>2. CASE k = "carried"
  <2>1. InHands(f, a) /\ InHands(f, a)'
    BY <1>2 DEF Tick
  <2>2. a \in Threads /\ arg[a] = f /\ pc[a] \in CarryPCs
    BY <2>1 DEF InHands, Carries, CarryPCs
  <2>3. pc[a] = "own" \/ (pc[a] \in {"check", "push", "write"} /\ tgt[a] = p)
    BY <1>1, <1>2 DEF Near
  <2>4. ASSUME TryOwn(a) PROVE pc'[a] = "check" /\ tgt'[a] = p
    <3>1. pc[p] \in Holding
      BY RealFiber DEF Executes, Placed, CurPlaced
    <3>2. pstate[p] = "running"
      BY <3>1 DEF Placed, StatePlaced, Active
    <3>3. OwnProcesser(arg[a]) = p /\ p # NoProc
      BY <2>2, <3>2, ThreadFacts DEF OwnProcesser
    <3> QED BY <2>2, <2>4, <3>3 DEF TryOwn, Goto, TypeInv, TypeOK, PcTypes, CallTypes
  <2>5. MovesOn(a)
    BY <2>1
  <2> QED BY <1>2, <2>2, <2>3, <2>4, <2>5 DEF MovesOn, Near
<1>3. CASE k # "carried"
  BY <1>1, <1>3 DEF Near
<1> QED BY <1>2, <1>3

\* The same for all tickets at once.
LEMMA NearAll ==
    ASSUME TypeInv, Placed, sched = "running", NEW p \in Procs, NEW f \in Fibers,
           Executes(p, f), fproc[f] = p, AllNear(p, f),
           \A u \in Threads : InHands(f, u) /\ InHands(f, u)' => MovesOn(u)
    PROVE  /\ Shrinks(f) => AllNear(p, f)'
           /\ \A l, b : ShrinksOr(f, l, b) /\ Near(p, l, b)' => AllNear(p, f)'
           /\ \A q : q # p /\ Draws(f, q) => AllNear(p, f)'
<1>1. ASSUME NEW k, NEW a, NEW i, Tick(f, k, a, i), Tick(f, k, a, i)'
      PROVE  Near(p, k, a)'
  <2>1. InHands(f, a) => a \in Threads
    BY DEF InHands
  <2> QED BY <1>1, <2>1, NearStays
<1>2. ASSUME Shrinks(f) PROVE AllNear(p, f)'
  <2>1. ASSUME NEW k, NEW a, NEW i, Tick(f, k, a, i)' PROVE Near(p, k, a)'
    BY <1>1, <1>2, <2>1 DEF Shrinks
  <2> QED BY <2>1, NearOf
<1>3. ASSUME NEW l, NEW b, ShrinksOr(f, l, b), Near(p, l, b)' PROVE AllNear(p, f)'
  <2>1. ASSUME NEW k, NEW a, NEW i, Tick(f, k, a, i)' PROVE Near(p, k, a)'
    BY <1>1, <1>3, <2>1 DEF ShrinksOr
  <2> QED BY <2>1, NearOf
<1>4. ASSUME NEW q, q # p, Draws(f, q) PROVE AllNear(p, f)'
  <2>1. \A j : ~Tick(f, "new", q, j)
    BY <1>4, NearOf DEF Near
  <2>2. ASSUME NEW k, NEW a, NEW i, Tick(f, k, a, i)' PROVE Near(p, k, a)'
    BY <1>1, <1>4, <2>1, <2>2 DEF Draws
  <2> QED BY <2>2, NearOf
<1> QED BY <1>2, <1>3, <1>4

-----------------------------------------------------------------------------
(* The steps *)

Good(f) == FiberInv(f) /\ RunningInv(f)
Same(f) == Still(f) /\ SameRun(f)

\* A step that moves no ticket at all.
LEMMA GoodQuiet ==
    ASSUME TypeInv, Placed, NEW f \in Fibers, Good(f), SameRun(f), Quiet,
           \A u \in Threads : MovesOn(u), Onward
    PROVE  Good(f)'
<1>1. Still(f)
  BY KeptQuiet, KeptStill
<1>2. Shrinks(f)
  BY TickQuiet DEF Shrinks
<1>3. ASSUME NEW p \in Procs, sched = "running", Executes(p, f) PROVE AllNear(p, f)'
  <2>1. fproc[f] = p /\ AllNear(p, f)
    BY <1>3 DEF Good, RunningInv
  <2> QED BY <1>2, <1>3, <2>1, NearAll
<1> QED BY <1>1, <1>3, UndisturbedInv, UndisturbedRunning DEF Good

\* A fiber that loses its ticket while nobody runs it, at a stop.
LEMMA GoodSpent ==
    ASSUME NEW f \in Fibers, FiberInv(f), SameRun(f), One(f)', ~Pending(f)',
           sched' # "running"
    PROVE  Good(f)'
<1>1. FiberInv(f)'
  BY DEF FiberInv, SameRun
<1> QED BY <1>1 DEF Good, RunningInv

\* A fiber that has just been created.
LEMMA GoodCreated ==
    ASSUME NEW f \in Fibers, FiberInv(f), fstate[f] = "free", GetsPromised(f),
           fstate'[f] = "running", \A p \in Procs : Executes(p, f)' => Executes(p, f)
    PROVE  Good(f)'
<1>1. Pending(f)' /\ One(f)'
  BY FormsOf DEF GetsPromised
<1>2. \A p \in Procs : ~Executes(p, f)'
  BY DEF FiberInv
<1> QED BY <1>1, <1>2 DEF Good, FiberInv, RunningInv

\* A fiber that an overlapping push has displaced.
LEMMA GoodLost ==
    ASSUME NEW f \in Fibers, Good(f), SameRun(f), One(f)', ~Pending(f)',
           sched' = sched, overlapped' # {}
    PROVE  Good(f)'
<1>1. FiberInv(f)'
  BY DEF Good, FiberInv, SameRun
<1>2. ASSUME sched = "running", NEW p \in Procs, Executes(p, f)'
      PROVE  fproc'[f] = p /\ AllNear(p, f)'
  BY <1>2 DEF Good, RunningInv, SameRun, Pending, AllNear
<1> QED BY <1>1, <1>2 DEF Good, RunningInv

\* In the middle of a push every thread that has a fiber in its hands keeps it there.
LEMMA PushMoves ==
    ASSUME TypeInv, NEW t \in Threads, PushWrite(t) \/ PushStore(t), NEW f
    PROVE  /\ sched' = sched /\ overlapped' = overlapped
           /\ \A u \in Threads : InHands(f, u)' => MovesOn(u)
<1>1. /\ sched' = sched /\ overlapped' = overlapped /\ tgt' = tgt
      /\ pc'[t] \in {"store", "count"}
      /\ \A u \in Threads : u # t => pc'[u] = pc[u]
  BY DEF PushWrite, PushStore, Goto, stateVars, callVars, TypeInv, TypeOK, PcTypes
<1>2. ASSUME NEW u \in Threads, InHands(f, u)' PROVE MovesOn(u)
  <2>1. u # t
    BY <1>1, <1>2 DEF InHands, Carries
  <2> QED BY <1>1, <2>1 DEF MovesOn
<1> QED BY <1>1, <1>2

\* A push's write keeps every fiber good.
LEMMA GoodWrite ==
    ASSUME TypeInv, TicketInv, Onward, NEW t \in Threads, PushWrite(t), NEW f \in Fibers
    PROVE  Good(f)'
<1>0. Good(f) /\ Placed /\ One(f)
  BY DEF TicketInv, Good, FiberInv
<1>1. SameRun(f)
  BY RunAdd DEF AddStep
<1>2. /\ sched' = sched /\ overlapped' = overlapped
      /\ \A u \in Threads : InHands(f, u)' => MovesOn(u)
  BY PushMoves
<1>3. PICK g, l, j : Writes(t, g, l, j)
  BY TickWrite
<1>4. CASE f = g /\ f # arg[t]
  <2>1. tgt[t] \in overlapped
    BY <1>3, <1>4, RealFiber DEF Writes
  <2>2. One(f)' /\ ~Pending(f)'
    BY <1>0, <1>3, <1>4, WriteEffect
  <2> QED BY <1>0, <1>1, <1>2, <2>1, <2>2, GoodLost
<1>5. CASE f # arg[t] /\ f # g
  <2>1. Still(f) /\ Shrinks(f)
    BY <1>3, <1>5, WriteEffect, KeptStill
  <2>2. ASSUME NEW p \in Procs, sched = "running", Executes(p, f) PROVE AllNear(p, f)'
    <3>1. fproc[f] = p /\ AllNear(p, f)
      BY <1>0, <2>2 DEF Good, RunningInv
    <3> QED BY <1>0, <1>2, <2>1, <2>2, <3>1, NearAll
  <2> QED BY <1>0, <1>1, <2>1, <2>2, UndisturbedInv, UndisturbedRunning DEF Good
<1>6. CASE f = arg[t]
  <2>1. Still(f) /\ ShrinksOr(f, l, tgt[t])
    BY <1>0, <1>3, <1>6, WriteEffect, FormsOf DEF Still
  <2>2. ASSUME NEW p \in Procs, sched = "running", Executes(p, f) PROVE AllNear(p, f)'
    <3>1. fproc[f] = p /\ AllNear(p, f)
      BY <1>0, <2>2 DEF Good, RunningInv
    <3>2. Tick(f, "carried", t, 0) /\ pc[t] = "write"
      BY <1>6 DEF Tick, InHands, Carries, PushWrite
    <3>3. tgt[t] = p
      BY <3>1, <3>2, NearOf DEF Near
    <3>4. Near(p, l, p)'
      BY <1>3 DEF Near, Writes
    <3>5. ShrinksOr(f, l, p)
      BY <2>1, <3>3
    <3> QED BY <1>0, <1>2, <2>2, <3>1, <3>4, <3>5, NearAll
  <2> QED BY <1>0, <1>1, <2>1, <2>2, UndisturbedInv, UndisturbedRunning DEF Good
<1> QED BY <1>4, <1>5, <1>6

\* A push's store keeps every fiber good.
LEMMA GoodStore ==
    ASSUME TypeInv, TicketInv, Onward, NEW t \in Threads, PushStore(t), NEW f \in Fibers
    PROVE  Good(f)'
<1>0. Good(f) /\ Placed
  BY DEF TicketInv, Good
<1>1. SameRun(f)
  BY RunAdd DEF AddStep
<1>2. /\ sched' = sched
      /\ \A u \in Threads : InHands(f, u)' => MovesOn(u)
  BY PushMoves
<1>5. PICK r \in Procs : r = tgt[t]
  BY DEF TypeInv, TypeOK, CallTypes
<1>6. Stores(f, r)
  BY <1>5, TickStore
<1>3. Still(f)
  BY StoreEffect, KeptStill
<1>4. ASSUME NEW p \in Procs, sched = "running", Executes(p, f) PROVE AllNear(p, f)'
  <2>1. fproc[f] = p /\ AllNear(p, f)
    BY <1>0, <1>4 DEF Good, RunningInv
  <2>2. ASSUME NEW k, NEW a, NEW i, Tick(f, k, a, i)', k \in {"new", "stray"}, a = r
        PROVE  a = p
    <3>1. PICK m, x : RingTick(f, r, m, x)
      BY <1>6, <2>2 DEF Stores, RingTick
    <3> QED BY <2>1, <2>2, <3>1, NearOf DEF RingTick, Near
  <2>3. ASSUME NEW k, NEW a, NEW i, Tick(f, k, a, i)' PROVE Near(p, k, a)'
    <3>1. CASE k \in {"new", "stray"} /\ a = r
      BY <2>2, <2>3, <3>1 DEF Near
    <3>2. CASE k \in {"new", "stray"} => a # r
      <4>1. Tick(f, k, a, i)
        BY <1>6, <2>3, <3>2 DEF Stores
      <4>2. InHands(f, a) /\ InHands(f, a)' => MovesOn(a)
        BY <1>2 DEF InHands
      <4> QED BY <1>0, <1>4, <2>1, <2>3, <4>1, <4>2, NearStays
    <3> QED BY <3>1, <3>2
  <2> QED BY <2>3, NearOf
<1> QED BY <1>0, <1>1, <1>3, <1>4, UndisturbedInv, UndisturbedRunning DEF Good

\* Every step of addFiber keeps every fiber good.
LEMMA GoodAdd ==
    ASSUME TypeInv, TicketInv, Onward, NEW t \in Threads, AddStep(t), NEW f \in Fibers
    PROVE  Good(f)'
<1>0. Good(f) /\ Placed
  BY DEF TicketInv, Good
<1>1. SameRun(f) /\ sched' = sched
  BY RunAdd, AddFrame
<1>2. CASE PushWrite(t) \/ PushStore(t)
  BY <1>2, GoodWrite, GoodStore
<1>3. CASE Dropping(t)
  <2>1. sched' # "running"
    <3>1. tgt[t] \in Procs
      BY DEF TypeInv, TypeOK, CallTypes
    <3> QED BY <1>0, <1>1, <1>3, <3>1 DEF Dropping, Placed, StatePlaced
  <2>2. CASE f = arg[t]
    BY <1>0, <1>1, <1>3, <2>1, <2>2, DroppingEffect, GoodSpent DEF Good, FiberInv
  <2>3. CASE f # arg[t]
    <3>1. Still(f)
      BY <1>3, <2>3, DroppingEffect, KeptStill
    <3> QED BY <1>0, <1>1, <2>1, <3>1, UndisturbedInv DEF Good, RunningInv
  <2> QED BY <2>2, <2>3
<1>4. CASE ~PushWrite(t) /\ ~PushStore(t) /\ ~Dropping(t)
  BY <1>0, <1>1, <1>4, AddQuiet, GoodQuiet
<1> QED BY <1>2, <1>3, <1>4

\* A processer that takes fibers off its queues runs none, so only a fiber that
\* nobody runs, or a dispatch after the stop, has a ticket there.
LEMMA GoodTaking ==
    ASSUME TypeInv, TicketInv, Onward, NEW p \in Procs, Taking(p) \/ Refill(p), NEW f \in Fibers
    PROVE  Good(f)'
<1>0. Good(f) /\ Placed
  BY DEF TicketInv, Good
<1>1. SameRun(f) /\ sched' = sched
  <2>1. ProcStep(p) /\ ~Dispatch(p) /\ ~SwitchOut(p)
    BY DEF ProcStep, Taking, Loop, Refill, Dispatch, SwitchOut
  <2>2. sched' = sched
    BY DEF Taking, Loop, Refill, stateVars
  <2> QED BY <1>0, <2>1, <2>2, RunProc
<1>2. Still(f)
  BY TakingEffect, RefillEffect, KeptStill
<1>3. ASSUME NEW u \in Threads PROVE MovesOn(u)
  BY DEF Taking, Loop, Refill, Goto, callVars, MovesOn, CarryPCs, TypeInv, TypeOK, PcTypes
<1>4. ~Executes(p, f)
  <2>1. pc[p] \notin Holding
    BY DEF Taking, Loop, Refill, Holding, Adding
  <2> QED BY <1>0, <2>1, RealFiber DEF Executes, Placed, CurPlaced
<1>5. ASSUME NEW q \in Procs, sched = "running", Executes(q, f) PROVE AllNear(q, f)'
  <2>1. fproc[f] = q /\ AllNear(q, f) /\ q # p
    BY <1>0, <1>4, <1>5 DEF Good, RunningInv
  <2>2. CASE Taking(p)
    <3>1. \A i : ~Tick(f, "runable", p, i)
      BY <2>1, NearOf DEF Near
    <3>2. Shrinks(f)
      BY <2>2, <3>1, TickTaking DEF Shrinks
    <3> QED BY <1>0, <1>3, <1>5, <2>1, <3>2, NearAll
  <2>3. CASE Refill(p)
    <3>1. Draws(f, p)
      BY <2>3, RefillEffect
    <3> QED BY <1>0, <1>3, <1>5, <2>1, <3>1, NearAll
  <2> QED BY <2>2, <2>3
<1> QED BY <1>0, <1>1, <1>2, <1>5, UndisturbedInv, UndisturbedRunning DEF Good

\* A fiber that is dispatched has its ticket in a place where no fiber that
\* somebody runs has one.
LEMMA GoodDispatch ==
    ASSUME TypeInv, TicketInv, Onward, NEW p \in Procs, Dispatch(p), NEW f \in Fibers
    PROVE  Good(f)'
<1> USE ThreadFacts
<1>0. Good(f) /\ Placed
  BY DEF TicketInv, Good
<1>1. sched' = sched /\ pc[p] = "dispatch"
  BY DEF Dispatch, stateVars
<1>2. CASE f # cur[p]
  <2>1. Still(f) /\ Shrinks(f)
    BY <1>2, DispatchEffect, KeptStill
  <2>2. SameRun(f)
    BY <1>0, <1>2, RunProc DEF ProcStep, Dispatch, SwitchOut
  <2>3. ASSUME NEW u \in Threads PROVE MovesOn(u)
    BY DEF Dispatch, Goto, callVars, MovesOn, CarryPCs, TypeInv, TypeOK, PcTypes
  <2>4. ASSUME NEW q \in Procs, sched = "running", Executes(q, f) PROVE AllNear(q, f)'
    <3>1. fproc[f] = q /\ AllNear(q, f)
      BY <1>0, <2>4 DEF Good, RunningInv
    <3> QED BY <1>0, <2>1, <2>3, <2>4, <3>1, NearAll
  <2> QED BY <1>0, <1>1, <2>1, <2>2, <2>4, UndisturbedInv, UndisturbedRunning DEF Good
<1>3. CASE f = cur[p]
  <2>1. One(f)' /\ ~Pending(f)'
    BY <1>0, <1>3, DispatchEffect DEF Good, FiberInv
  <2>2. CASE sched = "stop"
    <3>1. SameRun(f)
      BY <1>1, <1>3, <2>2, RealFiber
      DEF Dispatch, Goto, SameRun, Executes, fiberVars, TypeInv, TypeOK, PcTypes,
          LocalTypes
    <3> QED BY <1>0, <1>1, <2>1, <2>2, <3>1, GoodSpent DEF Good
  <2>3. CASE sched # "stop"
    <3>1. sched = "running"
      BY <1>0, <1>1, <2>3 DEF TypeInv, TypeOK, StateTypes, Placed, OwnerPlaced
    <3>2. Tick(f, "dispatch", p, 0)
      BY <1>1, <1>3 DEF Tick, AtDispatch
    <3>3. \A q \in Procs : ~Executes(q, f)
      BY <1>0, <3>1, <3>2, NearOf DEF Good, RunningInv, Near
    <3>4. /\ fstate'[f] = "running" /\ fproc'[f] = p
          /\ cur' = cur /\ pc'[p] = "body"
          /\ \A q \in Procs : q # p => pc'[q] = pc[q]
      BY <1>3, <2>3 DEF Dispatch, Goto, TypeInv, TypeOK, PcTypes, FiberTypes
    <3>5. \A q \in Procs : Executes(q, f)' <=> q = p
      BY <1>3, <3>3, <3>4 DEF Executes
    <3>6. ~LeavesArmed(p, f)'
      BY <3>4 DEF LeavesArmed
    <3>7. FiberInv(f)'
      BY <2>1, <3>4, <3>5 DEF FiberInv
    <3>8. AllNear(p, f)'
      BY <2>1 DEF Pending, AllNear
    <3>9. RunningInv(f)'
      BY <3>4, <3>5, <3>6, <3>8 DEF RunningInv
    <3> QED BY <3>7, <3>9 DEF Good
  <2> QED BY <2>2, <2>3
<1> QED BY <1>2, <1>3

\* A fiber that has left waits for its ticket, is put back, or has ended.
LEMMA GoodSwitchOut ==
    ASSUME TypeInv, TicketInv, Onward, NEW p \in Procs, SwitchOut(p), NEW f \in Fibers
    PROVE  Good(f)'
<1> USE ThreadFacts
<1>0. Good(f) /\ Placed
  BY DEF TicketInv, Good
<1>1. sched' = sched /\ pc[p] = "switch" /\ ProcStep(p) /\ ~Dispatch(p)
  BY DEF SwitchOut, stateVars, ProcStep, Dispatch
<1>2. ASSUME NEW u \in Threads PROVE MovesOn(u)
  BY DEF SwitchOut, Goto, callVars, MovesOn, CarryPCs, TypeInv, TypeOK, PcTypes
<1>3. ~PuttingBack(p) => Quiet
  BY <1>1, ProcQuiet DEF Taking, Loop, Refill
<1>4. CASE f # cur[p]
  <2>1. SameRun(f)
    BY <1>0, <1>1, <1>4, RunProc
  <2>2. CASE ~PuttingBack(p)
    BY <1>0, <1>1, <1>2, <1>3, <2>1, <2>2, GoodQuiet
  <2>3. CASE PuttingBack(p)
    <3>1. Still(f) /\ Draws(f, p)
      BY <1>4, <2>3, PutBackEffect, KeptStill
    <3>2. ~Executes(p, f)
      BY <1>4 DEF Executes
    <3>3. ASSUME NEW q \in Procs, sched = "running", Executes(q, f) PROVE AllNear(q, f)'
      <4>1. fproc[f] = q /\ AllNear(q, f) /\ q # p
        BY <1>0, <3>2, <3>3 DEF Good, RunningInv
      <4> QED BY <1>0, <1>2, <3>1, <3>3, <4>1, NearAll
    <3> QED BY <1>0, <1>1, <2>1, <3>1, <3>3, UndisturbedInv, UndisturbedRunning DEF Good
  <2> QED BY <2>2, <2>3
<1>5. CASE f = cur[p]
  <2>1. Executes(p, f)
    BY <1>1, <1>5 DEF Executes
  <2>2. \A q \in Procs : ~Executes(q, f)'
    <3>1. \A q \in Procs : Executes(q, f) => q = p
      BY <1>0, <2>1 DEF Good, FiberInv
    <3> QED BY <3>1, RealFiber
        DEF SwitchOut, Executes, Goto, TypeInv, TypeOK, PcTypes, LocalTypes
  <2>3. fstate' = fstate /\ fstate[f] \in {"free", "running", "block", "done"}
    BY DEF SwitchOut, fiberVars, TypeInv, TypeOK, FiberTypes
  <2>4. /\ fstate[f] # "free"
        /\ Pending(f) => fstate[f] = "block"
    BY <1>0, <1>1, <2>1 DEF Good, FiberInv, LeavesArmed
  <2>5. CASE PuttingBack(p)
    <3>1. fstate[f] = "running"
      BY <1>5, <2>5 DEF PuttingBack
    <3>2. One(f)' /\ Pending(f)'
      BY <1>5, <2>4, <2>5, <3>1, PutBackEffect, FormsOf DEF GetsQueued
    <3> QED BY <2>2, <2>3, <3>1, <3>2 DEF Good, FiberInv, RunningInv
  <2>6. CASE ~PuttingBack(p)
    <3>1. Still(f)
      BY <1>3, <2>6, KeptQuiet, KeptStill
    <3>2. fstate[f] # "running"
      BY <1>5, <2>6 DEF PuttingBack
    <3>3. FiberInv(f)'
      BY <1>0, <2>2, <2>3, <3>1 DEF Good, FiberInv, Still
    <3>4. sched = "running" /\ overlapped = {} /\ fstate[f] = "block" => Pending(f)
      BY <1>0, <1>1, <2>1 DEF Good, RunningInv, LeavesArmed
    <3> QED BY <1>1, <2>2, <2>3, <3>1, <3>2, <3>3, <3>4 DEF Good, RunningInv, Still, Onward
  <2> QED BY <2>5, <2>6
<1> QED BY <1>4, <1>5

\* Every step of a processer's loop keeps every fiber good.
LEMMA GoodProc ==
    ASSUME TypeInv, TicketInv, Onward, NEW p \in Procs, ProcStep(p) \/ SpuriousWake(p),
           NEW f \in Fibers
    PROVE  Good(f)'
<1>1. CASE Taking(p) \/ Refill(p)
  BY <1>1, GoodTaking
<1>2. CASE Dispatch(p)
  BY <1>2, GoodDispatch
<1>3. CASE SwitchOut(p)
  BY <1>3, GoodSwitchOut
<1>4. CASE ~Taking(p) /\ ~Refill(p) /\ ~Dispatch(p) /\ ~SwitchOut(p)
  <2>1. Good(f) /\ Placed
    BY DEF TicketInv, Good
  <2>2. Quiet /\ \A u \in Threads : MovesOn(u)
    BY <1>4, ProcQuiet DEF PuttingBack
  <2>3. SameRun(f)
    BY <1>4, <2>1, RunProc
  <2>4. sched' = sched
    BY DEF ProcStep, SpuriousWake, Start, Loop, Refill, Dispatch, SwitchOut, IdleLock,
       IdleTest, IdleReset, IdleState, IdleCheck, IdleWait, stateVars
  <2> QED BY <2>1, <2>2, <2>3, <2>4, GoodQuiet
<1> QED BY <1>1, <1>2, <1>3, <1>4

\* A creation keeps every fiber good.
LEMMA GoodCreate ==
    ASSUME TypeInv, TicketInv, Onward, NEW t \in Threads, NEW g \in Fibers, Creates(t, g),
           UNCHANGED <<wakes, armed, sched, tgt>>, NEW f \in Fibers,
           f # g => SameRun(f)
    PROVE  Good(f)'
<1> USE ThreadFacts
<1>0. Good(f) /\ Placed
  BY DEF TicketInv, Good
<1>1. /\ pc[t] \notin CarryPCs \cup {"dispatch"} /\ pc'[t] = "own"
      /\ \A u \in Threads : u # t => pc'[u] = pc[u]
      /\ fstate[g] = "free" /\ fstate'[g] = "running" /\ cur' = cur
  BY DEF Creates, Create, Goto, TypeInv, TypeOK, PcTypes, FiberTypes
<1>2. CASE f = g
  <2>1. GetsPromised(f)
    BY <1>0, <1>1, <1>2, CreateEffect DEF Good, FiberInv
  <2>2. \A p \in Procs : Executes(p, f)' => Executes(p, f)
    BY <1>1 DEF Executes
  <2> QED BY <1>0, <1>1, <1>2, <2>1, <2>2, GoodCreated DEF Good
<1>3. CASE f # g
  <2>1. Still(f) /\ Shrinks(f)
    BY <1>3, CreateEffect, KeptStill
  <2>2. ASSUME NEW u \in Threads PROVE MovesOn(u)
    BY <1>1 DEF MovesOn
  <2>3. ASSUME NEW p \in Procs, sched = "running", Executes(p, f) PROVE AllNear(p, f)'
    <3>1. fproc[f] = p /\ AllNear(p, f)
      BY <1>0, <2>3 DEF Good, RunningInv
    <3> QED BY <1>0, <2>1, <2>2, <2>3, <3>1, NearAll
  <2> QED BY <1>0, <1>3, <2>1, <2>3, UndisturbedInv, UndisturbedRunning DEF Good
<1> QED BY <1>2, <1>3

\* The fiber that arms its wake-up had none pending: it is in the middle of its code.
LEMMA GoodArm ==
    ASSUME TypeInv, TicketInv, Onward, NEW p \in Procs, NEW g \in Tasks, Arm(p, g), NEW f \in Fibers
    PROVE  Good(f)'
<1> USE ThreadFacts, FiberFacts
<1>0. Good(f) /\ Placed
  BY DEF TicketInv, Good
<1>1. /\ sched' = sched /\ fstate' = fstate /\ fproc' = fproc /\ cur' = cur
      /\ pc[p] = "body" /\ cur[p] = g /\ pc'[p] = "armed"
      /\ \A u \in Threads : u # p => pc'[u] = pc[u]
  BY DEF Arm, Running, Goto, stateVars, localVars, TypeInv, TypeOK, PcTypes
<1>2. ASSUME NEW u \in Threads PROVE MovesOn(u)
  BY <1>1 DEF Arm, callVars, MovesOn, CarryPCs
<1>3. ShrinksOr(f, "armed", 0)
  BY ArmEffect
<1>4. ASSUME NEW q \in Procs, sched = "running", Executes(q, f) PROVE AllNear(q, f)'
  <2>1. fproc[f] = q /\ AllNear(q, f)
    BY <1>0, <1>4 DEF Good, RunningInv
  <2>2. Near(q, "armed", 0)'
    BY DEF Near
  <2> QED BY <1>0, <1>2, <1>3, <1>4, <2>1, <2>2, NearAll
<1>5. CASE f # g
  <2>1. Still(f)
    BY <1>5, ArmEffect, KeptStill
  <2>2. SameRun(f)
    BY <1>5, RunBody
  <2> QED BY <1>0, <1>1, <1>4, <2>1, <2>2, UndisturbedInv, UndisturbedRunning DEF Good
<1>6. CASE f = g
  <2>1. Executes(p, f) /\ ~LeavesArmed(p, f)
    BY <1>1, <1>6 DEF Executes, LeavesArmed
  <2>2. ~Pending(f) /\ fstate[f] = "running"
    BY <1>0, <1>1, <2>1 DEF Good, FiberInv
  <2>3. One(f)' /\ Pending(f)'
    BY <1>6, <2>2, ArmEffect, FormsOf DEF GetsPromised
  <2>4. \A q \in Procs : Executes(q, f)' <=> q = p
    <3>1. \A q \in Procs : Executes(q, f) => q = p
      BY <1>0, <2>1 DEF Good, FiberInv
    <3> QED BY <1>1, <1>6, <3>1 DEF Executes
  <2>5. LeavesArmed(p, f)'
    BY <1>1 DEF LeavesArmed
  <2>6. FiberInv(f)'
    BY <1>1, <2>2, <2>3, <2>4, <2>5 DEF FiberInv
  <2>7. sched = "running" => fproc[f] = p /\ AllNear(p, f)'
    BY <1>0, <1>4, <2>1 DEF Good, RunningInv
  <2> QED BY <1>1, <2>3, <2>4, <2>6, <2>7 DEF Good, RunningInv
<1> QED BY <1>5, <1>6

\* The fiber's own steps on the way out: it is not pending unless it has armed.
LEMMA GoodLeave ==
    ASSUME TypeInv, TicketInv, Onward, NEW p \in Procs, NEW g \in Fibers,
           Reschedule(p, g) \/ Finish(p, g) \/ (Yield(p) /\ cur[p] = g), NEW f \in Fibers
    PROVE  Good(f)'
<1> USE ThreadFacts, FiberFacts
<1>0. Good(f) /\ Placed
  BY DEF TicketInv, Good
<1>1. /\ sched' = sched /\ cur' = cur /\ fproc' = fproc
      /\ pc[p] \in {"body", "armed"} /\ cur[p] = g /\ pc'[p] = "switch"
      /\ \A u \in Threads : u # p => pc'[u] = pc[u]
  BY DEF Reschedule, Finish, Yield, Running, Goto, stateVars, localVars, TypeInv, TypeOK,
     PcTypes
<1>2. Quiet /\ \A u \in Threads : MovesOn(u)
  BY BodyQuiet
<1>3. CASE f # g
  <2>1. SameRun(f)
    <3>1. \A h \in Fibers : h # g => fstate'[h] = fstate[h]
      BY DEF Reschedule, Finish, Yield, fiberVars, TypeInv, TypeOK, FiberTypes
    <3> QED BY <1>1, <1>3, <3>1 DEF SameRun, Executes
  <2> QED BY <1>0, <1>1, <1>2, <2>1, GoodQuiet
<1>4. CASE f = g
  <2>1. Executes(p, f) /\ (\A q \in Procs : Executes(q, f)' <=> q = p)
    <3>1. Executes(p, f)
      BY <1>1, <1>4 DEF Executes
    <3>2. \A q \in Procs : Executes(q, f) => q = p
      BY <1>0, <3>1 DEF Good, FiberInv
    <3> QED BY <1>1, <1>4, <3>1, <3>2 DEF Executes
  <2>2. Still(f)
    BY <1>2, KeptQuiet, KeptStill
  <2>3. /\ fstate[f] = "running"
        /\ pc[p] = "body" => ~Pending(f)
    BY <1>0, <1>1, <2>1 DEF Good, FiberInv, LeavesArmed
  <2>4. \/ pc[p] = "body" /\ fstate'[f] \in {"running", "done"}
        \/ pc[p] = "armed" /\ fstate'[f] = "block"
    BY <1>4, <2>3 DEF Reschedule, Finish, Yield, Running, fiberVars, TypeInv, TypeOK,
       FiberTypes
  <2>5. LeavesArmed(p, f)' <=> fstate'[f] = "block"
    BY <1>1 DEF LeavesArmed
  <2>6. FiberInv(f)'
    BY <1>0, <1>1, <2>1, <2>2, <2>3, <2>4, <2>5 DEF Good, FiberInv, Still
  <2>7. sched = "running" => fproc[f] = p /\ AllNear(p, f)'
    <3> SUFFICES ASSUME sched = "running" PROVE fproc[f] = p /\ AllNear(p, f)'
      OBVIOUS
    <3>1. fproc[f] = p /\ AllNear(p, f)
      BY <1>0, <2>1 DEF Good, RunningInv
    <3>2. Shrinks(f)
      BY <1>2, TickQuiet DEF Shrinks
    <3> QED BY <1>0, <1>2, <2>1, <3>1, <3>2, NearAll
  <2>8. sched = "running" /\ overlapped = {} /\ fstate'[f] = "block" => Pending(f)'
    BY <1>0, <2>1, <2>2, <2>4 DEF Good, RunningInv, LeavesArmed, Still
  <2> QED BY <1>1, <2>1, <2>5, <2>6, <2>7, <2>8 DEF Good, RunningInv, Onward
<1> QED BY <1>3, <1>4

\* A waker that passes its ticket on keeps every fiber good.
LEMMA GoodPassOn ==
    ASSUME TypeInv, TicketInv, Onward, NEW p \in Procs, NEW w \in Wakers, PassOn(p, w),
           NEW f \in Fibers
    PROVE  Good(f)'
<1> USE ThreadFacts
<1>0. Good(f) /\ Placed
  BY DEF TicketInv, Good
<1>1. sched' = sched /\ SameRun(f)
  BY RunBody DEF PassOn, stateVars
<1>2. Still(f) /\ ShrinksOr(f, "carried", p)
  BY PassOnEffect, KeptStill
<1>3. /\ pc[p] = "body" /\ pc'[p] = "own" /\ tgt' = tgt
      /\ \A u \in Threads : u # p => pc'[u] = pc[u]
  BY DEF PassOn, Goto, TypeInv, TypeOK, PcTypes
<1>4. ASSUME NEW u \in Threads PROVE MovesOn(u)
  BY <1>3 DEF MovesOn, CarryPCs
<1>5. ASSUME NEW q \in Procs, sched = "running", Executes(q, f) PROVE AllNear(q, f)'
  <2>1. fproc[f] = q /\ AllNear(q, f)
    BY <1>0, <1>5 DEF Good, RunningInv
  <2>2. Near(q, "carried", p)'
    BY <1>3 DEF Near
  <2> QED BY <1>0, <1>2, <1>4, <1>5, <2>1, <2>2, NearAll
<1> QED BY <1>0, <1>1, <1>2, <1>5, UndisturbedInv, UndisturbedRunning DEF Good

\* Every step of a running fiber keeps every fiber good.
LEMMA GoodBody ==
    ASSUME TypeInv, TicketInv, Onward, NEW p \in Procs, BodyStep(p), NEW f \in Fibers
    PROVE  Good(f)'
<1> USE ThreadFacts, FiberFacts
<1>1. CASE \E g, h \in Tasks : CreateFromTask(p, g, h)
  <2> PICK g \in Tasks, h \in Tasks : CreateFromTask(p, g, h)
    BY <1>1
  <2>1. Creates(p, h) /\ UNCHANGED <<wakes, armed, sched, tgt>>
    BY DEF CreateFromTask, Creates, Running, CarryPCs, stateVars, queueVars, localVars
  <2>2. f # h => SameRun(f)
    BY RunBody
  <2> QED BY <2>1, <2>2, GoodCreate
<1>2. CASE \E g \in Tasks : Arm(p, g)
  BY <1>2, GoodArm
<1>3. CASE (\E g \in Tasks : Reschedule(p, g)) \/ (\E g \in Fibers : Finish(p, g))
  BY <1>3, GoodLeave
<1>4. CASE \E w \in Wakers : PassOn(p, w)
  BY <1>4, GoodPassOn
<1>5. CASE Yield(p)
  <2>1. cur[p] # NoFiber => cur[p] \in Fibers
    BY DEF TypeInv, TypeOK, LocalTypes, Ptrs
  <2>2. CASE cur[p] = NoFiber
    <3>1. SameRun(f)
      BY <1>5, <2>2, RunBody, RealFiber
    <3>2. Quiet /\ \A u \in Threads : MovesOn(u)
      BY <1>5, BodyQuiet
    <3>3. sched' = sched
      BY <1>5 DEF Yield, stateVars
    <3> QED BY <3>1, <3>2, <3>3, GoodQuiet DEF TicketInv, Good
  <2>3. CASE cur[p] \in Fibers
    <3>1. PICK g \in Fibers : g = cur[p]
      BY <2>3
    <3> QED BY <1>5, <3>1, GoodLeave
  <2> QED BY <2>1, <2>2, <2>3
<1> QED BY <1>1, <1>2, <1>3, <1>4, <1>5 DEF BodyStep

\* The ticket goes from the poller to a waker fiber, which is new.
LEMMA GoodDeliver ==
    ASSUME TypeInv, TicketInv, Onward, NEW g \in Tasks, NEW w \in Wakers, Deliver(g, w),
           NEW f \in Fibers
    PROVE  Good(f)'
<1> USE ThreadFacts, FiberFacts
<1>0. Good(f) /\ Placed
  BY DEF TicketInv, Good
<1>1. /\ fstate[w] = "free" /\ fstate'[w] = "running" /\ sched' = sched /\ cur' = cur
      /\ pc[Poller] = "poll" /\ pc'[Poller] = "own" /\ tgt' = tgt
      /\ \A u \in Threads : u # Poller => pc'[u] = pc[u]
  BY DEF Deliver, Create, Goto, stateVars, localVars, TypeInv, TypeOK, PcTypes,
     FiberTypes
<1>2. wakes[w] = NoFiber
  BY <1>1 DEF TicketInv, FreeWaker
<1>3. CASE f = w
  <2>1. ~Pending(f)
    BY <1>0, <1>1, <1>3 DEF Good, FiberInv
  <2>2. GetsPromised(f)
    BY <1>2, <1>3, <2>1, DeliverEffect
  <2>3. \A p \in Procs : Executes(p, f)' => Executes(p, f)
    BY <1>1 DEF Executes
  <2> QED BY <1>0, <1>1, <1>3, <2>2, <2>3, GoodCreated DEF Good
<1>4. CASE f # w
  <2>1. Still(f) /\ ShrinksOr(f, "waker", 0) /\ SameRun(f)
    BY <1>2, <1>4, DeliverEffect, KeptStill, RunOwner
  <2>2. ASSUME NEW u \in Threads PROVE MovesOn(u)
    BY <1>1 DEF MovesOn, CarryPCs
  <2>3. ASSUME NEW q \in Procs, sched = "running", Executes(q, f) PROVE AllNear(q, f)'
    <3>1. fproc[f] = q /\ AllNear(q, f)
      BY <1>0, <2>3 DEF Good, RunningInv
    <3>2. Near(q, "waker", 0)'
      BY DEF Near
    <3> QED BY <1>0, <2>1, <2>2, <2>3, <3>1, <3>2, NearAll
  <2> QED BY <1>0, <1>1, <2>1, <2>3, UndisturbedInv, UndisturbedRunning DEF Good
<1> QED BY <1>3, <1>4

\* Every step of the owner and of the poller keeps every fiber good.
LEMMA GoodOwner ==
    ASSUME TypeInv, TicketInv, Onward, NEW f \in Fibers,
           (\E g \in Tasks : MainCreate(g)) \/ MainStop \/ StopStep \/ PollStep
    PROVE  Good(f)'
<1> USE ThreadFacts, FiberFacts
<1>1. CASE \E g \in Tasks : MainCreate(g)
  <2> PICK g \in Tasks : MainCreate(g)
    BY <1>1
  <2>1. Creates(Main, g) /\ UNCHANGED <<wakes, armed, sched, tgt>>
    BY DEF MainCreate, Creates, CarryPCs, stateVars, queueVars, localVars
  <2>2. f # g => SameRun(f)
    BY RunOwner
  <2> QED BY <2>1, <2>2, GoodCreate
<1>2. CASE MainStop \/ StopStep \/ PollExit
  <2>1. Good(f) /\ Placed
    BY DEF TicketInv, Good
  <2>2. Quiet /\ \A u \in Threads : MovesOn(u)
    BY <1>2, OwnerQuiet
  <2>3. SameRun(f)
    BY <1>2, RunOwner
  <2>4. sched' = "running" => sched = "running"
    BY <1>2 DEF MainStop, StopStep, StopSet, StopNotify, Join, JoinPoller, PollExit,
       stateVars
  <2> QED BY <2>1, <2>2, <2>3, <2>4, GoodQuiet
<1>3. CASE \E g \in Tasks, w \in Wakers : Deliver(g, w)
  BY <1>3, GoodDeliver
<1> QED BY <1>1, <1>2, <1>3 DEF PollStep

\* A waker that does not exist yet has nothing to pass on, after every step.
LEMMA FreeWakerStep ==
    ASSUME TypeInv, TicketInv, Next
    PROVE  FreeWaker'
<1> SUFFICES ASSUME NEW w \in Fibers, fstate'[w] = "free" PROVE wakes'[w] = NoFiber
  BY DEF FreeWaker
<1> USE ThreadFacts, FiberFacts DEF TypeInv, TypeOK, FiberTypes, fiberVars
<1>0. fstate[w] = "free" => wakes[w] = NoFiber
  BY DEF TicketInv, FreeWaker
<1>1. CASE \E t \in Threads : AddStep(t)
  BY <1>0, <1>1, AddFrame
<1>2. CASE \E p \in Procs : ProcStep(p) \/ SpuriousWake(p)
  <2>1. wakes' = wakes /\ (fstate'[w] = fstate[w] \/ fstate'[w] = "running")
    BY <1>2 DEF ProcStep, SpuriousWake, Start, Loop, Refill, Dispatch, SwitchOut,
       IdleLock, IdleTest, IdleReset, IdleState, IdleCheck, IdleWait
  <2> QED BY <1>0, <2>1
<1>3. CASE \E p \in Procs : BodyStep(p)
  <2>1. wakes'[w] \in {wakes[w], NoFiber}
    BY <1>3 DEF BodyStep, CreateFromTask, Arm, Reschedule, PassOn, Finish, Yield
  <2>2. fstate'[w] \in {fstate[w], "running", "block", "done"}
    BY <1>3 DEF BodyStep, CreateFromTask, Create, Arm, Reschedule, PassOn, Finish, Yield
  <2> QED BY <1>0, <2>1, <2>2
<1>4. CASE (\E f \in Tasks : MainCreate(f)) \/ MainStop \/ StopStep \/ PollExit
  <2>1. wakes' = wakes /\ (fstate'[w] = fstate[w] \/ fstate'[w] = "running")
    BY <1>4 DEF MainCreate, Create, MainStop, StopStep, StopSet, StopNotify, Join,
       JoinPoller, PollExit
  <2> QED BY <1>0, <2>1
<1>5. CASE \E f \in Tasks, v \in Wakers : Deliver(f, v)
  <2> PICK f \in Tasks, v \in Wakers : Deliver(f, v)
    BY <1>5
  <2>1. v # w /\ fstate'[w] = fstate[w] /\ wakes'[w] = wakes[w]
    BY DEF Deliver, Create
  <2> QED BY <1>0, <2>1
<1>6. CASE Ended
  BY <1>0, <1>6 DEF Ended, vars
<1> QED BY <1>1, <1>2, <1>3, <1>4, <1>5, <1>6 DEF Next, PollStep

\* The invariant holds at the start.
LEMMA TicketInit == Init => TicketInv
<1> SUFFICES ASSUME Init PROVE TicketInv
  OBVIOUS
<1> USE ThreadFacts
<1>1. Placed
  BY DEF Init, Placed, CurPlaced, OwnerPlaced, StatePlaced, Stopping, Active, Holding,
     Adding
<1>2. FreeWaker
  BY DEF Init, FreeWaker
<1>3. ASSUME NEW f \in Fibers PROVE FiberInv(f) /\ RunningInv(f)
  <2>1. ASSUME NEW k, NEW a, NEW i PROVE ~Tick(f, k, a, i)
    <3>1. \A p \in Procs : newQueue[p] = <<>> /\ runable[p] = <<>> /\ stray[p] = {}
      BY DEF Init
    <3>2. ~InNew(f, a, i) /\ ~InRunable(f, a, i) /\ ~InStray(f, a)
      BY <3>1 DEF InNew, InRunable, InStray
    <3>3. ~AtDispatch(f, a) /\ ~InHands(f, a) /\ ~WithWaker(f, i) /\ f \notin armed
      BY <1>3, RealFiber DEF Init, AtDispatch, InHands, Carries, WithWaker
    <3> QED BY <3>2, <3>3 DEF Tick
  <2>2. ~Pending(f)
    BY <2>1, NoTick
  <2>3. One(f)
    BY <2>2 DEF One, Pending
  <2>4. \A p \in Procs : ~Executes(p, f)
    BY <1>3, RealFiber DEF Init, Executes
  <2>5. fstate[f] = "free"
    BY <1>3 DEF Init
  <2> QED BY <2>2, <2>3, <2>4, <2>5 DEF FiberInv, RunningInv
<1> QED BY <1>1, <1>2, <1>3 DEF TicketInv

\* No step takes a stop or an overlap back.
LEMMA OnwardStep == TypeInv /\ [Next]_vars => Onward
<1> SUFFICES ASSUME TypeInv, [Next]_vars PROVE Onward
  OBVIOUS
<1>1. CASE UNCHANGED vars
  BY <1>1 DEF vars, stateVars, queueVars, Onward
<1>2. CASE Next
  <2>1. overlapped \subseteq overlapped'
    BY <1>2, OverlapStays
  <2>2. sched' = "running" => sched = "running"
    <3>1. CASE \E t \in Threads : AddStep(t)
      BY <3>1, AddFrame
    <3>2. CASE \E p \in Procs : ProcStep(p) \/ SpuriousWake(p)
      BY <3>2 DEF ProcStep, SpuriousWake, Start, Loop, Refill, Dispatch, SwitchOut,
         IdleLock, IdleTest, IdleReset, IdleState, IdleCheck, IdleWait, stateVars
    <3>3. CASE \E p \in Procs : BodyStep(p)
      BY <3>3 DEF BodyStep, CreateFromTask, Arm, Reschedule, PassOn, Finish, Yield, stateVars
    <3>4. CASE (\E f \in Tasks : MainCreate(f)) \/ MainStop \/ StopStep \/ PollStep \/ Ended
      BY <3>4 DEF MainCreate, MainStop, StopStep, StopSet, StopNotify, Join, JoinPoller,
         PollStep, PollExit, Deliver, Ended, vars, stateVars
    <3> QED BY <1>2, <3>1, <3>2, <3>3, <3>4 DEF Next
  <2> QED BY <2>1, <2>2 DEF Onward
<1> QED BY <1>1, <1>2

\* Every step keeps the invariant.
LEMMA TicketStep == TypeInv /\ TicketInv /\ [Next]_vars => TicketInv'
<1> SUFFICES ASSUME TypeInv, TicketInv, [Next]_vars PROVE TicketInv'
  OBVIOUS
<1>0. Onward
  BY OnwardStep
<1>1. CASE UNCHANGED vars
  <2> USE <1>1 DEF vars, stateVars, queueVars, localVars, fiberVars, callVars
  <2>1. Placed'
    BY DEF TicketInv, Placed, CurPlaced, OwnerPlaced, StatePlaced
  <2>2. FreeWaker'
    BY DEF TicketInv, FreeWaker
  <2>3. Quiet /\ \A u \in Threads : MovesOn(u)
    BY DEF Quiet, SameHands, SameDispatch, MovesOn
  <2>4. ASSUME NEW f \in Fibers PROVE Good(f)'
    <3>1. SameRun(f)
      BY DEF SameRun, Executes
    <3> QED BY <1>0, <2>3, <3>1, GoodQuiet DEF TicketInv, Good
  <2> QED BY <2>1, <2>2, <2>4 DEF TicketInv, Good
<1>2. CASE Next
  <2>1. Placed'
    BY <1>2, PlacedStep DEF TicketInv
  <2>2. FreeWaker'
    BY <1>2, FreeWakerStep
  <2>3. ASSUME NEW f \in Fibers, ~Ended PROVE Good(f)'
    BY <1>0, <1>2, <2>3, GoodAdd, GoodProc, GoodBody, GoodOwner DEF Next
  <2>4. CASE Ended
    BY <1>1, <2>4 DEF Ended
  <2> QED BY <2>1, <2>2, <2>3, <2>4 DEF TicketInv, Good
<1> QED BY <1>1, <1>2

\* The invariant holds always.
LEMMA TicketsHold == Spec => []TicketInv
BY TicketInit, TicketStep, InitTypes, StepTypes, PTL DEF Spec

-----------------------------------------------------------------------------
(* The theorems *)

\* No fiber is ever pending twice, none is pending once it has ended, and one that
\* is run is pending only when it has armed its own wake-up: no wake-up resumes a
\* fiber twice or resumes a dead stack (processer.cc and poller.cc queues together).
THEOREM TicketIsSingle == Spec => []SingleTicket
<1>1. TicketInv => SingleTicket
  <2> SUFFICES ASSUME TicketInv, NEW f \in Fibers
               PROVE  /\ Cardinality(Tickets(f)) <= 1
                      /\ fstate[f] \in {"free", "done"} => Tickets(f) = {}
                      /\ \A p \in Procs :
                           Executes(p, f) /\ Tickets(f) # {} =>
                              \/ pc[p] = "armed"
                              \/ pc[p] = "switch" /\ fstate[f] = "block"
    BY DEF SingleTicket
  <2>1. FiberInv(f)
    BY DEF TicketInv
  <2>2. Cardinality(Tickets(f)) <= 1
    <3>1. CASE Tickets(f) = {}
      BY <3>1, FS_EmptySet
    <3>2. ASSUME NEW x \in Tickets(f) PROVE Cardinality(Tickets(f)) <= 1
      <4>1. Tickets(f) = {x}
        BY <2>1 DEF FiberInv, One
      <4>2. Cardinality({x}) = 1
        BY FS_Singleton
      <4> QED BY <4>1, <4>2
    <3> QED BY <3>1, <3>2
  <2> QED BY <2>1, <2>2 DEF FiberInv, Pending, LeavesArmed
<1> QED BY <1>1, TicketsHold, PTL

\* No two processers ever run the same fiber: its stack is in use once.  It holds
\* because addFiber prefers the running processer of a fiber (scheduler.cc:65), and
\* because the scheduler's state leaves running before any processer's does.
THEOREM RunnerIsOne == Spec => []OneRunner
<1>1. TicketInv => OneRunner
  BY DEF TicketInv, FiberInv, OneRunner
<1> QED BY <1>1, TicketsHold, PTL

\* Until the scheduler stops, and as long as no two pushes into the same newQueue
\* overlap, every fiber that was created and has not ended is run or pending.
THEOREM NothingIsLost == Spec => []NothingLost
<1>1. TicketInv => NothingLost
  BY DEF TicketInv, RunningInv, NothingLost, Pending
<1> QED BY <1>1, TicketsHold, PTL

-----------------------------------------------------------------------------
(* The scheduler implements FiberPool: every step of its threads is one step of the *)
(* pool for one fiber, or none.                                                     *)

PoolLife == [f \in Fibers |-> Life(f)]
TicketOf(f) == IF Queued(f) THEN "queued" ELSE IF Promised(f) THEN "promised" ELSE "none"
PoolTicket == [f \in Fibers |-> TicketOf(f)]
PoolRunner == [f \in Fibers |-> Runner(f)]

\* What the pool sees of a fiber stays the same.
PoolSame(f) == Life(f)' = Life(f) /\ TicketOf(f)' = TicketOf(f) /\ Runner(f)' = Runner(f)

\* The runner of a fiber is the processer that executes it, if there is one.
LEMMA RunnerIs ==
    ASSUME NEW f \in Fibers
    PROVE  /\ FiberInv(f) => \A p \in Procs : Executes(p, f) => Runner(f) = p
           /\ (\A p \in Procs : ~Executes(p, f)) => Runner(f) = NoProc
BY DEF FiberInv, Runner

\* The same after a step.
LEMMA RunnerIsNext ==
    ASSUME NEW f \in Fibers
    PROVE  /\ FiberInv(f)' => \A p \in Procs : Executes(p, f)' => Runner(f)' = p
           /\ (\A p \in Procs : ~Executes(p, f)') => Runner(f)' = NoProc
BY DEF FiberInv, Runner

\* A fiber with one ticket is not both queued and promised, and without one has none.
LEMMA TicketIs ==
    ASSUME NEW f
    PROVE  /\ One(f) /\ Queued(f) => ~Promised(f)
           /\ ~Pending(f) => TicketOf(f) = "none"
           /\ ~Pending(f)' => TicketOf(f)' = "none"
<1>1. One(f) /\ Queued(f) => ~Promised(f)
  BY FormsOf DEF OneForm, QueuedForm, PromisedForm
<1>2. ~Pending(f) => TicketOf(f) = "none"
  BY FormsOf DEF TicketOf
<1>3. ~Pending(f)' => TicketOf(f)' = "none"
  BY FormsOf DEF TicketOf
<1> QED BY <1>1, <1>2, <1>3

\* Where nobody begins or ends to run a fiber, life and runner are those of the pool.
LEMMA SameRunPool ==
    ASSUME NEW f \in Fibers, FiberInv(f), FiberInv(f)', SameRun(f)
    PROVE  Life(f)' = Life(f) /\ Runner(f)' = Runner(f)
<1>1. Life(f)' = Life(f)
  BY DEF SameRun, Life
<1>2. Runner(f)' = Runner(f)
  <2>1. CASE \E p \in Procs : Executes(p, f)
    BY <2>1, RunnerIs, RunnerIsNext DEF SameRun
  <2>2. CASE \A p \in Procs : ~Executes(p, f)
    BY <2>2, RunnerIs, RunnerIsNext DEF SameRun
  <2> QED BY <2>1, <2>2
<1> QED BY <1>1, <1>2

\* A fiber whose run and ticket stay is the pool's as before.
LEMMA KeptPool ==
    ASSUME NEW f \in Fibers, FiberInv(f), FiberInv(f)', SameRun(f), Kept(f)
    PROVE  PoolSame(f)
BY SameRunPool DEF Kept, TicketOf, PoolSame

\* A step that moves no ticket leaves a fiber of the same run the pool's as before.
LEMMA QuietPool ==
    ASSUME NEW f \in Fibers, FiberInv(f), FiberInv(f)', SameRun(f), Quiet
    PROVE  PoolSame(f)
BY KeptQuiet, KeptPool

-----------------------------------------------------------------------------
(* Steps of the pool *)

OthersSame(g) == \A f \in Fibers : f # g => PoolSame(f)

\* Where all fibers but one are as before, the pool changes at that one only.
LEMMA PoolOthers ==
    ASSUME NEW g \in Fibers, OthersSame(g)
    PROVE  /\ PoolLife' = [PoolLife EXCEPT ![g] = Life(g)']
           /\ PoolTicket' = [PoolTicket EXCEPT ![g] = TicketOf(g)']
           /\ PoolRunner' = [PoolRunner EXCEPT ![g] = Runner(g)']
BY DEF OthersSame, PoolSame, PoolLife, PoolTicket, PoolRunner

PoolAt(g) ==
    /\ PoolLife[g] = Life(g) /\ PoolTicket[g] = TicketOf(g) /\ PoolRunner[g] = Runner(g)
    /\ Life(g)' = Life(g) => PoolLife' = PoolLife
    /\ TicketOf(g)' = TicketOf(g) => PoolTicket' = PoolTicket
    /\ Runner(g)' = Runner(g) => PoolRunner' = PoolRunner
    /\ PoolLife' = [PoolLife EXCEPT ![g] = Life(g)']
    /\ PoolTicket' = [PoolTicket EXCEPT ![g] = TicketOf(g)']
    /\ PoolRunner' = [PoolRunner EXCEPT ![g] = Runner(g)']

\* Where all fibers but one are as before, the pool's functions are updated at that one.
LEMMA PoolAtOthers ==
    ASSUME NEW g \in Fibers, OthersSame(g)
    PROVE  PoolAt(g)
<1>1. PoolLife[g] = Life(g) /\ PoolTicket[g] = TicketOf(g) /\ PoolRunner[g] = Runner(g)
  BY DEF PoolLife, PoolTicket, PoolRunner
<1>2. /\ Life(g)' = Life(g) => PoolLife' = PoolLife
      /\ TicketOf(g)' = TicketOf(g) => PoolTicket' = PoolTicket
      /\ Runner(g)' = Runner(g) => PoolRunner' = PoolRunner
  BY DEF OthersSame, PoolSame, PoolLife, PoolTicket, PoolRunner
<1> QED BY <1>1, <1>2, PoolOthers DEF PoolAt

\* The variables of the pool under the mapping.
LEMMA PoolVars == Pool!vars = <<PoolLife, PoolTicket, PoolRunner>>
BY DEF Pool!vars, PoolLife, PoolTicket, PoolRunner, TicketOf

\* The step of the pool that the change of one fiber amounts to.
PoolStep == [Pool!Next]_(Pool!vars)

\* A fiber that comes to life with a promised ticket is the pool's Create.
LEMMA PoolCreate ==
    ASSUME NEW g \in Fibers, OthersSame(g), Life(g) = "new", Life(g)' = "live",
           TicketOf(g)' = "promised", Runner(g)' = Runner(g)
    PROVE  PoolStep
<1>1. PoolAt(g)
  BY PoolAtOthers
<1>2. Pool!Create(g)
  BY <1>1 DEF PoolAt, Pool!Create, Pool!Give, PoolLife, PoolTicket, PoolRunner, TicketOf
<1> QED BY <1>2 DEF PoolStep, Pool!Next

\* A promised ticket that is queued is the pool's Enqueue.
LEMMA PoolEnqueue ==
    ASSUME NEW g \in Fibers, OthersSame(g), Life(g)' = Life(g), Runner(g)' = Runner(g),
           TicketOf(g) = "promised", TicketOf(g)' = "queued"
    PROVE  PoolStep
<1>1. PoolAt(g)
  BY PoolAtOthers
<1>2. Pool!Enqueue(g)
  BY <1>1 DEF PoolAt, Pool!Enqueue, Pool!Give, PoolLife, PoolTicket, PoolRunner, TicketOf
<1> QED BY <1>2 DEF PoolStep, Pool!Next

\* A promised ticket that takes the place of a queued one is the pool's Displace.
LEMMA PoolDisplace ==
    ASSUME NEW g \in Fibers, NEW h \in Fibers, g # h,
           \A f \in Fibers : f # g /\ f # h => PoolSame(f),
           \A f \in Fibers : Life(f)' = Life(f) /\ Runner(f)' = Runner(f),
           TicketOf(g) = "promised", TicketOf(g)' = "queued",
           TicketOf(h) = "queued", TicketOf(h)' = "none"
    PROVE  PoolStep
<1>1. PoolLife' = PoolLife /\ PoolRunner' = PoolRunner
  BY DEF PoolLife, PoolRunner
<1>2. PoolTicket[g] = "promised" /\ PoolTicket[h] = "queued"
  BY DEF PoolTicket
<1>3. PoolTicket' = [PoolTicket EXCEPT ![g] = "queued", ![h] = "none"]
  BY DEF PoolTicket, PoolSame
<1>4. Pool!Displace(g, h)
  BY <1>1, <1>2, <1>3 DEF Pool!Displace, PoolLife, PoolTicket, PoolRunner, TicketOf
<1> QED BY <1>4 DEF PoolStep, Pool!Next

\* A ticket that vanishes is the pool's Discard.
LEMMA PoolDiscard ==
    ASSUME NEW g \in Fibers, OthersSame(g), Life(g)' = Life(g), Runner(g)' = Runner(g),
           TicketOf(g) # "none", TicketOf(g)' = "none"
    PROVE  PoolStep
<1>1. PoolAt(g)
  BY PoolAtOthers
<1>2. Pool!Discard(g)
  BY <1>1 DEF PoolAt, Pool!Discard, Pool!Give, PoolLife, PoolTicket, PoolRunner, TicketOf
<1> QED BY <1>2 DEF PoolStep, Pool!Next

\* A queued fiber that a processer takes up is the pool's Resume.
LEMMA PoolResume ==
    ASSUME NEW g \in Fibers, OthersSame(g), NEW p \in Procs,
           Life(g) = "live", Life(g)' = "live", TicketOf(g) = "queued", TicketOf(g)' = "none",
           Runner(g) = NoProc, Runner(g)' = p
    PROVE  PoolStep
<1>1. PoolAt(g)
  BY PoolAtOthers
<1>2. Pool!Resume(g, p)
  BY <1>1 DEF PoolAt, Pool!Resume, Pool!Give, PoolLife, PoolTicket, PoolRunner, TicketOf
<1> QED BY <1>2 DEF PoolStep, Pool!Next

\* A running fiber that is promised a wake-up is the pool's Arm.
LEMMA PoolArm ==
    ASSUME NEW g \in Fibers, OthersSame(g), Life(g)' = Life(g), Runner(g)' = Runner(g),
           Runner(g) # NoProc, TicketOf(g) = "none", TicketOf(g)' = "promised"
    PROVE  PoolStep
<1>1. PoolAt(g)
  BY PoolAtOthers
<1>2. Pool!Arm(g)
  BY <1>1 DEF PoolAt, Pool!Arm, Pool!Give, PoolLife, PoolTicket, PoolRunner, TicketOf
<1> QED BY <1>2 DEF PoolStep, Pool!Next

\* A running fiber that leaves its processer is the pool's Wait.
LEMMA PoolWait ==
    ASSUME NEW g \in Fibers, OthersSame(g), Life(g)' = Life(g), TicketOf(g)' = TicketOf(g),
           Runner(g) # NoProc, Runner(g)' = NoProc
    PROVE  PoolStep
<1>1. PoolAt(g)
  BY PoolAtOthers
<1>2. Pool!Wait(g)
  BY <1>1 DEF PoolAt, Pool!Wait, Pool!Leave, PoolLife, PoolTicket, PoolRunner, TicketOf
<1> QED BY <1>2 DEF PoolStep, Pool!Next

\* A running fiber that goes back to its queue is the pool's Requeue.
LEMMA PoolRequeue ==
    ASSUME NEW g \in Fibers, OthersSame(g), Life(g)' = Life(g), Runner(g) # NoProc,
           Runner(g)' = NoProc, TicketOf(g) = "none", TicketOf(g)' = "queued"
    PROVE  PoolStep
<1>1. PoolAt(g)
  BY PoolAtOthers
<1>2. Pool!Requeue(g)
  BY <1>1 DEF PoolAt, Pool!Requeue, Pool!Leave, Pool!Give, PoolLife, PoolTicket, PoolRunner, TicketOf
<1> QED BY <1>2 DEF PoolStep, Pool!Next

\* A running fiber that ends is the pool's Finish.
LEMMA PoolFinish ==
    ASSUME NEW g \in Fibers, OthersSame(g), Life(g) = "live", Life(g)' = "done",
           Runner(g) # NoProc, Runner(g)' = NoProc, TicketOf(g) = "none",
           TicketOf(g)' = "none"
    PROVE  PoolStep
<1>1. PoolAt(g)
  BY PoolAtOthers
<1>2. Pool!Finish(g)
  BY <1>1 DEF PoolAt, Pool!Finish, Pool!Leave, PoolLife, PoolTicket, PoolRunner, TicketOf
<1> QED BY <1>2 DEF PoolStep, Pool!Next

\* A step that changes no fiber is a stutter of the pool.
LEMMA PoolStutter ==
    ASSUME \A f \in Fibers : PoolSame(f)
    PROVE  PoolStep
<1>1. PoolLife' = PoolLife /\ PoolTicket' = PoolTicket /\ PoolRunner' = PoolRunner
  BY DEF PoolSame, PoolLife, PoolTicket, PoolRunner
<1> QED BY <1>1, PoolVars DEF PoolStep, Pool!vars, PoolLife, PoolTicket, PoolRunner, TicketOf

-----------------------------------------------------------------------------
(* The steps of the scheduler *)

\* What a step may rely on: the invariant before it, and after it.
Sound == TypeInv /\ TicketInv /\ \A f \in Fibers : FiberInv(f)'

\* What the invariants say of one fiber, before and after a step.
LEMMA SoundOf ==
    ASSUME Sound, NEW f \in Fibers
    PROVE  TypeInv /\ TicketInv /\ Placed /\ FiberInv(f) /\ FiberInv(f)' /\ One(f) /\ One(f)'
BY DEF Sound, TicketInv, FiberInv

\* The ticket that each kind of pending amounts to.
LEMMA TicketValue ==
    ASSUME NEW f
    PROVE  /\ Queued(f) => TicketOf(f) = "queued"
           /\ ~Queued(f) /\ Promised(f) => TicketOf(f) = "promised"
           /\ Queued(f)' => TicketOf(f)' = "queued"
           /\ ~Queued(f)' /\ Promised(f)' => TicketOf(f)' = "promised"
BY DEF TicketOf

\* A push's write makes the promise good, at the cost of the fiber it displaces.
LEMMA PoolWrite ==
    ASSUME Sound, NEW t \in Threads, PushWrite(t)
    PROVE  PoolStep
<1>1. ASSUME NEW f \in Fibers
      PROVE  /\ TypeInv /\ One(f)
             /\ Life(f)' = Life(f) /\ Runner(f)' = Runner(f)
             /\ Kept(f) => PoolSame(f)
  BY SoundOf, RunAdd, SameRunPool, KeptPool DEF AddStep
<1>2. PICK h, l, j : Writes(t, h, l, j)
  BY TickWrite DEF Sound
<1>3. ASSUME NEW f \in Fibers, f # arg[t], f # h PROVE PoolSame(f)
  BY <1>1, <1>2, <1>3, WriteEffect
<1>4. ASSUME NEW f \in Fibers, f = h, f # arg[t]
      PROVE  TicketOf(f) = "queued" /\ TicketOf(f)' = "none"
  <2>1. Queued(f) /\ ~Pending(f)'
    BY <1>1, <1>2, <1>4, WriteEffect
  <2> QED BY <2>1, TicketIs, TicketValue
<1>5. ASSUME NEW g \in Fibers, g = arg[t]
      PROVE  g # h /\ TicketOf(g) = "promised" /\ TicketOf(g)' = "queued"
  <2>1. g # h /\ One(g) /\ Promised(g) /\ Queued(g)'
    BY <1>1, <1>2, <1>5, WriteEffect
  <2> QED BY <2>1, TicketIs, TicketValue
<1>6. CASE arg[t] \notin Fibers /\ h \notin Fibers
  BY <1>3, <1>6, PoolStutter
<1>7. CASE arg[t] \notin Fibers /\ h \in Fibers
  <2>1. PICK f \in Fibers : f = h
    BY <1>7
  <2>2. OthersSame(f)
    BY <1>3, <1>7, <2>1 DEF OthersSame
  <2> QED BY <1>1, <1>4, <1>7, <2>1, <2>2, PoolDiscard
<1>8. CASE arg[t] \in Fibers
  <2>1. PICK g \in Fibers : g = arg[t]
    BY <1>8
  <2>2. CASE h \notin Fibers
    <3>1. OthersSame(g)
      BY <1>3, <2>1, <2>2 DEF OthersSame
    <3> QED BY <1>1, <1>5, <2>1, <3>1, PoolEnqueue
  <2>3. CASE h \in Fibers
    <3>1. PICK f \in Fibers : f = h
      BY <2>3
    <3>2. g # f
      BY <1>5, <2>1, <3>1
    <3>3. \A e \in Fibers : e # g /\ e # f => PoolSame(e)
      BY <1>3, <2>1, <3>1
    <3>4. TicketOf(f) = "queued" /\ TicketOf(f)' = "none"
      BY <1>4, <2>1, <3>1, <3>2
    <3>5. TicketOf(g) = "promised" /\ TicketOf(g)' = "queued"
      BY <1>5, <2>1
    <3> QED BY <1>1, <3>2, <3>3, <3>4, <3>5, PoolDisplace
  <2> QED BY <2>2, <2>3
<1> QED BY <1>6, <1>7, <1>8

\* Writing makes the promise good; a stopped processer drops the fiber.
LEMMA PoolAdd ==
    ASSUME Sound, NEW t \in Threads, AddStep(t)
    PROVE  PoolStep
<1>1. ASSUME NEW f \in Fibers
      PROVE  /\ TypeInv /\ Placed /\ FiberInv(f) /\ FiberInv(f)' /\ One(f)
             /\ Life(f)' = Life(f) /\ Runner(f)' = Runner(f)
             /\ Kept(f) => PoolSame(f)
  BY SoundOf, RunAdd, SameRunPool, KeptPool
<1>2. CASE ~PushWrite(t) /\ ~PushStore(t) /\ ~Dropping(t)
  BY <1>1, <1>2, AddQuiet, KeptQuiet, PoolStutter DEF Sound
<1>3. CASE PushWrite(t)
  BY <1>3, PoolWrite
<1>4. CASE PushStore(t)
  <2>1. \A f \in Fibers : PoolSame(f)
    BY <1>1, <1>4, StoreEffect
  <2> QED BY <2>1, PoolStutter
<1>5. CASE Dropping(t) /\ arg[t] \notin Fibers
  <2>1. ASSUME NEW f \in Fibers PROVE PoolSame(f)
    BY <1>1, <1>5, DroppingEffect
  <2> QED BY <2>1, PoolStutter
<1>6. CASE Dropping(t) /\ arg[t] \in Fibers
  <2>1. PICK g \in Fibers : g = arg[t]
    BY <1>6
  <2>2. OthersSame(g)
    BY <1>1, <1>6, <2>1, DroppingEffect DEF OthersSame
  <2>3. One(g) /\ Promised(g) /\ ~Pending(g)'
    BY <1>1, <1>6, <2>1, DroppingEffect
  <2>4. TicketOf(g) # "none" /\ TicketOf(g)' = "none"
    BY <2>3, TicketIs, TicketValue
  <2> QED BY <1>1, <2>2, <2>4, PoolDiscard
<1> QED BY <1>2, <1>3, <1>4, <1>5, <1>6

\* A fiber is resumed with the ticket that was queued, on a stack nobody uses, or
\* discarded by a stopped scheduler.
LEMMA PoolDispatch ==
    ASSUME Sound, NEW p \in Procs, Dispatch(p)
    PROVE  PoolStep
<1> USE ThreadFacts
<1>1. ASSUME NEW f \in Fibers
      PROVE  /\ TypeInv /\ Placed /\ FiberInv(f) /\ FiberInv(f)' /\ One(f)
             /\ f # cur[p] => PoolSame(f)
  <2>1. TypeInv /\ Placed /\ FiberInv(f) /\ FiberInv(f)' /\ One(f)
    BY SoundOf
  <2>2. f # cur[p] => SameRun(f)
    BY <2>1, RunProc DEF ProcStep, Dispatch, SwitchOut
  <2>3. f # cur[p] => Kept(f)
    BY <2>1, DispatchEffect
  <2> QED BY <2>1, <2>2, <2>3, KeptPool
<1>2. CASE cur[p] \notin Fibers
  <2>1. \A f \in Fibers : PoolSame(f)
    BY <1>1, <1>2
  <2> QED BY <2>1, PoolStutter
<1>3. CASE cur[p] \in Fibers
  <2>1. PICK g \in Fibers : g = cur[p]
    BY <1>3
  <2>2. OthersSame(g)
    BY <1>1, <2>1 DEF OthersSame
  <2>3. One(g) /\ Queued(g) /\ ~Pending(g)'
    BY <1>1, <2>1, DispatchEffect
  <2>4. TicketOf(g) = "queued" /\ TicketOf(g)' = "none"
    BY <2>3, TicketIs, TicketValue
  <2>5. CASE sched = "stop"
    <3>1. SameRun(g)
      BY <1>1, <2>1, <2>5, RealFiber
      DEF Dispatch, Goto, SameRun, Executes, fiberVars, TypeInv, TypeOK, PcTypes,
          LocalTypes
    <3> QED BY <1>1, <2>2, <2>4, <3>1, SameRunPool, PoolDiscard
  <2>6. CASE sched # "stop"
    <3>1. pc[p] = "dispatch" /\ sched = "running"
      BY <1>1, <2>1, <2>6 DEF Dispatch, TypeInv, TypeOK, StateTypes, Placed, OwnerPlaced
    <3>2. \A q \in Procs : ~Executes(q, g)
      <4>1. Tick(g, "dispatch", p, 0)
        BY <2>1, <3>1 DEF Tick, AtDispatch
      <4> QED BY <3>1, <4>1, NearOf DEF Sound, TicketInv, RunningInv, Near
    <3>3. /\ fstate'[g] = "running" /\ cur' = cur /\ pc'[p] = "body"
          /\ fstate[g] \notin {"free", "done"}
      <4>1. Pending(g)
        BY <2>3, FormsOf
      <4> QED BY <1>1, <2>1, <2>6, <4>1
          DEF Dispatch, Goto, TypeInv, TypeOK, PcTypes, FiberTypes, FiberInv
    <3>4. Life(g) = "live" /\ Life(g)' = "live"
      BY <3>3 DEF Life
    <3>5. Runner(g) = NoProc
      BY <3>2, RunnerIs
    <3>6. Runner(g)' = p
      BY <1>1, <2>1, <3>3, RunnerIsNext DEF Executes
    <3> QED BY <2>2, <2>4, <3>4, <3>5, <3>6, PoolResume
  <2> QED BY <2>5, <2>6
<1> QED BY <1>2, <1>3

\* A fiber that has left waits, is put back, or has ended.
LEMMA PoolSwitchOut ==
    ASSUME Sound, NEW p \in Procs, SwitchOut(p)
    PROVE  PoolStep
<1> USE ThreadFacts
<1>0. /\ pc[p] = "switch" /\ ProcStep(p) /\ ~Dispatch(p)
      /\ ~PuttingBack(p) => Quiet
  <2>1. pc[p] = "switch" /\ ProcStep(p) /\ ~Dispatch(p)
    BY DEF SwitchOut, ProcStep, Dispatch
  <2> QED BY <2>1, ProcQuiet DEF Taking, Loop, Refill, Sound
<1>1. ASSUME NEW f \in Fibers
      PROVE  /\ TypeInv /\ Placed /\ FiberInv(f) /\ FiberInv(f)' /\ One(f)
             /\ ~PuttingBack(p) => Kept(f)
             /\ f # cur[p] => PoolSame(f)
  <2>1. TypeInv /\ Placed /\ FiberInv(f) /\ FiberInv(f)' /\ One(f)
    BY SoundOf
  <2>2. f # cur[p] => SameRun(f)
    BY <1>0, <2>1, RunProc
  <2>3. ~PuttingBack(p) => Kept(f)
    BY <1>0, KeptQuiet
  <2>4. f # cur[p] => Kept(f)
    BY <2>1, <2>3, PutBackEffect
  <2> QED BY <2>1, <2>2, <2>3, <2>4, KeptPool
<1>2. CASE cur[p] \notin Fibers
  <2>1. \A f \in Fibers : PoolSame(f)
    BY <1>1, <1>2
  <2> QED BY <2>1, PoolStutter
<1>3. CASE cur[p] \in Fibers
  <2>1. PICK g \in Fibers : g = cur[p]
    BY <1>3
  <2>2. OthersSame(g)
    BY <1>1, <2>1 DEF OthersSame
  <2>3. Executes(p, g) /\ \A q \in Procs : Executes(q, g) => q = p
    BY <1>0, <1>1, <2>1 DEF Executes, FiberInv
  <2>4. \A q \in Procs : ~Executes(q, g)'
    BY <1>1, <2>3, RealFiber
    DEF SwitchOut, Executes, Goto, TypeInv, TypeOK, PcTypes, LocalTypes
  <2>5. Runner(g) = p /\ p # NoProc /\ Runner(g)' = NoProc
    <3>1. p # NoProc
      BY DEF Procs, NoProc
    <3> QED BY <1>1, <2>3, <2>4, <3>1, RunnerIs, RunnerIsNext
  <2>6. /\ fstate' = fstate
        /\ fstate[g] \in {"running", "block", "done"}
        /\ Pending(g) => fstate[g] = "block"
    BY <1>0, <1>1, <2>3
    DEF SwitchOut, fiberVars, TypeInv, TypeOK, FiberTypes, FiberInv, LeavesArmed
  <2>7. /\ Life(g) = "live"
        /\ Life(g)' = IF fstate[g] = "done" THEN "done" ELSE "live"
    BY <2>3, <2>4, <2>6 DEF Life
  <2>8. CASE fstate[g] = "running"
    <3>1. PuttingBack(p)
      BY <2>1, <2>8 DEF PuttingBack
    <3>2. ~Pending(g) /\ Queued(g)'
      BY <1>1, <2>1, <2>6, <2>8, <3>1, PutBackEffect DEF GetsQueued
    <3>3. TicketOf(g) = "none" /\ TicketOf(g)' = "queued"
      BY <3>2, TicketIs, TicketValue
    <3> QED BY <2>2, <2>5, <2>7, <2>8, <3>3, PoolRequeue
  <2>9. CASE fstate[g] # "running"
    <3>1. Kept(g)
      BY <1>1, <2>1, <2>9 DEF PuttingBack
    <3>2. TicketOf(g)' = TicketOf(g)
      BY <3>1 DEF Kept, TicketOf
    <3>3. CASE fstate[g] = "block"
      BY <2>2, <2>5, <2>7, <3>2, <3>3, PoolWait
    <3>4. CASE fstate[g] = "done"
      <4>1. TicketOf(g) = "none"
        BY <2>6, <3>4, TicketIs
      <4> QED BY <2>2, <2>5, <2>7, <3>2, <3>4, <4>1, PoolFinish
    <3> QED BY <2>6, <2>9, <3>3, <3>4
  <2> QED BY <2>8, <2>9
<1> QED BY <1>2, <1>3

\* The processer's other steps move a fiber along its queues at most.
LEMMA PoolProc ==
    ASSUME Sound, NEW p \in Procs, ProcStep(p) \/ SpuriousWake(p)
    PROVE  PoolStep
<1>1. CASE Dispatch(p)
  BY <1>1, PoolDispatch
<1>2. CASE SwitchOut(p)
  BY <1>2, PoolSwitchOut
<1>3. CASE ~Dispatch(p) /\ ~SwitchOut(p)
  <2>1. ASSUME NEW f \in Fibers PROVE PoolSame(f)
    <3>1. TypeInv /\ Placed /\ FiberInv(f) /\ FiberInv(f)'
      BY SoundOf
    <3>2. SameRun(f)
      BY <1>3, <3>1, RunProc
    <3>3. Kept(f)
      <4>1. CASE Taking(p) \/ Refill(p)
        BY <3>1, <4>1, TakingEffect, RefillEffect
      <4>2. CASE ~Taking(p) /\ ~Refill(p)
        BY <1>3, <3>1, <4>2, ProcQuiet, KeptQuiet DEF PuttingBack
      <4> QED BY <4>1, <4>2
    <3> QED BY <3>1, <3>2, <3>3, KeptPool
  <2> QED BY <2>1, PoolStutter
<1> QED BY <1>1, <1>2, <1>3

\* A new fiber, in the hands of the thread that made it.
LEMMA PoolNew ==
    ASSUME Sound, NEW g \in Fibers, OthersSame(g), fstate[g] = "free",
           fstate'[g] = "running", ~Pending(g) => GetsPromised(g),
           \A p \in Procs : Executes(p, g)' => Executes(p, g)
    PROVE  PoolStep
<1>1. ~Pending(g) /\ \A p \in Procs : ~Executes(p, g)
  BY SoundOf DEF FiberInv
<1>2. TicketOf(g)' = "promised"
  BY <1>1, TicketValue DEF GetsPromised
<1>3. Life(g) = "new" /\ Life(g)' = "live"
  BY DEF Life
<1>4. Runner(g) = NoProc /\ Runner(g)' = NoProc
  BY <1>1, RunnerIs, RunnerIsNext
<1> QED BY <1>2, <1>3, <1>4, PoolCreate

\* Creating a fiber from any thread is the pool's Create.
LEMMA PoolCreates ==
    ASSUME Sound, NEW t \in Threads, NEW g \in Fibers, Creates(t, g),
           UNCHANGED <<wakes, armed>>, \A f \in Fibers : f # g => SameRun(f)
    PROVE  PoolStep
<1>1. /\ TypeInv
      /\ fstate[g] = "free" /\ fstate'[g] = "running" /\ cur' = cur
      /\ pc[t] # "dispatch" /\ \A u \in Threads : u # t => pc'[u] = pc[u]
  BY SoundOf DEF Creates, Create, Goto, TypeInv, TypeOK, PcTypes, FiberTypes
<1>2. \A p \in Procs : Executes(p, g)' => Executes(p, g)
  BY <1>1, ThreadFacts DEF Executes
<1>3. ~Pending(g) => GetsPromised(g)
  BY <1>1, CreateEffect
<1>4. OthersSame(g)
  <2>1. ASSUME NEW f \in Fibers, f # g PROVE PoolSame(f)
    BY <1>1, <2>1, SoundOf, CreateEffect, KeptPool
  <2> QED BY <2>1 DEF OthersSame
<1> QED BY <1>1, <1>2, <1>3, <1>4, PoolNew

\* A fiber that arms its wake-up has none pending yet.
LEMMA PoolArms ==
    ASSUME Sound, NEW p \in Procs, NEW g \in Tasks, Arm(p, g)
    PROVE  PoolStep
<1> USE ThreadFacts, FiberFacts
<1>1. /\ fstate' = fstate /\ cur' = cur
      /\ pc[p] = "body" /\ cur[p] = g /\ pc'[p] = "armed"
      /\ \A u \in Threads : u # p => pc'[u] = pc[u]
  BY DEF Arm, Running, Goto, localVars, Sound, TypeInv, TypeOK, PcTypes
<1>2. OthersSame(g)
  <2>1. ASSUME NEW f \in Fibers, f # g PROVE PoolSame(f)
    BY <2>1, SoundOf, RunBody, ArmEffect, KeptPool
  <2> QED BY <2>1 DEF OthersSame
<1>3. /\ \A q \in Procs : Executes(q, g)' <=> Executes(q, g)
      /\ Executes(p, g) /\ p # NoProc
  BY <1>1 DEF Executes, Procs, NoProc
<1>4. Runner(g) = p /\ Runner(g)' = p
  BY <1>3, SoundOf, RunnerIs, RunnerIsNext
<1>5. Life(g)' = Life(g)
  BY <1>1, <1>3 DEF Life
<1>6. ~Pending(g)
  BY <1>1, <1>3, SoundOf DEF FiberInv, LeavesArmed
<1>7. TicketOf(g) = "none"
  BY <1>6, TicketIs
<1>8. TicketOf(g)' = "promised"
  BY <1>6, SoundOf, ArmEffect, TicketValue DEF GetsPromised
<1> QED BY <1>2, <1>3, <1>4, <1>5, <1>7, <1>8, PoolArm

\* A fiber on its way out still runs, whatever its state says.
LEMMA PoolLeaves ==
    ASSUME Sound, NEW p \in Procs, NEW g \in Fibers,
           Reschedule(p, g) \/ Finish(p, g) \/ (Yield(p) /\ cur[p] = g)
    PROVE  PoolStep
<1> USE ThreadFacts, FiberFacts
<1>1. /\ cur' = cur
      /\ pc[p] \in {"body", "armed"} /\ cur[p] = g /\ pc'[p] = "switch"
      /\ \A u \in Threads : u # p => pc'[u] = pc[u]
      /\ \A h \in Fibers : h # g => fstate'[h] = fstate[h]
      /\ fstate'[g] \in {"running", "block", "done", fstate[g]}
  BY DEF Reschedule, Finish, Yield, Running, Goto, fiberVars, localVars, Sound, TypeInv,
     TypeOK, PcTypes, FiberTypes
<1>2. Quiet
  BY BodyQuiet DEF Sound
<1>3. \A f \in Fibers, q \in Procs : Executes(q, f)' <=> Executes(q, f)
  BY <1>1 DEF Executes
<1>4. ASSUME NEW f \in Fibers PROVE PoolSame(f)
  <2>1. Kept(f)
    BY <1>2, KeptQuiet
  <2>2. Runner(f)' = Runner(f)
    <3>1. CASE \E q \in Procs : Executes(q, f)
      BY <1>3, <3>1, SoundOf, RunnerIs, RunnerIsNext
    <3>2. CASE \A q \in Procs : ~Executes(q, f)
      BY <1>3, <3>2, RunnerIs, RunnerIsNext
    <3> QED BY <3>1, <3>2
  <2>3. Life(f)' = Life(f)
    <3>1. CASE f # g
      BY <1>1, <1>3, <3>1 DEF Life
    <3>2. CASE f = g
      <4>1. Executes(p, f) /\ Executes(p, f)'
        BY <1>1, <3>2 DEF Executes
      <4>2. fstate[f] # "free"
        BY <4>1, SoundOf DEF FiberInv
      <4> QED BY <1>1, <3>2, <4>1, <4>2 DEF Life
    <3> QED BY <3>1, <3>2
  <2> QED BY <2>1, <2>2, <2>3 DEF Kept, TicketOf, PoolSame
<1> QED BY <1>4, PoolStutter

\* Every step of a running fiber is a step of the pool or a stutter.
LEMMA PoolBody ==
    ASSUME Sound, NEW p \in Procs, BodyStep(p)
    PROVE  PoolStep
<1> USE ThreadFacts, FiberFacts
<1>1. CASE \E g, h \in Tasks : CreateFromTask(p, g, h)
  <2> PICK g \in Tasks, h \in Tasks : CreateFromTask(p, g, h)
    BY <1>1
  <2>1. Creates(p, h) /\ UNCHANGED <<wakes, armed>>
    BY DEF CreateFromTask, Creates, Running, CarryPCs, queueVars, localVars
  <2>2. \A f \in Fibers : f # h => SameRun(f)
    BY RunBody DEF Sound
  <2> QED BY <2>1, <2>2, PoolCreates
<1>2. CASE \E g \in Tasks : Arm(p, g)
  BY <1>2, PoolArms
<1>3. CASE (\E g \in Tasks : Reschedule(p, g)) \/ (\E g \in Fibers : Finish(p, g))
  BY <1>3, PoolLeaves
<1>4. CASE \E w \in Wakers : PassOn(p, w)
  <2>1. \A f \in Fibers : PoolSame(f)
    BY <1>4, SoundOf, RunBody, PassOnEffect, KeptPool
  <2> QED BY <2>1, PoolStutter
<1>5. CASE Yield(p)
  <2>1. CASE cur[p] \in Fibers
    <3>1. PICK g \in Fibers : g = cur[p]
      BY <2>1
    <3> QED BY <1>5, <3>1, PoolLeaves
  <2>2. CASE cur[p] \notin Fibers
    <3>1. Quiet
      BY <1>5, BodyQuiet DEF Sound
    <3>2. \A f \in Fibers : PoolSame(f)
      BY <1>5, <2>2, <3>1, SoundOf, RunBody, QuietPool
    <3> QED BY <3>2, PoolStutter
  <2> QED BY <2>1, <2>2
<1> QED BY <1>1, <1>2, <1>3, <1>4, <1>5 DEF BodyStep

\* Every step of the owner and of the poller is a step of the pool or a stutter.
LEMMA PoolOwner ==
    ASSUME Sound, (\E g \in Tasks : MainCreate(g)) \/ MainStop \/ StopStep \/ PollStep
    PROVE  PoolStep
<1> USE ThreadFacts, FiberFacts
<1>1. CASE \E g \in Tasks : MainCreate(g)
  <2> PICK g \in Tasks : MainCreate(g)
    BY <1>1
  <2>1. Creates(Main, g) /\ UNCHANGED <<wakes, armed>>
    BY DEF MainCreate, Creates, CarryPCs, queueVars, localVars
  <2>2. \A f \in Fibers : f # g => SameRun(f)
    BY RunOwner DEF Sound
  <2> QED BY <2>1, <2>2, PoolCreates
<1>2. CASE MainStop \/ StopStep \/ PollExit
  <2>1. Quiet
    BY <1>2, OwnerQuiet DEF Sound
  <2>2. \A f \in Fibers : PoolSame(f)
    BY <1>2, <2>1, SoundOf, RunOwner, QuietPool
  <2> QED BY <2>2, PoolStutter
<1>3. CASE \E g \in Tasks, w \in Wakers : Deliver(g, w)
  <2> PICK g \in Tasks, w \in Wakers : Deliver(g, w)
    BY <1>3
  <2>1. /\ TypeInv
        /\ fstate[w] = "free" /\ fstate'[w] = "running" /\ cur' = cur
        /\ pc[Poller] = "poll" /\ \A u \in Threads : u # Poller => pc'[u] = pc[u]
    BY SoundOf DEF Deliver, Create, Goto, localVars, TypeInv, TypeOK, PcTypes, FiberTypes
  <2>2. wakes[w] = NoFiber
    BY <2>1 DEF Sound, TicketInv, FreeWaker
  <2>3. \A p \in Procs : Executes(p, w)' => Executes(p, w)
    BY <2>1 DEF Executes
  <2>4. ~Pending(w) => GetsPromised(w)
    BY <2>1, <2>2, DeliverEffect
  <2>5. OthersSame(w)
    <3>1. ASSUME NEW f \in Fibers, f # w PROVE PoolSame(f)
      BY <2>1, <2>2, <3>1, SoundOf, RunOwner, DeliverEffect, KeptPool
    <3> QED BY <3>1 DEF OthersSame
  <2> QED BY <2>1, <2>3, <2>4, <2>5, PoolNew
<1> QED BY <1>1, <1>2, <1>3 DEF PollStep

-----------------------------------------------------------------------------
(* The theorem *)

\* Every step of the scheduler is a step of the pool or a stutter.
LEMMA PoolSteps == TypeInv /\ TicketInv /\ TicketInv' /\ [Next]_vars => PoolStep
<1> SUFFICES ASSUME TypeInv, TicketInv, TicketInv', [Next]_vars PROVE PoolStep
  OBVIOUS
<1>1. Sound
  BY DEF Sound, TicketInv
<1>2. CASE UNCHANGED vars
  <2>1. \A f \in Fibers : SameRun(f)
    BY <1>2 DEF SameRun, Executes, vars, localVars, fiberVars
  <2>2. Quiet
    BY <1>2 DEF Quiet, SameHands, SameDispatch, vars, queueVars, localVars, fiberVars,
       callVars
  <2>3. \A f \in Fibers : PoolSame(f)
    BY <1>1, <2>1, <2>2, SoundOf, QuietPool
  <2> QED BY <2>3, PoolStutter
<1>3. CASE Next /\ ~Ended
  BY <1>1, <1>3, PoolAdd, PoolProc, PoolBody, PoolOwner DEF Next
<1> QED BY <1>2, <1>3 DEF Ended

\* The scheduler starts where the pool starts.
LEMMA PoolInit == Init => Pool!Init
<1> SUFFICES ASSUME Init PROVE Pool!Init
  OBVIOUS
<1>1. TicketInv
  BY TicketInit
<1>2. ASSUME NEW f \in Fibers
      PROVE  Life(f) = "new" /\ TicketOf(f) = "none" /\ Runner(f) = NoProc
  <2>1. fstate[f] = "free" /\ \A p \in Procs : ~Executes(p, f)
    BY RealFiber DEF Init, Executes
  <2>2. ~Pending(f)
    BY <1>1, <2>1 DEF TicketInv, FiberInv
  <2> QED BY <2>1, <2>2, TicketIs, RunnerIs DEF Life
<1> QED BY <1>2 DEF Pool!Init, TicketOf

\* The scheduler implements the pool: whatever the threads do, each step creates,
\* promises, queues, resumes, arms, suspends or ends one fiber as FiberPool allows, or
\* shows nothing of it (scheduler.cc:60-99, processer.cc:47-198).
THEOREM ImplementsPool == Spec => PoolSpec
<1>1. PoolStep => [Pool!Moves /\ Pool!Next]_(Pool!vars)
  BY DEF PoolStep, Pool!Moves
<1>2. TypeInv /\ TicketInv /\ TicketInv' /\ [Next]_vars
        => [Pool!Moves /\ Pool!Next]_(Pool!vars)
  BY <1>1, PoolSteps
<1>3. Spec => []TypeInv
  BY InitTypes, StepTypes, PTL DEF Spec
<1> QED BY <1>2, <1>3, PoolInit, TicketsHold, PTL DEF Spec, PoolSpec, Pool!Spec
=============================================================================
