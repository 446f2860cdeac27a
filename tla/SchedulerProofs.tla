--------------------------- MODULE SchedulerProofs ---------------------------
(***************************************************************************)
(* Proofs about Scheduler for any number of processers and fibers and any  *)
(* capacity: types, and the two invariants that tie a processer's queue,   *)
(* its counter and its notification flag together.                         *)
(***************************************************************************)
EXTENDS Scheduler, FiniteSetTheorems, TLAPS

-----------------------------------------------------------------------------
(* Types *)

\* The owner, the poller and the processers are different threads, and there is a processer.
LEMMA ThreadFacts ==
    /\ \A p \in Procs : p \in Threads
    /\ Main \in Threads /\ Poller \in Threads
    /\ Main \notin Procs /\ Poller \notin Procs /\ Main # Poller
    /\ NoProc \notin Procs /\ 1 \in Procs
    /\ \A t \in Threads : t = Main \/ t = Poller \/ t \in Procs
BY NAssumption DEF Procs, Threads, Main, Poller, NoProc

\* Every label an action goes to is one.
LEMMA Labels ==
    /\ "own" \in PCs /\ "scan" \in PCs /\ "check" \in PCs
    /\ "push" \in PCs /\ "write" \in PCs /\ "store" \in PCs
    /\ "count" \in PCs /\ "peek" \in PCs
    /\ "flag" \in PCs /\ "flagNotify" \in PCs /\ "notify" \in PCs
    /\ "rotate" \in PCs /\ "start" \in PCs /\ "loop" \in PCs
    /\ "refill" \in PCs /\ "idle" \in PCs /\ "waiting" \in PCs
    /\ "woken" \in PCs /\ "dispatch" \in PCs /\ "body" \in PCs
    /\ "armed" \in PCs /\ "switch" \in PCs /\ "exit" \in PCs
    /\ "idleTest" \in PCs /\ "idleReset" \in PCs /\ "idleState" \in PCs
    /\ "idleCheck" \in PCs /\ "idleWait" \in PCs /\ "idleLeave" \in PCs
    /\ "user" \in PCs /\ "stopSet" \in PCs /\ "stopNotify" \in PCs
    /\ "join" \in PCs /\ "joinPoller" \in PCs /\ "poll" \in PCs
BY DEF PCs, Adding, ProcPCs, MainPCs, PollPCs, IdleLocked

\* Where addFiber returns to is a label.
LEMMA AfterAddType == \A t \in Threads : AfterAdd(t) \in PCs /\ Home(t) \in PCs
BY Labels DEF AfterAdd, Home

\* Tasks and wakers are fibers, and fibers are pointers, as is null.
LEMMA FiberFacts ==
    /\ \A f \in Tasks : f \in Fibers
    /\ \A f \in Wakers : f \in Fibers
    /\ \A f \in Fibers : f \in Ptrs
    /\ NoFiber \in Ptrs
BY DEF Fibers, Ptrs

\* TypeOK is not inductive: addFiber reads m_proc of the fiber it is given, so
\* it must be given one.
OwnArg == \A t \in Threads : pc[t] = "own" => arg[t] \in Fibers
TypeInv == TypeOK /\ OwnArg

\* The invariant holds at the start.
LEMMA InitTypes == Init => TypeInv
<1> SUFFICES ASSUME Init PROVE TypeInv
    OBVIOUS
<1>1. TypeOK
  BY ThreadFacts, Labels, FiberFacts, BoundAssumption
  DEF Init, TypeOK, StateTypes, QueueTypes, LocalTypes, FiberTypes, CallTypes,
      PcTypes
<1>2. OwnArg
  BY DEF Init, OwnArg
<1> QED BY <1>1, <1>2 DEF TypeInv

\* What a step leaves alone keeps its type.
LEMMA Frame ==
    /\ StateTypes /\ UNCHANGED stateVars => StateTypes'
    /\ QueueTypes /\ UNCHANGED queueVars => QueueTypes'
    /\ LocalTypes /\ UNCHANGED localVars => LocalTypes'
    /\ FiberTypes /\ UNCHANGED fiberVars => FiberTypes'
    /\ CallTypes /\ UNCHANGED callVars => CallTypes'
BY DEF StateTypes, QueueTypes, LocalTypes, FiberTypes, CallTypes,
       stateVars, queueVars, localVars, fiberVars, callVars

\* Going to a label keeps the types of the program counters.
LEMMA GotoType ==
    ASSUME PcTypes, NEW t \in Threads, NEW l \in PCs, Goto(t, l)
    PROVE  PcTypes'
BY DEF PcTypes, Goto

\* getNewFibers keeps both queues sequences of fibers.
LEMMA GetNewFibersTypes ==
    ASSUME QueueTypes, NEW p \in Procs, NEW base \in Seq(Ptrs),
           GetNewFibers(p, base)
    PROVE  QueueTypes'
<1> DEFINE n == IF newCount[p] < Len(newQueue[p]) THEN newCount[p]
                ELSE Len(newQueue[p])
<1>1. /\ newQueue[p] \in Seq(Ptrs) /\ newCount[p] \in Nat
      /\ n \in Nat /\ n <= Len(newQueue[p])
  BY DEF QueueTypes
<1>2. SubSeq(newQueue[p], 1, n) \in Seq(Ptrs)
  BY <1>1
<1>3. SubSeq(newQueue[p], n + 1, Len(newQueue[p])) \in Seq(Ptrs)
  BY <1>1
<1>4. base \o SubSeq(newQueue[p], 1, n) \in Seq(Ptrs)
  BY <1>2
<1> QED BY <1>1, <1>3, <1>4 DEF GetNewFibers, QueueTypes

\* Whatever the indices of a ring say, there are fibers between them.
LEMMA WindowsType ==
    ASSUME QueueTypes, NEW p \in Procs, NEW q \in Windows(p)
    PROVE  q \in Seq(Ptrs)
<1>1. Slotted(p) \cup {NoFiber} \subseteq Ptrs
  BY FiberFacts DEF Slotted, QueueTypes
<1>2. PICK n \in 0..Capacity : q \in [1..n -> Slotted(p) \cup {NoFiber}]
  BY DEF Windows
<1>3. n \in Nat /\ q \in [1..n -> Ptrs]
  BY <1>1, <1>2, BoundAssumption
<1> QED BY <1>3

\* A push, step by step, leaves a queue of fibers and a set of them.
LEMMA PushTypes ==
    ASSUME TypeInv, NEW t \in Threads, PushTest(t) \/ PushWrite(t) \/ PushStore(t)
    PROVE  QueueTypes'
<1> USE ThreadFacts
<1>0. /\ tgt[t] \in Procs /\ arg[t] \in Ptrs /\ QueueTypes
      /\ newQueue[tgt[t]] \in Seq(Ptrs) /\ stray[tgt[t]] \in SUBSET Ptrs
  BY DEF TypeInv, TypeOK, CallTypes, QueueTypes
<1>1. CASE PushTest(t)
  <2>1. overlapped' \in SUBSET Procs
    BY <1>0, <1>1 DEF PushTest, QueueTypes
  <2> QED BY <1>0, <1>1, <2>1 DEF PushTest, QueueTypes
<1>2. CASE PushWrite(t)
  <2>1. CASE WriteFree(tgt[t], arg[t])
    BY <1>0, <1>2, <2>1 DEF PushWrite, WriteFree, QueueTypes
  <2>2. ASSUME NEW g, UNCHANGED newQueue,
               stray' = [stray EXCEPT ![tgt[t]] = (@ \ {g}) \cup {arg[t]}]
        PROVE  QueueTypes'
    BY <1>0, <1>2, <2>2 DEF PushWrite, QueueTypes
  <2>3. ASSUME NEW i \in 1..Len(newQueue[tgt[t]]), UNCHANGED stray,
               newQueue' = [newQueue EXCEPT ![tgt[t]] = [@ EXCEPT ![i] = arg[t]]]
        PROVE  QueueTypes'
    <3>1. [newQueue[tgt[t]] EXCEPT ![i] = arg[t]] \in Seq(Ptrs)
      BY <1>0
    <3> QED BY <1>0, <1>2, <2>3, <3>1 DEF PushWrite, QueueTypes
  <2> QED BY <1>2, <2>1, <2>2, <2>3 DEF PushWrite, WriteOver
<1>3. CASE PushStore(t)
  <2>1. CASE StoreAny(tgt[t])
    <3>1. PICK q \in Windows(tgt[t]) :
              /\ newQueue' = [newQueue EXCEPT ![tgt[t]] = q]
              /\ stray' = [stray EXCEPT ![tgt[t]] =
                              Slotted(tgt[t]) \ {q[i] : i \in DOMAIN q}]
      BY <2>1 DEF StoreAny
    <3>2. q \in Seq(Ptrs) /\ Slotted(tgt[t]) \subseteq Ptrs
      BY <1>0, WindowsType DEF Slotted
    <3> QED BY <1>0, <1>3, <3>1, <3>2 DEF PushStore, QueueTypes
  <2>2. CASE StoreNext(tgt[t])
    <3>1. PICK f \in stray[tgt[t]] :
              /\ newQueue' = [newQueue EXCEPT ![tgt[t]] = Append(@, f)]
              /\ stray' = [stray EXCEPT ![tgt[t]] = @ \ {f}]
      BY <2>2 DEF StoreNext
    <3>2. Append(newQueue[tgt[t]], f) \in Seq(Ptrs)
      BY <1>0
    <3> QED BY <1>0, <1>3, <3>1, <3>2 DEF PushStore, QueueTypes
  <2> QED BY <1>3, <2>1, <2>2 DEF PushStore
<1> QED BY <1>1, <1>2, <1>3

\* No step of addFiber breaks a type.
LEMMA AddTypes ==
    ASSUME TypeInv, NEW t \in Threads, AddStep(t)
    PROVE  TypeOK'
<1> USE ThreadFacts, Labels, AfterAddType, Frame DEF TypeInv, TypeOK
<1>0. /\ tgt[t] \in Procs /\ arg[t] \in Ptrs
      /\ newCount[tgt[t]] \in Nat /\ newQueue[tgt[t]] \in Seq(Ptrs)
      /\ rr \in Procs
  BY DEF CallTypes, QueueTypes
<1>1. CASE TryOwn(t)
  <2>1. OwnProcesser(arg[t]) \in Procs \cup {NoProc}
    BY <1>1 DEF TryOwn, OwnArg, OwnProcesser, FiberTypes
  <2>2. CallTypes' /\ PcTypes'
    BY <1>1, <2>1 DEF TryOwn, CallTypes, PcTypes, Goto
  <2> QED BY <1>1, <2>2 DEF TryOwn
<1>2. CASE Scan(t)
  <2>1. tgt[t] < N => tgt[t] + 1 \in Procs
    BY <1>0, NAssumption DEF Procs
  <2>2. CallTypes' /\ PcTypes'
    BY <1>0, <1>2, <2>1 DEF Scan, CallTypes, PcTypes, Goto
  <2> QED BY <1>2, <2>2 DEF Scan
<1>3. CASE Rotate(t)
  <2>1. (rr % N) + 1 \in Procs
    BY <1>0, NAssumption DEF Procs
  <2>2. CallTypes' /\ PcTypes'
    BY <1>3, <2>1 DEF Rotate, NextId, CallTypes, PcTypes, Goto
  <2> QED BY <1>3, <2>2 DEF Rotate
<1>4. CASE CheckStopped(t)
  <2>1. CallTypes' /\ PcTypes'
    BY <1>4, FiberFacts DEF CheckStopped, CallTypes, PcTypes, Goto, Leave
  <2> QED BY <1>4, <2>1 DEF CheckStopped
<1>5. CASE PushTest(t) \/ PushWrite(t) \/ PushStore(t)
  <2>1. QueueTypes'
    BY <1>5, PushTypes
  <2>2. CallTypes' /\ PcTypes'
    BY <1>5, FiberFacts
    DEF PushTest, PushWrite, PushStore, CallTypes, PcTypes, Goto, callVars
  <2> QED BY <1>5, <2>1, <2>2 DEF PushTest, PushWrite, PushStore
<1>6. CASE Count(t)
  <2>1. QueueTypes'
    BY <1>0, <1>6 DEF Count, QueueTypes
  <2>2. PcTypes'
    BY <1>6, GotoType DEF Count
  <2> QED BY <1>6, <2>1, <2>2 DEF Count
<1>7. CASE Peek(t)
  BY <1>7, GotoType DEF Peek
<1>8. CASE Flag(t)
  <2>1. CallTypes' /\ PcTypes'
    BY <1>8 DEF Flag, CallTypes, PcTypes, Goto, Leave
  <2>2. StateTypes'
    BY <1>0, <1>8 DEF Flag, StateTypes
  <2> QED BY <1>8, <2>1, <2>2 DEF Flag
<1>9. CASE Notify(t)
  <2>1. CallTypes' /\ PcTypes'
    BY <1>0, <1>9 DEF Notify, NotifyProcesser, CallTypes, PcTypes
  <2>2. StateTypes'
    BY <1>0, <1>9 DEF Notify, NotifyProcesser, StateTypes
  <2> QED BY <1>9, <2>1, <2>2 DEF Notify
<1> QED BY <1>1, <1>2, <1>3, <1>4, <1>5, <1>6, <1>7, <1>8, <1>9 DEF AddStep

\* No step of a processer's loop breaks a type.
LEMMA ProcTypes ==
    ASSUME TypeInv, NEW p \in Procs, ProcStep(p) \/ SpuriousWake(p)
    PROVE  TypeOK'
<1> USE ThreadFacts, Labels, Frame, FiberFacts DEF TypeInv, TypeOK
<1>0. /\ cur[p] \in Ptrs /\ runable[p] \in Seq(Ptrs) /\ gcQueue[p] \in Seq(Ptrs)
      /\ <<>> \in Seq(Ptrs) /\ <<cur[p]>> \in Seq(Ptrs)
      /\ Append(runable[p], cur[p]) \in Seq(Ptrs)
      /\ Append(gcQueue[p], cur[p]) \in Seq(Ptrs)
      /\ runable[p] # <<>> => /\ Head(runable[p]) \in Ptrs
                              /\ Tail(runable[p]) \in Seq(Ptrs)
  <2>1. cur[p] \in Ptrs /\ runable[p] \in Seq(Ptrs) /\ gcQueue[p] \in Seq(Ptrs)
    BY DEF LocalTypes, QueueTypes
  <2> QED BY <2>1
<1>1. CASE Start(p)
  BY <1>1, GotoType DEF Start, StateTypes
<1>2. CASE Loop(p)
  <2>1. PcTypes'
    BY <1>2 DEF Loop, PcTypes, Goto
  <2>2. QueueTypes'
    BY <1>0, <1>2 DEF Loop, QueueTypes
  <2>3. LocalTypes'
    BY <1>0, <1>2 DEF Loop, LocalTypes
  <2> QED BY <1>2, <2>1, <2>2, <2>3 DEF Loop
<1>3. CASE Refill(p)
  <2>1. QueueTypes'
    BY <1>0, <1>3, GetNewFibersTypes DEF Refill
  <2>2. PcTypes'
    BY <1>3 DEF Refill, PcTypes, Goto
  <2> QED BY <1>3, <2>1, <2>2 DEF Refill
<1>4. CASE Dispatch(p)
  <2>1. PcTypes'
    BY <1>4 DEF Dispatch, PcTypes, Goto
  <2>2. FiberTypes'
    BY <1>4 DEF Dispatch, FiberTypes
  <2>3. LocalTypes'
    BY <1>4 DEF Dispatch, LocalTypes
  <2> QED BY <1>4, <2>1, <2>2, <2>3 DEF Dispatch
<1>5. CASE SwitchOut(p)
  <2>1. QueueTypes'
    <3>1. CASE fstate[cur[p]] = "running" /\ newCount[p] > NewMax
      BY <1>0, <1>5, <3>1, GetNewFibersTypes DEF SwitchOut, PutBack
    <3>2. CASE fstate[cur[p]] = "running" /\ ~(newCount[p] > NewMax)
      BY <1>0, <1>5, <3>2 DEF SwitchOut, PutBack, QueueTypes
    <3>3. CASE fstate[cur[p]] # "running"
      BY <1>5, <3>3 DEF SwitchOut, queueVars, QueueTypes
    <3> QED BY <3>1, <3>2, <3>3
  <2>2. gcQueue' \in [Procs -> Seq(Ptrs)]
    BY <1>0, <1>5 DEF SwitchOut, LocalTypes
  <2>3. LocalTypes' /\ PcTypes'
    BY <1>5, <2>2 DEF SwitchOut, LocalTypes, PcTypes, Goto
  <2> QED BY <1>5, <2>1, <2>3 DEF SwitchOut
<1>6. CASE IdleLock(p)
  BY <1>0, <1>6, GotoType DEF IdleLock, LocalTypes
<1>7. CASE IdleTest(p)
  BY <1>7, GotoType DEF IdleTest
<1>8. CASE IdleReset(p)
  BY <1>8, GotoType DEF IdleReset, StateTypes
<1>9. CASE IdleState(p)
  <2>1. PcTypes'
    BY <1>9 DEF IdleState, PcTypes, Goto
  <2>2. StateTypes'
    BY <1>9 DEF IdleState, StateTypes
  <2> QED BY <1>9, <2>1, <2>2 DEF IdleState
<1>10. CASE IdleCheck(p)
  BY <1>10, GotoType DEF IdleCheck
<1>11. CASE IdleWait(p)
  BY <1>11, GotoType DEF IdleWait
<1>12. CASE SpuriousWake(p)
  BY <1>12, GotoType DEF SpuriousWake
<1> QED BY <1>1, <1>2, <1>3, <1>4, <1>5, <1>6, <1>7, <1>8, <1>9, <1>10, <1>11,
           <1>12 DEF ProcStep

\* No step of a running fiber breaks a type.
LEMMA BodyTypes ==
    ASSUME TypeInv, NEW p \in Procs, BodyStep(p)
    PROVE  TypeOK'
<1> USE ThreadFacts, Labels, Frame, FiberFacts DEF TypeInv, TypeOK
<1>0. ASSUME NEW f \in Tasks, moves[f] > 0
      PROVE  moves[f] - 1 \in 0..MaxMoves
  BY <1>0, BoundAssumption DEF FiberTypes
<1>1. CASE \E f \in Tasks : \E g \in Tasks : CreateFromTask(p, f, g)
  <2> PICK f \in Tasks, g \in Tasks : CreateFromTask(p, f, g)
    BY <1>1
  <2>1. FiberTypes'
    BY <1>0 DEF CreateFromTask, Create, FiberTypes
  <2>2. CallTypes' /\ PcTypes'
    BY DEF CreateFromTask, Create, CallTypes, PcTypes, Goto
  <2> QED BY <2>1, <2>2 DEF CreateFromTask
<1>2. CASE \E f \in Tasks : Arm(p, f) \/ Reschedule(p, f)
  <2> PICK f \in Tasks : Arm(p, f) \/ Reschedule(p, f)
    BY <1>2
  <2>1. FiberTypes'
    BY <1>0 DEF Arm, Reschedule, FiberTypes
  <2>2. PcTypes'
    BY GotoType DEF Arm, Reschedule
  <2> QED BY <2>1, <2>2 DEF Arm, Reschedule
<1>3. CASE \E f \in Wakers : PassOn(p, f)
  <2> PICK f \in Wakers : PassOn(p, f)
    BY <1>3
  <2>1. wakes[f] \in Ptrs
    BY DEF FiberTypes
  <2>2. FiberTypes'
    BY <2>1 DEF PassOn, FiberTypes
  <2>3. CallTypes' /\ PcTypes'
    BY <2>1 DEF PassOn, CallTypes, PcTypes, Goto
  <2> QED BY <2>2, <2>3 DEF PassOn
<1>4. CASE \E f \in Fibers : Finish(p, f)
  <2> PICK f \in Fibers : Finish(p, f)
    BY <1>4
  <2>1. FiberTypes'
    BY BoundAssumption DEF Finish, FiberTypes
  <2>2. PcTypes'
    BY GotoType DEF Finish
  <2> QED BY <2>1, <2>2 DEF Finish
<1>5. CASE Yield(p)
  <2>1. FiberTypes'
    BY <1>5 DEF Yield, FiberTypes
  <2>2. PcTypes'
    BY <1>5, GotoType DEF Yield
  <2> QED BY <1>5, <2>1, <2>2 DEF Yield
<1> QED BY <1>1, <1>2, <1>3, <1>4, <1>5 DEF BodyStep

\* No step of the owner or of the poller breaks a type.
LEMMA OwnerTypes ==
    ASSUME TypeInv,
           (\E f \in Tasks : MainCreate(f)) \/ MainStop \/ StopStep \/ PollStep
    PROVE  TypeOK'
<1> USE ThreadFacts, Labels, Frame, FiberFacts DEF TypeInv, TypeOK
<1>1. CASE \E f \in Tasks : MainCreate(f)
  <2> PICK f \in Tasks : MainCreate(f)
    BY <1>1
  <2>1. FiberTypes'
    BY DEF MainCreate, Create, FiberTypes
  <2>2. CallTypes' /\ PcTypes'
    BY DEF MainCreate, Create, CallTypes, PcTypes, Goto
  <2> QED BY <2>1, <2>2 DEF MainCreate
<1>2. CASE MainStop
  <2>1. StateTypes' /\ PcTypes'
    BY <1>2, GotoType DEF MainStop, StateTypes
  <2>2. CallTypes'
    BY <1>2 DEF MainStop, CallTypes
  <2> QED BY <1>2, <2>1, <2>2 DEF MainStop
<1>3. CASE StopSet
  <2>1. StateTypes'
    BY <1>3 DEF StopSet, StateTypes
  <2> QED BY <1>3, <2>1, GotoType DEF StopSet
<1>4. CASE StopNotify
  <2>1. tgt[Main] \in Procs /\ (tgt[Main] < N => tgt[Main] + 1 \in Procs)
    BY NAssumption DEF CallTypes, Procs
  <2>2. CallTypes'
    BY <1>4, <2>1 DEF StopNotify, CallTypes
  <2>3. PcTypes'
    BY <1>4, <2>1 DEF StopNotify, NotifyProcesser, PcTypes
  <2>4. StateTypes'
    BY <1>4, <2>1 DEF StopNotify, NotifyProcesser, StateTypes
  <2> QED BY <1>4, <2>2, <2>3, <2>4 DEF StopNotify
<1>5. CASE Join
  BY <1>5, GotoType DEF Join
<1>6. CASE JoinPoller
  BY <1>6, GotoType DEF JoinPoller, StateTypes
<1>7. CASE PollExit
  BY <1>7, GotoType DEF PollExit
<1>8. CASE \E f \in Tasks, w \in Wakers : Deliver(f, w)
  <2> PICK f \in Tasks, w \in Wakers : Deliver(f, w)
    BY <1>8
  <2>1. FiberTypes'
    BY DEF Deliver, Expire, Create, FiberTypes
  <2>2. CallTypes' /\ PcTypes'
    BY DEF Deliver, Create, CallTypes, PcTypes, Goto
  <2> QED BY <2>1, <2>2 DEF Deliver
<1> QED BY <1>1, <1>2, <1>3, <1>4, <1>5, <1>6, <1>7, <1>8
        DEF StopStep, PollStep

\* addFiber never returns to its own start.
LEMMA AfterAddLabel == \A t \in Threads : AfterAdd(t) # "own" /\ Home(t) # "own"
BY DEF AfterAdd, Home

\* A thread at the start of addFiber keeps a real fiber in its hands.
LEMMA OwnArgStep == TypeInv /\ Next => OwnArg'
<1> SUFFICES ASSUME TypeInv, Next, NEW u \in Threads, pc'[u] = "own"
             PROVE  arg'[u] \in Fibers
  BY DEF OwnArg
<1> USE ThreadFacts, FiberFacts
    DEF TypeInv, TypeOK, PcTypes, CallTypes, Goto, callVars
<1>0. pc[u] = "own" => arg[u] \in Fibers
  BY DEF OwnArg
<1>1. CASE \E t \in Threads : AddStep(t)
  <2> PICK t \in Threads : AddStep(t)
    BY <1>1
  <2>1. TryOwn(t) \/ Scan(t) \/ Rotate(t) \/ CheckStopped(t) => u # t
    BY AfterAddLabel DEF TryOwn, Scan, Rotate, CheckStopped, Leave
  <2>2. PushTest(t) \/ PushWrite(t) \/ PushStore(t) \/ Count(t) \/ Peek(t)
        \/ Flag(t) \/ Notify(t) => u # t
    BY AfterAddLabel
    DEF PushTest, PushWrite, PushStore, Count, Peek, Flag, Notify, NotifyProcesser, Leave
  <2>3. u # t => pc[u] = "own" /\ arg'[u] = arg[u]
    <3>1. TryOwn(t) \/ Scan(t) \/ Rotate(t) \/ CheckStopped(t)
            => (u # t => pc[u] = "own" /\ arg'[u] = arg[u])
      BY DEF TryOwn, Scan, Rotate, CheckStopped, Leave
    <3>2. PushTest(t) \/ PushWrite(t) \/ PushStore(t) \/ Count(t) \/ Peek(t)
            => (u # t => pc[u] = "own" /\ arg'[u] = arg[u])
      BY DEF PushTest, PushWrite, PushStore, Count, Peek
    <3>3. Flag(t) \/ Notify(t)
            => (u # t => pc[u] = "own" /\ arg'[u] = arg[u])
      BY DEF Flag, Notify, NotifyProcesser, Leave
    <3> QED BY <3>1, <3>2, <3>3 DEF AddStep
  <2>4. u # t
    BY <2>1, <2>2 DEF AddStep
  <2> QED BY <1>0, <2>3, <2>4
<1>2. CASE \E p \in Procs : ProcStep(p) \/ SpuriousWake(p)
  <2> PICK p \in Procs : ProcStep(p) \/ SpuriousWake(p)
    BY <1>2
  <2>1. arg' = arg /\ (u # p => pc[u] = "own")
    BY DEF ProcStep, SpuriousWake, Start, Loop, Refill, Dispatch, SwitchOut,
           IdleLock, IdleTest, IdleReset, IdleState, IdleCheck, IdleWait
  <2>2. u # p
    BY DEF ProcStep, SpuriousWake, Start, Loop, Refill, Dispatch, SwitchOut,
           IdleLock, IdleTest, IdleReset, IdleState, IdleCheck, IdleWait
  <2> QED BY <1>0, <2>1, <2>2
<1>3. CASE \E p \in Procs : BodyStep(p)
  <2> PICK p \in Procs : BodyStep(p)
    BY <1>3
  <2>1. CASE \E f, g \in Tasks : CreateFromTask(p, f, g)
    BY <1>0, <2>1 DEF CreateFromTask, Create
  <2>2. CASE \E f \in Wakers : PassOn(p, f)
    <3> PICK f \in Wakers : PassOn(p, f)
      BY <2>2
    <3>1. wakes[f] \in Fibers
      BY DEF PassOn, FiberTypes, Ptrs
    <3> QED BY <1>0, <3>1 DEF PassOn
  <2>3. CASE \/ \E f \in Tasks : Arm(p, f) \/ Reschedule(p, f)
             \/ \E f \in Fibers : Finish(p, f)
             \/ Yield(p)
    BY <1>0, <2>3 DEF Arm, Reschedule, Finish, Yield
  <2> QED BY <2>1, <2>2, <2>3 DEF BodyStep
<1>4. CASE \E f \in Tasks : MainCreate(f)
  BY <1>0, <1>4 DEF MainCreate, Create
<1>5. CASE MainStop \/ StopStep
  BY <1>0, <1>5
  DEF MainStop, StopStep, StopSet, StopNotify, NotifyProcesser, Join, JoinPoller
<1>6. CASE PollStep
  BY <1>0, <1>6 DEF PollStep, PollExit, Deliver, Create
<1>7. CASE Ended
  BY <1>0, <1>7 DEF Ended, vars
<1> QED BY <1>1, <1>2, <1>3, <1>4, <1>5, <1>6, <1>7 DEF Next

\* No step breaks a type.
LEMMA StepTypes == TypeInv /\ [Next]_vars => TypeInv'
<1> SUFFICES ASSUME TypeInv, [Next]_vars PROVE TypeInv'
    OBVIOUS
<1>1. CASE UNCHANGED vars
  <2>1. TypeOK'
    BY <1>1, Frame DEF TypeInv, TypeOK, PcTypes, vars
  <2>2. OwnArg'
    BY <1>1 DEF TypeInv, OwnArg, vars, callVars
  <2> QED BY <2>1, <2>2 DEF TypeInv
<1>2. CASE Next
  <2>1. CASE Ended
    BY <1>1, <2>1 DEF Ended
  <2>2. CASE ~Ended
    <3>1. TypeOK'
      BY <1>2, <2>2, AddTypes, ProcTypes, BodyTypes, OwnerTypes DEF Next
    <3> QED BY <1>2, <3>1, OwnArgStep DEF TypeInv
  <2> QED BY <2>1, <2>2
<1> QED BY <1>1, <1>2

\* Every variable keeps its type, and addFiber always has a fiber in hand when
\* it reads m_proc of it.
THEOREM TypeCorrect == Spec => []TypeOK
<1>1. TypeInv => TypeOK
  BY DEF TypeInv
<1> QED BY <1>1, InitTypes, StepTypes, PTL DEF Spec

-----------------------------------------------------------------------------
(* The notification flag *)

\* WorkIsFlagged at one processer.
Flagged(p) == pc[p] \in AtIdle /\ newCount[p] > 0 => notidied[p] \/ WillFlag(p)

\* addFiber keeps the work of every processer flagged: who counts raises the flag afterwards.
LEMMA FlaggedAdd ==
    ASSUME TypeInv, WorkIsFlagged, NEW t \in Threads, AddStep(t),
           NEW p \in Procs
    PROVE  Flagged(p)'
<1> USE ThreadFacts
    DEF TypeInv, TypeOK, PcTypes, CallTypes, StateTypes, QueueTypes, Goto, Leave,
        stateVars, queueVars, callVars
<1>1. Flagged(p)
  BY DEF WorkIsFlagged, Flagged
<1>2. CASE TryOwn(t) \/ Scan(t) \/ Rotate(t) \/ CheckStopped(t)
  <2>1. pc'[p] \in AtIdle => pc[p] \in AtIdle
    <3>1. CASE TryOwn(t) \/ Scan(t)
      BY <3>1 DEF TryOwn, Scan, AtIdle
    <3>2. CASE Rotate(t) \/ CheckStopped(t)
      BY <3>2 DEF Rotate, CheckStopped, AfterAdd, Home, AtIdle
    <3> QED BY <1>2, <3>1, <3>2
  <2>2. newCount' = newCount /\ notidied' = notidied
    BY <1>2 DEF TryOwn, Scan, Rotate, CheckStopped
  <2>3. WillFlag(p) => WillFlag(p)'
    BY <1>2 DEF TryOwn, Scan, Rotate, CheckStopped, WillFlag
  <2> QED BY <1>1, <2>1, <2>2, <2>3 DEF Flagged
<1>3. CASE PushTest(t) \/ PushWrite(t) \/ PushStore(t)
  BY <1>1, <1>3 DEF PushTest, PushWrite, PushStore, Flagged, WillFlag, AtIdle
<1>4. CASE Count(t)
  <2>1. tgt[t] = p => WillFlag(p)'
    BY <1>4 DEF Count, WillFlag
  <2>2. CASE tgt[t] # p
    BY <1>1, <1>4, <2>2 DEF Count, Flagged, WillFlag, AtIdle
  <2> QED BY <2>1, <2>2 DEF Flagged
<1>5. CASE Peek(t)
  <2>1. pc'[p] \in AtIdle => pc[p] \in AtIdle
    BY <1>5 DEF Peek, AtIdle
  <2>2. WillFlag(p) => WillFlag(p)'
    BY <1>5 DEF Peek, WillFlag
  <2> QED BY <1>1, <1>5, <2>1, <2>2 DEF Peek, Flagged
<1>6. CASE Flag(t)
  <2>1. tgt[t] = p => notidied'[p]
    BY <1>6 DEF Flag
  <2>2. CASE tgt[t] # p
    <3>1. pc'[p] \in AtIdle => pc[p] \in AtIdle
      BY <1>6 DEF Flag, AfterAdd, Home, AtIdle
    <3>2. WillFlag(p) => WillFlag(p)'
      BY <1>6, <2>2 DEF Flag, WillFlag
    <3> QED BY <1>1, <1>6, <2>2, <3>1, <3>2 DEF Flag, Flagged
  <2> QED BY <2>1, <2>2 DEF Flagged
<1>7. CASE Notify(t)
  <2>1. tgt[t] = p => notidied'[p]
    BY <1>7 DEF Notify, NotifyProcesser
  <2>2. CASE tgt[t] # p
    <3>1. pc'[p] \in AtIdle => pc[p] \in AtIdle
      BY <1>7, <2>2 DEF Notify, NotifyProcesser, AfterAdd, Home, AtIdle
    <3>2. WillFlag(p) => WillFlag(p)'
      BY <1>7 DEF Notify, NotifyProcesser, WillFlag
    <3> QED BY <1>1, <1>7, <2>2, <3>1, <3>2
            DEF Notify, NotifyProcesser, Flagged
  <2> QED BY <2>1, <2>2 DEF Flagged
<1> QED BY <1>2, <1>3, <1>4, <1>5, <1>6, <1>7 DEF AddStep

\* A processer enters idle() with its counter just exchanged for 0, and clears
\* the flag only on its way back to getNewFibers.
LEMMA FlaggedProc ==
    ASSUME TypeInv, WorkIsFlagged, NEW q \in Procs,
           ProcStep(q) \/ SpuriousWake(q) \/ BodyStep(q),
           NEW p \in Procs
    PROVE  Flagged(p)'
<1> USE ThreadFacts
    DEF TypeInv, TypeOK, PcTypes, CallTypes, StateTypes, QueueTypes, Goto,
        stateVars, queueVars, callVars
<1>1. Flagged(p)
  BY DEF WorkIsFlagged, Flagged
<1>2. WillFlag(p) => WillFlag(p)'
  <2>1. ProcStep(q) \/ SpuriousWake(q) => (WillFlag(p) => WillFlag(p)')
    BY DEF ProcStep, SpuriousWake, Start, Loop, Refill, Dispatch, SwitchOut,
           IdleLock, IdleTest, IdleReset, IdleState, IdleCheck, IdleWait, WillFlag
  <2>2. BodyStep(q) => (WillFlag(p) => WillFlag(p)')
    BY DEF BodyStep, CreateFromTask, Create, Arm, Reschedule, PassOn, Finish,
           Yield, Running, WillFlag
  <2> QED BY <2>1, <2>2
<1>3. CASE q # p
  <2>1. newCount'[p] = newCount[p] /\ notidied'[p] = notidied[p] /\ pc'[p] = pc[p]
    BY <1>3
    DEF ProcStep, SpuriousWake, Start, Loop, Refill, Dispatch, SwitchOut,
        PutBack, IdleLock, IdleTest, IdleReset, IdleState, IdleCheck, IdleWait,
        GetNewFibers, BodyStep, CreateFromTask, Create, Arm, Reschedule, PassOn,
        Finish, Yield
  <2> QED BY <1>1, <1>2, <2>1 DEF Flagged
<1>4. CASE q = p /\ Refill(q)
  <2>1. newCount'[p] = 0
    BY <1>4 DEF Refill, GetNewFibers
  <2> QED BY <2>1 DEF Flagged
<1>5. CASE q = p /\ IdleTest(q)
  BY <1>1, <1>2, <1>5 DEF IdleTest, Flagged, AtIdle
<1>6. CASE q = p /\ IdleCheck(q)
  BY <1>1, <1>2, <1>6 DEF IdleCheck, Flagged, AtIdle
<1>7. CASE q = p /\ (IdleLock(q) \/ IdleState(q) \/ IdleWait(q) \/ SpuriousWake(q))
  BY <1>1, <1>2, <1>7
  DEF IdleLock, IdleState, IdleWait, SpuriousWake, Flagged, AtIdle
<1>8. CASE q = p /\ (Start(q) \/ Loop(q) \/ Dispatch(q) \/ SwitchOut(q)
                     \/ IdleReset(q) \/ BodyStep(q))
  <2>1. pc'[p] \notin AtIdle
    BY <1>8
    DEF Start, Loop, Dispatch, SwitchOut, IdleReset, BodyStep, CreateFromTask,
        Create, Arm, Reschedule, PassOn, Finish, Yield, AtIdle
  <2> QED BY <2>1 DEF Flagged
<1> QED BY <1>3, <1>4, <1>5, <1>6, <1>7, <1>8 DEF ProcStep

\* The owner and the poller keep the work of every processer flagged.
LEMMA FlaggedOwner ==
    ASSUME TypeInv, WorkIsFlagged, NEW p \in Procs,
           (\E f \in Tasks : MainCreate(f)) \/ MainStop \/ StopStep \/ PollStep
    PROVE  Flagged(p)'
<1> USE ThreadFacts
    DEF TypeInv, TypeOK, PcTypes, CallTypes, StateTypes, QueueTypes, Goto,
        stateVars, queueVars, callVars
<1>1. Flagged(p)
  BY DEF WorkIsFlagged, Flagged
<1>2. /\ WillFlag(p) => WillFlag(p)'
      /\ pc'[p] \in AtIdle => pc[p] \in AtIdle
  <2>1. CASE \E f \in Tasks : MainCreate(f)
    BY <2>1 DEF MainCreate, Create, WillFlag, AtIdle
  <2>2. CASE MainStop
    BY <2>2 DEF MainStop, WillFlag, AtIdle
  <2>3. CASE StopSet \/ Join \/ JoinPoller \/ PollExit
    BY <2>3 DEF StopSet, Join, JoinPoller, PollExit, WillFlag, AtIdle
  <2>4. CASE StopNotify
    <3>1. \A t \in Threads \ {Main} : /\ tgt'[t] = tgt[t]
                                      /\ pc'[t] = pc[t] \/ pc[t] = "waiting"
      <4>1. CASE tgt[Main] < N
        BY <2>4, <4>1 DEF StopNotify, NotifyProcesser
      <4>2. CASE ~(tgt[Main] < N)
        BY <2>4, <4>2 DEF StopNotify, NotifyProcesser
      <4> QED BY <4>1, <4>2
    <3>2. pc[Main] = "stopNotify"
      BY <2>4 DEF StopNotify
    <3>3. WillFlag(p) => WillFlag(p)'
      BY <3>1, <3>2 DEF WillFlag
    <3>4. pc'[p] \in AtIdle => pc[p] \in AtIdle
      BY <3>1 DEF AtIdle
    <3> QED BY <3>3, <3>4
  <2>5. CASE \E f \in Tasks, w \in Wakers : Deliver(f, w)
    BY <2>5 DEF Deliver, Create, WillFlag, AtIdle
  <2> QED BY <2>1, <2>2, <2>3, <2>4, <2>5 DEF StopStep, PollStep
<1>3. newCount' = newCount /\ (notidied[p] => notidied'[p])
  BY DEF MainCreate, MainStop, StopStep, StopSet, StopNotify, NotifyProcesser,
         Join, JoinPoller, PollStep, PollExit, Deliver
<1> QED BY <1>1, <1>2, <1>3 DEF Flagged

\* A processer that goes to wait, or waits, with fibers counted for it has its
\* flag up, or some thread inside Processer::addFiber is about to raise it:
\* the flag idle() clears was never the flag of a fiber it has not looked for.
THEOREM WorkStaysFlagged == Spec => []WorkIsFlagged
<1>1. Init => WorkIsFlagged
  BY DEF Init, WorkIsFlagged
<1>2. TypeInv /\ WorkIsFlagged /\ [Next]_vars => WorkIsFlagged'
  <2> SUFFICES ASSUME TypeInv, WorkIsFlagged, [Next]_vars, NEW p \in Procs
               PROVE  Flagged(p)'
    BY DEF WorkIsFlagged, Flagged
  <2>1. CASE Next /\ ~Ended
    BY <2>1, FlaggedAdd, FlaggedProc, FlaggedOwner DEF Next
  <2>2. CASE Ended \/ UNCHANGED vars
    BY <2>2 DEF WorkIsFlagged, Flagged, WillFlag, Ended, vars, stateVars,
                queueVars, callVars
  <2> QED BY <2>1, <2>2
<1> QED BY <1>1, <1>2, InitTypes, StepTypes, PTL DEF Spec

-----------------------------------------------------------------------------
(* The counter and the queue *)

\* The threads between push and count can be counted.
LEMMA PushingFinite ==
    \A p \in Procs : IsFiniteSet(Pushing(p)) /\ Cardinality(Pushing(p)) \in Nat
<1> SUFFICES ASSUME NEW p \in Procs
             PROVE  IsFiniteSet(Pushing(p)) /\ Cardinality(Pushing(p)) \in Nat
  OBVIOUS
<1>1. IsFiniteSet(Threads)
  BY FS_Interval, NAssumption DEF Threads
<1>2. Pushing(p) \subseteq Threads
  BY DEF Pushing
<1>3. IsFiniteSet(Pushing(p))
  BY <1>1, <1>2, FS_Subset
<1> QED BY <1>3, FS_CardinalityType

\* CountMatches at one processer.
Matches(p) ==
    p \in overlapped \/ Len(newQueue[p]) = newCount[p] + Cardinality(Pushing(p))

\* An overlap is for ever.
LEMMA OverlapStays == TypeInv /\ Next => overlapped \subseteq overlapped'
<1> SUFFICES ASSUME TypeInv, Next PROVE overlapped \subseteq overlapped'
  OBVIOUS
<1> USE DEF queueVars
<1>1. CASE \E t \in Threads : AddStep(t)
  BY <1>1 DEF AddStep, TryOwn, Scan, Rotate, CheckStopped, PushTest, PushWrite,
              PushStore, Count, Peek, Flag, Notify
<1>2. CASE \E p \in Procs : ProcStep(p) \/ SpuriousWake(p)
  BY <1>2 DEF ProcStep, SpuriousWake, Start, Loop, Refill, Dispatch, SwitchOut,
              PutBack, GetNewFibers, IdleLock, IdleTest, IdleReset, IdleState,
              IdleCheck, IdleWait
<1>3. CASE \E p \in Procs : BodyStep(p)
  BY <1>3 DEF BodyStep, CreateFromTask, Arm, Reschedule, PassOn, Finish, Yield
<1>4. CASE (\E f \in Tasks : MainCreate(f)) \/ MainStop \/ StopStep \/ PollStep
  BY <1>4 DEF MainCreate, MainStop, StopStep, StopSet, StopNotify, Join,
              JoinPoller, PollStep, PollExit, Deliver
<1>5. CASE Ended
  BY <1>5 DEF Ended, vars
<1> QED BY <1>1, <1>2, <1>3, <1>4, <1>5 DEF Next

\* A write that overlaps no other leaves the queue alone.
LEMMA MatchesWrite ==
    ASSUME TypeInv, NEW t \in Threads, PushTest(t) \/ PushWrite(t),
           NEW p \in Procs, Matches(p)
    PROVE  Matches(p)'
<1> USE ThreadFacts
    DEF TypeInv, TypeOK, PcTypes, CallTypes, QueueTypes, Goto, callVars
<1>1. Pushing(p)' = Pushing(p) /\ newCount' = newCount /\ overlapped \subseteq overlapped'
  BY DEF PushTest, PushWrite, Pushing
<1>2. p \notin overlapped => newQueue'[p] = newQueue[p]
  BY DEF PushTest, PushWrite, WriteFree, WriteOver
<1> QED BY <1>1, <1>2 DEF Matches

\* A store makes the queue longer and puts its thread among the pushing ones; the
\* count takes it out again.
LEMMA MatchesPush ==
    ASSUME TypeInv, NEW t \in Threads, PushStore(t) \/ Count(t),
           NEW p \in Procs, p \notin overlapped, Matches(p)
    PROVE  Matches(p)'
<1> USE ThreadFacts
    DEF TypeInv, TypeOK, PcTypes, CallTypes, QueueTypes, Goto, callVars
<1>0. /\ IsFiniteSet(Pushing(p)) /\ Cardinality(Pushing(p)) \in Nat
      /\ newQueue[p] \in Seq(Ptrs) /\ newCount[p] \in Nat
      /\ arg[t] \in Ptrs
  BY PushingFinite
<1>1. CASE tgt[t] # p
  <2>1. Pushing(p)' = Pushing(p)
    BY <1>1 DEF PushStore, StoreAny, StoreNext, Count, Pushing
  <2>2. newQueue'[p] = newQueue[p] /\ newCount'[p] = newCount[p]
    BY <1>1 DEF PushStore, StoreAny, StoreNext, Count
  <2> QED BY <2>1, <2>2 DEF Matches
<1>2. CASE tgt[t] = p /\ PushStore(t)
  <2>1. Pushing(p)' = Pushing(p) \cup {t}
    <3>1. pc'[t] = "count" /\ tgt' = tgt
      BY <1>2 DEF PushStore
    <3>2. \A u \in Threads : u # t => pc'[u] = pc[u]
      BY <1>2 DEF PushStore
    <3> QED BY <1>2, <3>1, <3>2 DEF Pushing
  <2>2. t \notin Pushing(p)
    BY <1>2 DEF PushStore, Pushing
  <2>3. Cardinality(Pushing(p)') = Cardinality(Pushing(p)) + 1
    BY <1>0, <2>1, <2>2, FS_AddElement
  <2>4. \E f \in Ptrs :
            newQueue'[p] = Append(newQueue[p], f) /\ newCount' = newCount
    BY <1>2 DEF PushStore, StoreNext
  <2>5. Len(newQueue'[p]) = Len(newQueue[p]) + 1
    BY <1>0, <2>4
  <2>6. Len(newQueue[p]) = newCount[p] + Cardinality(Pushing(p))
    BY DEF Matches
  <2>7. Len(newQueue'[p]) = newCount'[p] + Cardinality(Pushing(p)')
    BY <1>0, <2>3, <2>4, <2>5, <2>6
  <2> QED BY <2>7 DEF Matches
<1>3. CASE tgt[t] = p /\ Count(t)
  <2>1. Pushing(p)' = Pushing(p) \ {t}
    BY <1>3 DEF Count, Pushing
  <2>2. t \in Pushing(p)
    BY <1>3 DEF Count, Pushing
  <2>3. Cardinality(Pushing(p)') = Cardinality(Pushing(p)) - 1
    BY <1>0, <2>1, <2>2, FS_RemoveElement
  <2>4. newQueue' = newQueue /\ newCount'[p] = newCount[p] + 1
    BY <1>3 DEF Count
  <2>5. Len(newQueue[p]) = newCount[p] + Cardinality(Pushing(p))
    BY DEF Matches
  <2>6. Len(newQueue'[p]) = newCount'[p] + Cardinality(Pushing(p)')
    BY <1>0, <2>3, <2>4, <2>5
  <2> QED BY <2>6 DEF Matches
<1> QED BY <1>1, <1>2, <1>3

\* getNewFibers pops exactly what it has taken off the counter: the pushes not
\* yet counted stay in the queue.
LEMMA MatchesGet ==
    ASSUME TypeInv, NEW p \in Procs, p \notin overlapped, Matches(p), NEW base,
           GetNewFibers(p, base), Pushing(p)' = Pushing(p)
    PROVE  Matches(p)'
<1> DEFINE q == newQueue[p]
           n == newCount[p]
<1>1. q \in Seq(Ptrs) /\ n \in Nat /\ Cardinality(Pushing(p)) \in Nat
  BY PushingFinite DEF TypeInv, TypeOK, QueueTypes
<1>2. Len(q) = n + Cardinality(Pushing(p))
  BY DEF Matches
<1>3. n <= Len(q) /\ (~(n < Len(q)) => n = Len(q))
  BY <1>1, <1>2
<1>4. newCount'[p] = 0 /\ newQueue'[p] = SubSeq(q, n + 1, Len(q))
  BY <1>3 DEF GetNewFibers, TypeInv, TypeOK, QueueTypes
<1>5. Len(newQueue'[p]) = Len(q) - n
  BY <1>1, <1>3, <1>4
<1>6. Len(newQueue'[p]) = 0 + Cardinality(Pushing(p))
  BY <1>1, <1>2, <1>5
<1>7. Cardinality(Pushing(p)') = Cardinality(Pushing(p))
  OBVIOUS
<1> QED BY <1>4, <1>6, <1>7 DEF Matches

\* The steps other than the store and the count have nobody enter or leave Pushing.
LEMMA PushingStep ==
    ASSUME TypeInv, Next, NEW p \in Procs,
           \A t \in Threads : ~PushStore(t) /\ ~Count(t)
    PROVE  Pushing(p)' = Pushing(p)
<1> USE ThreadFacts
    DEF TypeInv, TypeOK, PcTypes, CallTypes, Goto, Leave, Pushing, callVars
<1>1. CASE \E t \in Threads : AddStep(t)
  <2> PICK t \in Threads : AddStep(t)
    BY <1>1
  <2>1. CASE TryOwn(t) \/ Scan(t) \/ Rotate(t) \/ CheckStopped(t)
    BY <2>1 DEF TryOwn, Scan, Rotate, CheckStopped, AfterAdd, Home
  <2>2. CASE PushTest(t) \/ PushWrite(t) \/ Peek(t) \/ Flag(t)
    BY <2>2 DEF PushTest, PushWrite, Peek, Flag, AfterAdd, Home
  <2>3. CASE Notify(t)
    BY <2>3 DEF Notify, NotifyProcesser, AfterAdd, Home
  <2> QED BY <2>1, <2>2, <2>3 DEF AddStep
<1>2. CASE \E q \in Procs : ProcStep(q) \/ SpuriousWake(q)
  BY <1>2
  DEF ProcStep, SpuriousWake, Start, Loop, Refill, Dispatch, SwitchOut, IdleLock,
      IdleTest, IdleReset, IdleState, IdleCheck, IdleWait
<1>3. CASE \E q \in Procs : BodyStep(q)
  BY <1>3
  DEF BodyStep, CreateFromTask, Create, Arm, Reschedule, PassOn, Finish, Yield,
      Running
<1>4. CASE (\E f \in Tasks : MainCreate(f)) \/ MainStop
  BY <1>4 DEF MainCreate, Create, MainStop
<1>5. CASE StopSet \/ Join \/ JoinPoller
  BY <1>5 DEF StopSet, Join, JoinPoller
<1>6. CASE StopNotify
  <2>1. CASE tgt[Main] < N
    BY <1>6, <2>1 DEF StopNotify, NotifyProcesser
  <2>2. CASE ~(tgt[Main] < N)
    BY <1>6, <2>2 DEF StopNotify, NotifyProcesser
  <2> QED BY <2>1, <2>2
<1>7. CASE PollStep
  BY <1>7 DEF PollStep, PollExit, Deliver, Create
<1>8. CASE Ended
  BY <1>8 DEF Ended, vars
<1> QED BY <1>1, <1>2, <1>3, <1>4, <1>5, <1>6, <1>7, <1>8 DEF Next, StopStep

\* Only getNewFibers takes from the queue or the counter of a processer.
LEMMA QueueStep ==
    ASSUME TypeInv, Next, NEW p \in Procs,
           \A t \in Threads : ~PushTest(t) /\ ~PushWrite(t)
                            /\ ~PushStore(t) /\ ~Count(t),
           \A base \in Seq(Ptrs) : ~GetNewFibers(p, base)
    PROVE  newQueue'[p] = newQueue[p] /\ newCount'[p] = newCount[p]
<1> USE ThreadFacts
    DEF TypeInv, TypeOK, QueueTypes, LocalTypes, queueVars
<1>1. CASE \E t \in Threads : AddStep(t)
  BY <1>1
  DEF AddStep, TryOwn, Scan, Rotate, CheckStopped, Peek, Flag, Notify
<1>2. CASE \E q \in Procs : ProcStep(q) \/ SpuriousWake(q)
  <2> PICK q \in Procs : ProcStep(q) \/ SpuriousWake(q)
    BY <1>2
  <2>1. CASE Refill(q)
    <3>1. q # p
      BY <2>1 DEF Refill
    <3> QED BY <2>1, <3>1 DEF Refill, GetNewFibers
  <2>2. CASE SwitchOut(q)
    <3>1. Append(runable[q], cur[q]) \in Seq(Ptrs)
      OBVIOUS
    <3>2. CASE q = p
      BY <2>2, <3>1, <3>2 DEF SwitchOut, PutBack
    <3>3. CASE q # p
      BY <2>2, <3>3 DEF SwitchOut, PutBack, GetNewFibers
    <3> QED BY <3>2, <3>3
  <2>3. CASE ~Refill(q) /\ ~SwitchOut(q)
    BY <2>3
    DEF ProcStep, SpuriousWake, Start, Loop, Dispatch, IdleLock, IdleTest,
        IdleReset, IdleState, IdleCheck, IdleWait
  <2> QED BY <2>1, <2>2, <2>3
<1>3. CASE \E q \in Procs : BodyStep(q)
  BY <1>3
  DEF BodyStep, CreateFromTask, Arm, Reschedule, PassOn, Finish, Yield
<1>4. CASE (\E f \in Tasks : MainCreate(f)) \/ MainStop \/ StopStep
  BY <1>4
  DEF MainCreate, MainStop, StopStep, StopSet, StopNotify, Join, JoinPoller
<1>5. CASE PollStep
  BY <1>5 DEF PollStep, PollExit, Deliver
<1>6. CASE Ended
  BY <1>6 DEF Ended, vars
<1> QED BY <1>1, <1>2, <1>3, <1>4, <1>5, <1>6 DEF Next

\* As long as no two pushes into the same newQueue overlap (processer.cc:70),
\* m_newfiberCount never promises a fiber that is not in it, and misses only those
\* whose adder is between its push and its fetch_add.
THEOREM CountAlwaysMatches == Spec => []CountMatches
<1>0. CountMatches <=> \A p \in Procs : Matches(p)
  BY DEF CountMatches, Matches
<1>1. Init => CountMatches
  <2> SUFFICES ASSUME Init, NEW p \in Procs PROVE Matches(p)
    BY <1>0
  <2>1. Pushing(p) = {}
    BY DEF Init, Pushing
  <2> QED BY <2>1, FS_EmptySet DEF Init, Matches
<1>2. TypeInv /\ CountMatches /\ [Next]_vars => CountMatches'
  <2> SUFFICES ASSUME TypeInv, CountMatches, [Next]_vars, NEW p \in Procs
               PROVE  Matches(p)'
    BY DEF CountMatches, Matches
  <2>1. Matches(p)
    BY <1>0
  <2>2. CASE \E t \in Threads : PushTest(t) \/ PushWrite(t)
    BY <2>1, <2>2, MatchesWrite
  <2>3. CASE Next /\ p \in overlapped
    BY <2>3, OverlapStays DEF Matches
  <2>4. CASE p \notin overlapped /\ \E t \in Threads : PushStore(t) \/ Count(t)
    BY <2>1, <2>4, MatchesPush
  <2>5. CASE /\ Next /\ p \notin overlapped
             /\ \A t \in Threads : ~PushTest(t) /\ ~PushWrite(t)
                                   /\ ~PushStore(t) /\ ~Count(t)
    <3>1. Pushing(p)' = Pushing(p)
      BY <2>5, PushingStep
    <3>2. CASE \E base \in Seq(Ptrs) : GetNewFibers(p, base)
      BY <2>1, <2>5, <3>1, <3>2, MatchesGet
    <3>3. CASE \A base \in Seq(Ptrs) : ~GetNewFibers(p, base)
      BY <2>1, <2>5, <3>1, <3>3, QueueStep DEF Matches
    <3> QED BY <3>2, <3>3
  <2>6. CASE UNCHANGED vars
    BY <2>1, <2>6 DEF Matches, Pushing, vars, queueVars, callVars
  <2> QED BY <2>2, <2>3, <2>4, <2>5, <2>6
<1> QED BY <1>1, <1>2, InitTypes, StepTypes, PTL DEF Spec
=============================================================================
