----------------------------- MODULE HookIOProofs -----------------------------
(***************************************************************************)
(* Proofs about HookIO, for any descriptors, fibers and calls.             *)
(***************************************************************************)
EXTENDS HookIO, EventPollerProofs

-----------------------------------------------------------------------------
(* The inductive invariant *)

\* A fiber in a call has a timer_info; its flag is clear or has its own tag.
CallsOwn ==
    \A b \in Fibers : /\ pc[b] # "out" => tag[b] # 0
                      /\ cancelled[b] # 0 => pc[b] # "out" /\ cancelled[b] = tag[b]

\* A task still in the timer is the one its fiber set in the present wait.
TasksOwn ==
    \A r \in timers :
        r.st = "set" => pc[r.fiber] \in {"add", "wait"} /\ r = Task(r.fiber)

\* A registered callback is that of a call of addEvent that was made.
CallsMade == \A x \in Registered : cb[x[1]][x[2]] \in Calls \ todo

\* A fiber that waits has either its registration or one launched callback.
WaitOf(b) ==
    \/ pc[b] # "wait" /\ tickets[b] = 0 /\ Registrations(b) = {}
    \/ pc[b] = "wait" /\ tickets[b] = 1 /\ Registrations(b) = {}
    \/ pc[b] = "wait" /\ tickets[b] = 0 /\ \E x \in Registered : Registrations(b) = {x}
OneWakeUp == ~stray => \A b \in Fibers : WaitOf(b)

\* A descriptor is closed by one fiber at a time, open until then, and has lost its
\* context when the system call is made.
ClosesOnce ==
    \A b \in Fibers : pc[b] \in ClosePCs =>
        /\ call[b].fd \in open
        /\ pc[b] = "close" => call[b].fd \notin managed
        /\ \A d \in Fibers : pc[d] \in ClosePCs /\ call[d].fd = call[b].fd => d = b

HookInv == HookTypeOK /\ ClosesOnce /\ CallsOwn /\ TasksOwn /\ CallsMade /\ OneWakeUp

-----------------------------------------------------------------------------
(* Types *)

\* The callbacks launched in a step that will add fiber b.
Launched(b) == {c \in Calls : waiter[c] = b /\ ends'[c] # ends[c]}

\* They are among those of the triggered events, so there are at most two.
LEMMA LaunchedOf ==
    ASSUME TypeOK, NEW f \in Fds, NEW S \in SUBSET Events, Trigger(f, S), NEW b
    PROVE  /\ Launched(b) \subseteq {cb[f][e] : e \in S}
           /\ IsFiniteSet(Launched(b))
<1>1. ASSUME NEW c \in Launched(b) PROVE \E e \in S : cb[f][e] = c
    <2>1. /\ c \in Calls /\ ends[c] \in Nat /\ ends'[c] # ends[c]
          /\ ends'[c] = ends[c] + Cardinality({e \in S : cb[f][e] = c})
        BY DEF Launched, Trigger, TypeOK
    <2>2. ASSUME {e \in S : cb[f][e] = c} = {} PROVE FALSE
        <3>1. Cardinality({e \in S : cb[f][e] = c}) = 0
            BY <2>2, FS_EmptySet
        <3> QED BY <2>1, <3>1
    <2> QED BY <2>2
<1>2. Launched(b) \subseteq {cb[f][e] : e \in S}
    BY <1>1
<1>3. IsFiniteSet({cb[f][e] : e \in S})
    <2>1. {cb[f][e] : e \in S} \subseteq {cb[f]["READ"]} \cup {cb[f]["WRITE"]}
        BY DEF Events
    <2>2. IsFiniteSet({cb[f]["READ"]}) /\ IsFiniteSet({cb[f]["WRITE"]})
        BY FS_Singleton
    <2>3. IsFiniteSet({cb[f]["READ"]} \cup {cb[f]["WRITE"]})
        BY <2>2, FS_Union
    <2> QED BY <2>1, <2>3, FS_Subset
<1> QED BY <1>2, <1>3, FS_Subset

\* A step of the poller launches a finite number of callbacks.
LEMMA LaunchType ==
    ASSUME HookTypeOK, Launch,
           \/ ends' = ends
           \/ \E f \in Fds : \E S \in SUBSET Events : Trigger(f, S)
    PROVE  tickets' \in [Fibers -> Nat]
<1>1. ASSUME NEW b \in Fibers PROVE Cardinality(Launched(b)) \in Nat
    <2>1. CASE ends' = ends
        <3>1. Launched(b) = {}
            BY <2>1 DEF Launched
        <3> QED BY <3>1, FS_EmptySet
    <2>2. CASE \E f \in Fds : \E S \in SUBSET Events : Trigger(f, S)
        BY <2>2, LaunchedOf, FS_CardinalityType DEF HookTypeOK
    <2> QED BY <2>1, <2>2
<1>2. tickets' = [b \in Fibers |-> tickets[b] + Cardinality(Launched(b))]
    BY DEF Launch, Launched
<1> QED BY <1>1, <1>2 DEF HookTypeOK

\* What the poller's operations, called by fibers, callbacks and its own thread, do.
LEMMA PollerTypes ==
    ASSUME HookTypeOK
    PROVE  /\ Wait => TypeOK'
           /\ \A f \in Fds : \A e \in Events : \A c \in Calls : AddEvent(f, e, c) => TypeOK'
           /\ \A f \in Fds : /\ Process(f) \/ CancelAll(f) => TypeOK'
                             /\ \A e \in Events : CancelEvent(f, e) => TypeOK'
                             /\ \A k \in Events \cup {Hup} : Becomes(f, k) => TypeOK'
           /\ UNCHANGED vars => TypeOK'
BY TypeStep DEF HookTypeOK, Next, PollStep, Call, Environment

\* An operation waits for READ or WRITE.
LEMMA EventType == \A b : Event(b) \in Events
BY DEF Event, Events

\* The task of a fiber inside a call is that of a real call.
LEMMA TaskType ==
    ASSUME HookTypeOK, CallsOwn, NEW b \in Fibers, pc[b] # "out"
    PROVE  Task(b) \in Timers
<1>1. tag[b] \in 1..MaxCalls
    BY HookAssumption DEF HookTypeOK, CallsOwn
<1>2. call[b].fd \in Fds
    BY DEF HookTypeOK
<1> QED BY <1>1, <1>2, EventType DEF Task, Timers

\* A return from a call keeps the callers' types.
LEMMA ReturnType ==
    ASSUME HookTypeOK, NEW b \in Fibers, Return(b)
    PROVE  /\ pc' \in [Fibers -> {"out", "try", "add", "wait"} \cup ClosePCs]
           /\ call' \in [Fibers -> [fd : Fds, op : OpNames, timed : BOOLEAN]]
           /\ cancelled' \in [Fibers -> 0..MaxCalls]
<1>1. NoCallYet \in [fd : Fds, op : OpNames, timed : BOOLEAN]
    BY HookAssumption DEF NoCallYet, OpNames
<1>2. 0 \in 0..MaxCalls
    BY HookAssumption
<1> HIDE DEF NoCallYet
<1> QED BY <1>1, <1>2 DEF HookTypeOK, Return

\* A step inside a call keeps the callers' types.
LEMMA GotoType ==
    ASSUME HookTypeOK, NEW b \in Fibers, NEW l, Goto(b, l),
           l \in {"out", "try", "add", "wait"} \cup ClosePCs
    PROVE  /\ pc' \in [Fibers -> {"out", "try", "add", "wait"} \cup ClosePCs]
           /\ call' \in [Fibers -> [fd : Fds, op : OpNames, timed : BOOLEAN]]
           /\ cancelled' \in [Fibers -> 0..MaxCalls]
BY DEF HookTypeOK, Goto

\* In every step of the program.
LEMMA HookTypeStep ==
    HookTypeOK /\ ClosesOnce /\ CallsOwn /\ [HookNext]_allVars => HookTypeOK'
<1> SUFFICES ASSUME HookTypeOK, ClosesOnce, CallsOwn, [HookNext]_allVars PROVE HookTypeOK'
    OBVIOUS
<1> USE DEF hookVars, fiberVars
<1>1. UNCHANGED vars => TypeOK'
    BY PollerTypes
<1>2. ASSUME NEW b \in Fibers, NEW f \in Fds, Enter(b, f) \/ CloseCall(b, f)
      PROVE  HookTypeOK'
    <2>1. PICK op \in OpNames, timed \in BOOLEAN, l \in {"try", "cancelAll"} :
              NewCall(b, f, op, timed, l)
        <3>1. "close" \in OpNames /\ OpNames \ {"close"} \subseteq OpNames
            BY DEF OpNames
        <3> QED BY <1>2, <3>1 DEF Enter, CloseCall
    <2>2. pc' \in [Fibers -> {"out", "try", "add", "wait"} \cup ClosePCs]
        BY <2>1 DEF NewCall, HookTypeOK, ClosePCs
    <2>3. call' \in [Fibers -> [fd : Fds, op : OpNames, timed : BOOLEAN]]
        BY <2>1 DEF NewCall, HookTypeOK
    <2>4. tag' \in [Fibers -> 0..MaxCalls]
        <3>1. tag[b] + 1 \in 0..MaxCalls
            BY <2>1, HookAssumption DEF NewCall, HookTypeOK
        <3> QED BY <2>1, <3>1 DEF NewCall, HookTypeOK
    <2> QED BY <1>1, <2>1, <2>2, <2>3, <2>4 DEF NewCall, HookTypeOK
<1>3. ASSUME NEW b \in Fibers, TryDone(b) PROVE HookTypeOK'
    <2>1. call[b].fd \in Fds
        BY DEF HookTypeOK
    <2>2. cond' \in [Fds -> SUBSET (Events \cup {Hup})]
        BY <1>3, <2>1 DEF TryDone, HookTypeOK, TypeOK
    <2>3. TypeOK'
        BY <1>3, <2>2 DEF TryDone, HookTypeOK, TypeOK, contexts, epoll
    <2> QED BY <1>3, <2>3, ReturnType DEF TryDone, HookTypeOK
<1>4. ASSUME NEW b \in Fibers, TryAgain(b) PROVE HookTypeOK'
    <2>1. Task(b) \in Timers
        BY <1>4, TaskType DEF TryAgain
    <2>2. timers' \in SUBSET Timers
        BY <1>4, <2>1 DEF TryAgain, HookTypeOK
    <2> QED BY <1>1, <1>4, <2>2, GotoType DEF TryAgain, HookTypeOK
<1>5. ASSUME NEW b \in Fibers, Add(b) PROVE HookTypeOK'
    <2> DEFINE f == call[b].fd
    <2>1. f \in Fds /\ NextCall \in Calls
        BY <1>5 DEF Add, NextCall, HookTypeOK, TypeOK
    <2>2. CASE AddOk(f)
        <3>1. /\ AddEvent(f, Event(b), NextCall) /\ Goto(b, "wait")
              /\ waiter' = [waiter EXCEPT ![NextCall] = b]
              /\ raced' = (raced \/ Closing(f, {"del", "close"}))
              /\ UNCHANGED <<timers, open, managed, tag, tickets>>
            BY <1>5, <2>2 DEF Add
        <3>2. TypeOK'
            BY <2>1, <3>1, PollerTypes, EventType
        <3>3. waiter' \in [Calls -> Fibers]
            BY <2>1, <3>1 DEF HookTypeOK
        <3>4. raced' \in BOOLEAN
            BY <3>1
        <3> QED BY <3>1, <3>2, <3>3, <3>4, GotoType DEF HookTypeOK
    <2>3. CASE ~AddOk(f)
        <3>1. /\ timers' = timers \ {Task(b)} /\ Return(b)
              /\ UNCHANGED <<vars, waiter, raced, open, managed, tag, tickets>>
            BY <1>5, <2>3 DEF Add, CancelTimer
        <3> QED BY <1>1, <3>1, ReturnType DEF HookTypeOK
    <2> QED BY <2>2, <2>3
<1>6. ASSUME NEW b \in Fibers, Resume(b) PROVE HookTypeOK'
    <2>1. tickets' \in [Fibers -> Nat]
        BY <1>6 DEF Resume, HookTypeOK
    <2>2. Return(b) \/ Goto(b, "try")
        BY <1>6 DEF Resume
    <2> QED BY <1>1, <1>6, <2>1, <2>2, ReturnType, GotoType
           DEF Resume, CancelTimer, HookTypeOK
<1>7. ASSUME NEW r \in timers, Expire(r) \/ TimerTest(r) PROVE HookTypeOK'
    <2>1. \A st \in {"launched", "cancelling"} : [r EXCEPT !.st = st] \in Timers
        BY DEF HookTypeOK, Timers
    <2>2. timers' \in SUBSET Timers
        BY <1>7, <2>1 DEF Expire, TimerTest, Turn, HookTypeOK
    <2>3. cancelled' \in [Fibers -> 0..MaxCalls]
        <3>1. r.tag \in 0..MaxCalls
            BY HookAssumption DEF HookTypeOK, Timers
        <3> QED BY <1>7, <3>1 DEF Expire, TimerTest, HookTypeOK
    <2> QED BY <1>1, <1>7, <2>2, <2>3 DEF Expire, TimerTest, HookTypeOK
<1>8. ASSUME NEW r \in timers, TimerCancel(r) PROVE HookTypeOK'
    <2>1. r.fd \in Fds /\ r.ev \in Events
        BY DEF HookTypeOK, Timers
    <2>2. CancelEvent(r.fd, r.ev) \/ UNCHANGED vars
        BY <1>8 DEF TimerCancel
    <2>3. TypeOK'
        BY <2>1, <2>2, PollerTypes
    <2>4. ends' = ends \/ \E g \in Fds : \E S \in SUBSET Events : Trigger(g, S)
        BY <2>1, <2>2 DEF CancelEvent, vars
    <2>5. tickets' \in [Fibers -> Nat]
        BY <1>8, <2>4, LaunchType DEF TimerCancel
    <2> QED BY <1>8, <2>3, <2>5 DEF TimerCancel, HookTypeOK
<1>9. ASSUME NEW b \in Fibers, CloseCancel(b) PROVE HookTypeOK'
    <2> DEFINE f == call[b].fd
    <2>1. f \in Fds
        BY DEF HookTypeOK
    <2>2. CancelAll(f) \/ UNCHANGED vars
        BY <1>9 DEF CloseCancel, CancelWaits
    <2>3. TypeOK'
        BY <2>1, <2>2, PollerTypes
    <2>4. ends' = ends \/ \E g \in Fds : \E S \in SUBSET Events : Trigger(g, S)
        BY <2>1, <2>2 DEF CancelAll, vars, HookTypeOK, TypeOK
    <2>5. tickets' \in [Fibers -> Nat]
        BY <1>9, <2>4, LaunchType DEF CloseCancel
    <2>6. Goto(b, "del") /\ "del" \in ClosePCs
        BY <1>9 DEF CloseCancel, ClosePCs
    <2> QED BY <1>9, <2>3, <2>5, <2>6, GotoType DEF CloseCancel, HookTypeOK
<1>10. ASSUME NEW b \in Fibers, CloseDel(b) PROVE HookTypeOK'
    <2>1. Goto(b, "close") /\ "close" \in ClosePCs
        BY <1>10 DEF CloseDel, ClosePCs
    <2> QED BY <1>1, <1>10, <2>1, GotoType DEF CloseDel, Del, HookTypeOK
<1>11. ASSUME NEW b \in Fibers, CloseF(b) PROVE HookTypeOK'
    <2> DEFINE f == call[b].fd
    <2>1. f \in Fds /\ CtlDel(f) /\ cond' = [cond EXCEPT ![f] = {}]
        BY <1>11 DEF CloseF, HookTypeOK
    <2>2. TypeOK'
        BY <1>11, <2>1 DEF CloseF, CtlDel, HookTypeOK, TypeOK, contexts
    <2>3. managed' \in SUBSET open'
        BY <1>11 DEF CloseF, HookTypeOK, ClosesOnce, ClosePCs
    <2> QED BY <1>11, <2>2, <2>3, ReturnType DEF CloseF, HookTypeOK
<1>12. ASSUME NEW f \in Fds, Open(f) PROVE HookTypeOK'
    BY <1>1, <1>12 DEF Open, HookTypeOK
<1>13. ASSUME NEW f \in Fds, NEW k \in Events \cup {Hup}, Arrive(f, k)
       PROVE  HookTypeOK'
    <2>1. TypeOK'
        BY <1>13, PollerTypes DEF Arrive
    <2> QED BY <1>13, <2>1 DEF Arrive, HookTypeOK
<1>14. CASE Poll
    <2>1. Wait \/ \E f \in Fds : Process(f)
        BY <1>14 DEF Poll
    <2>2. TypeOK'
        BY <2>1, PollerTypes
    <2>3. ends' = ends \/ \E g \in Fds : \E S \in SUBSET Events : Trigger(g, S)
        <3>1. \A f \in Fds : RealEvents(batch[f]) \in SUBSET Events
            BY DEF RealEvents
        <3> QED BY <2>1, <3>1 DEF Wait, Process
    <2>4. tickets' \in [Fibers -> Nat]
        BY <1>14, <2>3, LaunchType DEF Poll
    <2> QED BY <1>14, <2>2, <2>4 DEF Poll, HookTypeOK
<1>15. CASE UNCHANGED allVars
    BY <1>1, <1>15 DEF allVars, HookTypeOK
<1> QED BY <1>2, <1>3, <1>4, <1>5, <1>6, <1>7, <1>8, <1>9, <1>10, <1>11, <1>12, <1>13,
           <1>14, <1>15 DEF HookNext, Run, CloseStep, TimerStep

-----------------------------------------------------------------------------
(* Closers and timers *)

\* A call to close holds its descriptor until it returns.
LEMMA ClosesStep == HookTypeOK /\ ClosesOnce /\ [HookNext]_allVars => ClosesOnce'
<1> SUFFICES ASSUME HookTypeOK, ClosesOnce, [HookNext]_allVars PROVE ClosesOnce'
    OBVIOUS
<1> USE DEF hookVars, fiberVars
<1>1. ASSUME UNCHANGED <<pc, call, open, managed>> PROVE ClosesOnce'
    BY <1>1 DEF ClosesOnce
<1>2. ASSUME NEW b \in Fibers, NEW f \in Fds, Enter(b, f) PROVE ClosesOnce'
    BY <1>2 DEF Enter, NewCall, ClosesOnce, ClosePCs, HookTypeOK
<1>3. ASSUME NEW b \in Fibers, NEW f \in Fds, CloseCall(b, f) PROVE ClosesOnce'
    BY <1>3 DEF CloseCall, NewCall, Closing, ClosesOnce, ClosePCs, HookTypeOK
\* A fiber that is not closing goes on, or returns.
<1>4. ASSUME NEW b \in Fibers, pc[b] \notin ClosePCs, UNCHANGED <<open, managed>>,
             \/ Return(b) \/ Goto(b, "add") \/ Goto(b, "try") \/ Goto(b, "wait")
      PROVE  ClosesOnce'
    BY <1>4 DEF Return, Goto, ClosesOnce, ClosePCs, HookTypeOK
<1>5. ASSUME NEW b \in Fibers, Run(b) PROVE ClosesOnce'
    <2>1. pc[b] \notin ClosePCs /\ UNCHANGED <<open, managed>>
        BY <1>5 DEF Run, TryDone, TryAgain, Add, Resume, ClosePCs
    <2>2. \/ Return(b) \/ Goto(b, "add") \/ Goto(b, "try") \/ Goto(b, "wait")
        BY <1>5 DEF Run, TryDone, TryAgain, Add, Resume
    <2> QED BY <1>4, <2>1, <2>2
<1>6. ASSUME NEW b \in Fibers, CloseCancel(b) PROVE ClosesOnce'
    BY <1>6 DEF CloseCancel, Goto, ClosesOnce, ClosePCs, HookTypeOK
<1>7. ASSUME NEW b \in Fibers, CloseDel(b) PROVE ClosesOnce'
    BY <1>7 DEF CloseDel, Del, Goto, ClosesOnce, ClosePCs, HookTypeOK
<1>8. ASSUME NEW b \in Fibers, CloseF(b) PROVE ClosesOnce'
    BY <1>8 DEF CloseF, Return, ClosesOnce, ClosePCs, HookTypeOK
<1>9. ASSUME NEW f \in Fds, Open(f) PROVE ClosesOnce'
    BY <1>9 DEF Open, ClosesOnce, HookTypeOK
<1>10. ASSUME NEW r \in timers, Expire(r) \/ TimerTest(r) \/ TimerCancel(r)
       PROVE  ClosesOnce'
    BY <1>1, <1>10 DEF Expire, TimerTest, TimerCancel
<1>11. ASSUME NEW f \in Fds, NEW k, Arrive(f, k) PROVE ClosesOnce'
    BY <1>1, <1>11 DEF Arrive
<1>12. CASE Poll
    BY <1>1, <1>12 DEF Poll
<1>13. CASE UNCHANGED allVars
    BY <1>1, <1>13 DEF allVars
<1> QED BY <1>2, <1>3, <1>5, <1>6, <1>7, <1>8, <1>9, <1>10, <1>11, <1>12, <1>13
       DEF HookNext, CloseStep, TimerStep

\* A flag is set for the call its fiber is in, and cleared when it returns.
LEMMA CallsStep == HookTypeOK /\ CallsOwn /\ [HookNext]_allVars => CallsOwn'
<1> SUFFICES ASSUME HookTypeOK, CallsOwn, [HookNext]_allVars PROVE CallsOwn'
    OBVIOUS
<1> USE DEF hookVars, fiberVars
<1>1. ASSUME UNCHANGED fiberVars PROVE CallsOwn'
    BY <1>1 DEF CallsOwn
<1>2. ASSUME NEW b \in Fibers, Return(b), UNCHANGED tag PROVE CallsOwn'
    BY <1>2 DEF Return, CallsOwn, HookTypeOK
<1>3. ASSUME NEW b \in Fibers, NEW l, Goto(b, l), UNCHANGED tag, pc[b] # "out",
             l # "out"
      PROVE  CallsOwn'
    BY <1>3 DEF Goto, CallsOwn, HookTypeOK
<1>4. ASSUME NEW b \in Fibers, NEW f \in Fds, Enter(b, f) \/ CloseCall(b, f)
      PROVE  CallsOwn'
    <2>1. /\ pc[b] = "out" /\ \E l \in {"try", "cancelAll"} : pc' = [pc EXCEPT ![b] = l]
          /\ tag' = [tag EXCEPT ![b] = tag[b] + 1] /\ cancelled' = cancelled
        BY <1>4 DEF Enter, CloseCall, NewCall
    <2>2. cancelled[b] = 0 /\ tag[b] + 1 # 0
        BY <2>1, HookAssumption DEF CallsOwn, HookTypeOK
    <2> QED BY <2>1, <2>2 DEF CallsOwn, HookTypeOK
<1>5. ASSUME NEW b \in Fibers, Run(b) \/ CloseStep(b) PROVE CallsOwn'
    <2>1. pc[b] # "out" /\ UNCHANGED tag
        BY <1>5 DEF Run, TryDone, TryAgain, Add, Resume, CloseStep, CloseCancel,
                    CloseDel, CloseF
    <2>2. Return(b) \/ \E l : l # "out" /\ Goto(b, l)
        BY <1>5 DEF Run, TryDone, TryAgain, Add, Resume, CloseStep, CloseCancel,
                    CloseDel, CloseF
    <2> QED BY <1>2, <1>3, <2>1, <2>2
<1>6. ASSUME NEW r \in timers, TimerTest(r) PROVE CallsOwn'
    <2>1. r.fiber \in Fibers
        BY DEF HookTypeOK, Timers
    <2> QED BY <1>1, <1>6, <2>1 DEF TimerTest, Alive, CallsOwn, HookTypeOK
<1>7. ASSUME NEW r \in timers, Expire(r) \/ TimerCancel(r) PROVE CallsOwn'
    BY <1>1, <1>7 DEF Expire, TimerCancel
<1>8. ASSUME NEW f \in Fds, NEW k, Open(f) \/ Arrive(f, k) PROVE CallsOwn'
    BY <1>1, <1>8 DEF Open, Arrive
<1>9. CASE Poll
    BY <1>1, <1>9 DEF Poll
<1>10. CASE UNCHANGED allVars
    BY <1>1, <1>10 DEF allVars
<1> QED BY <1>4, <1>5, <1>6, <1>7, <1>8, <1>9, <1>10 DEF HookNext, TimerStep

\* A call sets one task, in its present wait, and takes it back when the wait ends.
LEMMA TasksStep == HookTypeOK /\ TasksOwn /\ [HookNext]_allVars => TasksOwn'
<1> SUFFICES ASSUME HookTypeOK, TasksOwn, [HookNext]_allVars PROVE TasksOwn'
    OBVIOUS
<1> USE DEF hookVars, fiberVars
\* A fiber that is not in a wait has no task; the others' tasks stay theirs.
<1>1. \A r \in timers : r.fiber \in Fibers
    BY DEF HookTypeOK, Timers
<1>2. ASSUME UNCHANGED <<pc, call, tag>>, \A r \in timers' : r.st = "set" => r \in timers
      PROVE  TasksOwn'
    BY <1>2 DEF TasksOwn, Task, Event
<1>3. ASSUME NEW b \in Fibers, NEW v, NEW w, NEW x, timers' \subseteq timers,
             pc' = [pc EXCEPT ![b] = v] /\ call' = [call EXCEPT ![b] = w],
             tag' = [tag EXCEPT ![b] = x],
             \A r \in timers' : r.st = "set" => r.fiber # b
      PROVE  TasksOwn'
    <2> SUFFICES ASSUME NEW r \in timers', r.st = "set"
                 PROVE  pc'[r.fiber] \in {"add", "wait"} /\ r = Task(r.fiber)'
        BY DEF TasksOwn
    <2>1. r \in timers /\ r.fiber \in Fibers /\ r.fiber # b
        BY <1>1, <1>3
    <2>2. pc'[r.fiber] = pc[r.fiber] /\ Task(r.fiber)' = Task(r.fiber)
        BY <1>3, <2>1 DEF HookTypeOK, Task, Event
    <2> QED BY <2>1, <2>2 DEF TasksOwn
<1>4. ASSUME NEW b \in Fibers, NEW l, Return(b) \/ Goto(b, l), UNCHANGED tag,
             timers' \subseteq timers, \A r \in timers' : r.st = "set" => r.fiber # b
      PROVE  TasksOwn'
    <2>1. \E w : call' = [call EXCEPT ![b] = w]
        <3>1. call = [call EXCEPT ![b] = call[b]]
            BY DEF HookTypeOK
        <3> QED BY <1>4, <3>1 DEF Return, Goto
    <2>2. \E v : pc' = [pc EXCEPT ![b] = v]
        BY <1>4 DEF Return, Goto
    <2>3. tag' = [tag EXCEPT ![b] = tag[b]]
        BY <1>4 DEF HookTypeOK
    <2> QED BY <1>3, <1>4, <2>1, <2>2, <2>3
<1>5. ASSUME NEW b \in Fibers, pc[b] \notin {"add", "wait"}
      PROVE  \A r \in timers : r.st = "set" => r.fiber # b
    BY <1>5 DEF TasksOwn
<1>6. ASSUME NEW b \in Fibers, CancelTimer(b)
      PROVE  timers' \subseteq timers /\ \A r \in timers' : r.st = "set" => r.fiber # b
    BY <1>6 DEF CancelTimer, TasksOwn
<1>7. ASSUME NEW b \in Fibers, NEW f \in Fds, Enter(b, f) \/ CloseCall(b, f)
      PROVE  TasksOwn'
    <2>1. /\ pc[b] = "out" /\ \E v : pc' = [pc EXCEPT ![b] = v]
          /\ \E w : call' = [call EXCEPT ![b] = w]
          /\ tag' = [tag EXCEPT ![b] = tag[b] + 1] /\ timers' = timers
        BY <1>7 DEF Enter, CloseCall, NewCall
    <2> QED BY <1>3, <1>5, <2>1
<1>8. ASSUME NEW b \in Fibers, TryDone(b) PROVE TasksOwn'
    BY <1>4, <1>5, <1>8 DEF TryDone
<1>9. ASSUME NEW b \in Fibers, TryAgain(b) PROVE TasksOwn'
    <2> SUFFICES ASSUME NEW r \in timers', r.st = "set"
                 PROVE  pc'[r.fiber] \in {"add", "wait"} /\ r = Task(r.fiber)'
        BY DEF TasksOwn
    <2>1. pc[b] = "try" /\ Goto(b, "add") /\ UNCHANGED tag /\ timers' \subseteq timers \cup {Task(b)}
        BY <1>9 DEF TryAgain
    <2>2. \A d : Task(d)' = Task(d)
        BY <2>1 DEF Goto, Task, Event
    <2>3. CASE r = Task(b)
        <3>1. r.fiber = b
            BY <2>3 DEF Task
        <3> QED BY <2>1, <2>2, <2>3, <3>1 DEF Goto, HookTypeOK
    <2>4. CASE r # Task(b)
        <3>1. r \in timers /\ r.fiber \in Fibers /\ r.fiber # b
            BY <1>1, <1>5, <2>1, <2>4
        <3> QED BY <2>1, <2>2, <3>1 DEF Goto, TasksOwn, HookTypeOK
    <2> QED BY <2>3, <2>4
<1>10. ASSUME NEW b \in Fibers, Add(b) PROVE TasksOwn'
    <2>1. CASE AddOk(call[b].fd)
        <3>1. /\ pc[b] = "add" /\ Goto(b, "wait") /\ UNCHANGED <<timers, tag>>
            BY <1>10, <2>1 DEF Add
        <3>2. \A d : Task(d)' = Task(d)
            BY <3>1 DEF Goto, Task, Event
        <3> QED BY <3>1, <3>2 DEF Goto, TasksOwn, HookTypeOK
    <2>2. CASE ~AddOk(call[b].fd)
        <3>1. CancelTimer(b) /\ Return(b) /\ UNCHANGED tag
            BY <1>10, <2>2 DEF Add
        <3> QED BY <1>4, <1>6, <3>1
    <2> QED BY <2>1, <2>2
<1>11. ASSUME NEW b \in Fibers, Resume(b) PROVE TasksOwn'
    <2>1. CancelTimer(b) /\ (Return(b) \/ Goto(b, "try")) /\ UNCHANGED tag
        BY <1>11 DEF Resume
    <2> QED BY <1>4, <1>6, <2>1
<1>12. ASSUME NEW b \in Fibers, CloseStep(b) PROVE TasksOwn'
    <2>1. /\ pc[b] \notin {"add", "wait"} /\ UNCHANGED <<tag, timers>>
          /\ Return(b) \/ \E l : Goto(b, l)
        BY <1>12 DEF CloseStep, CloseCancel, CloseDel, CloseF
    <2> QED BY <1>4, <1>5, <2>1
<1>13. ASSUME NEW r \in timers, NEW st \in {"launched", "cancelling"}, Turn(r, st),
              UNCHANGED <<pc, call, tag>>
       PROVE  TasksOwn'
    <2>1. [r EXCEPT !.st = st].st = st
        BY DEF HookTypeOK, Timers
    <2> QED BY <1>2, <1>13, <2>1 DEF Turn
<1>14. ASSUME NEW r \in timers, Expire(r) \/ TimerTest(r) \/ TimerCancel(r)
       PROVE  TasksOwn'
    <2>1. UNCHANGED <<pc, call, tag>>
        BY <1>14 DEF Expire, TimerTest, TimerCancel
    <2>2. Turn(r, "launched") \/ Turn(r, "cancelling") \/ timers' = timers \ {r}
        BY <1>14 DEF Expire, TimerTest, TimerCancel
    <2> QED BY <1>2, <1>13, <2>1, <2>2
<1>15. ASSUME NEW f \in Fds, NEW k, Open(f) \/ Arrive(f, k) PROVE TasksOwn'
    BY <1>2, <1>15 DEF Open, Arrive
<1>16. CASE Poll
    BY <1>2, <1>16 DEF Poll
<1>17. CASE UNCHANGED allVars
    BY <1>2, <1>17 DEF allVars
<1> QED BY <1>7, <1>8, <1>9, <1>10, <1>11, <1>12, <1>14, <1>15, <1>16, <1>17
       DEF HookNext, Run, TimerStep

-----------------------------------------------------------------------------
(* Registrations and wake-ups *)

\* addEvent registers the callback of a call that is then made.
LEMMA AddedCall ==
    ASSUME HookTypeOK, NEW b \in Fibers, Add(b), AddOk(call[b].fd)
    PROVE  /\ Event(b) \in Events /\ call[b].fd \in Fds /\ NextCall \in todo
           /\ todo' = todo \ {NextCall} /\ ends' = ends
           /\ events' = [events EXCEPT ![call[b].fd] = @ \cup {Event(b)}]
           /\ cb' = [cb EXCEPT ![call[b].fd][Event(b)] = NextCall]
           /\ waiter' = [waiter EXCEPT ![NextCall] = b]
           /\ ~stray' => ~stray /\ Event(b) \notin events[call[b].fd]
           /\ Goto(b, "wait") /\ pc[b] = "add" /\ tickets' = tickets
<1> DEFINE f == call[b].fd
<1>1. f \in Fds /\ Event(b) \in Events /\ NextCall \in todo
    BY EventType DEF HookTypeOK, Add, NextCall
<1>2. /\ AddEvent(f, Event(b), NextCall) /\ waiter' = [waiter EXCEPT ![NextCall] = b]
      /\ Goto(b, "wait") /\ pc[b] = "add" /\ tickets' = tickets
    BY DEF Add
<1>3. ~IF events[f] = {} THEN AddFails(f) ELSE ModFails(f)
    BY DEF AddOk
<1> QED BY <1>1, <1>2, <1>3 DEF AddEvent

\* Everybody else leaves the callbacks alone, or triggers some.
LEMMA OtherMoves ==
    ASSUME HookTypeOK, [HookNext]_allVars
    PROVE  \/ \E b \in Fibers : Add(b) /\ AddOk(call[b].fd)
           \/ UNCHANGED <<events, cb, todo, ends, waiter>> /\ (stray' = stray)
           \/ /\ \E f \in Fds : \E S \in SUBSET Events : Trigger(f, S)
              /\ UNCHANGED <<todo, waiter>> /\ Launch
              /\ \A b \in Fibers : pc'[b] = "wait" <=> pc[b] = "wait"
<1> DEFINE Same == UNCHANGED <<events, cb, todo, ends, waiter>> /\ (stray' = stray)
<1> DEFINE Triggers ==
        /\ \E f \in Fds : \E S \in SUBSET Events : Trigger(f, S)
        /\ UNCHANGED <<todo, waiter>> /\ Launch
        /\ \A b \in Fibers : pc'[b] = "wait" <=> pc[b] = "wait"
<1> USE DEF hookVars, fiberVars, contexts, epoll
<1>1. ASSUME UNCHANGED <<vars, waiter>> PROVE Same
    BY <1>1 DEF vars
<1>2. ASSUME NEW b \in Fibers, NEW f \in Fds, Enter(b, f) \/ CloseCall(b, f)
      PROVE  Same
    BY <1>1, <1>2 DEF Enter, CloseCall, NewCall
<1>3. ASSUME NEW b \in Fibers, TryDone(b) \/ TryAgain(b) \/ Resume(b)
      PROVE  Same
    BY <1>3 DEF TryDone, TryAgain, Resume, vars
<1>4. ASSUME NEW b \in Fibers, Add(b), ~AddOk(call[b].fd) PROVE Same
    BY <1>1, <1>4 DEF Add
<1>5. ASSUME NEW b \in Fibers, CloseCancel(b) PROVE Same \/ Triggers
    <2>1. waiter' = waiter /\ Launch /\ pc[b] = "cancelAll" /\ pc' = [pc EXCEPT ![b] = "del"]
        BY <1>5 DEF CloseCancel, Goto
    <2>2. CASE UNCHANGED vars
        BY <1>1, <2>1, <2>2
    <2>3. CASE CancelAll(call[b].fd)
        <3>1. call[b].fd \in Fds /\ events[call[b].fd] \in SUBSET Events
            BY DEF HookTypeOK, TypeOK
        <3> QED BY <2>1, <2>3, <3>1 DEF CancelAll, HookTypeOK
    <2> QED BY <1>5, <2>2, <2>3 DEF CloseCancel, CancelWaits
<1>6. ASSUME NEW b \in Fibers, CloseDel(b) \/ CloseF(b) PROVE Same
    BY <1>6 DEF CloseDel, CloseF, vars
<1>7. ASSUME NEW r \in timers, Expire(r) \/ TimerTest(r) PROVE Same
    BY <1>1, <1>7 DEF Expire, TimerTest
<1>8. ASSUME NEW r \in timers, TimerCancel(r) PROVE Same \/ Triggers
    <2>1. UNCHANGED <<waiter, pc>> /\ Launch
        BY <1>8 DEF TimerCancel
    <2>2. CASE UNCHANGED vars
        BY <1>1, <2>1, <2>2
    <2>3. CASE CancelEvent(r.fd, r.ev)
        <3>1. r.fd \in Fds /\ {r.ev} \in SUBSET Events
            BY DEF HookTypeOK, Timers
        <3> QED BY <2>1, <2>3, <3>1 DEF CancelEvent
    <2> QED BY <1>8, <2>2, <2>3 DEF TimerCancel
<1>9. ASSUME Poll PROVE Same \/ Triggers
    <2>1. UNCHANGED <<waiter, pc>> /\ Launch
        BY <1>9 DEF Poll
    <2>2. CASE Wait
        BY <2>1, <2>2 DEF Wait
    <2>3. ASSUME NEW f \in Fds, Process(f) PROVE Same \/ Triggers
        <3>1. RealEvents(batch[f]) \in SUBSET Events
            BY DEF RealEvents
        <3>2. todo' = todo /\ (UNCHANGED <<contexts, epoll, ends, stray>>
                               \/ Trigger(f, RealEvents(batch[f])))
            BY <2>3 DEF Process
        <3> QED BY <2>1, <3>1, <3>2
    <2> QED BY <1>9, <2>2, <2>3 DEF Poll
<1>10. ASSUME NEW f \in Fds, NEW k, Open(f) \/ Arrive(f, k) PROVE Same
    BY <1>10 DEF Open, Arrive, Becomes, vars
<1>11. ASSUME UNCHANGED allVars PROVE Same
    BY <1>1, <1>11 DEF allVars
<1> HIDE DEF Same, Triggers
<1>12. ASSUME NEW b \in Fibers, Run(b)
       PROVE  (\E d \in Fibers : Add(d) /\ AddOk(call[d].fd)) \/ Same
    BY <1>3, <1>4, <1>12 DEF Run
<1>13. ASSUME NEW b \in Fibers, CloseStep(b) PROVE Same \/ Triggers
    BY <1>5, <1>6, <1>13 DEF CloseStep
<1>14. ASSUME TimerStep PROVE Same \/ Triggers
    BY <1>7, <1>8, <1>14 DEF TimerStep
<1>15. (\E d \in Fibers : Add(d) /\ AddOk(call[d].fd)) \/ Same \/ Triggers
    BY <1>2, <1>9, <1>10, <1>11, <1>12, <1>13, <1>14 DEF HookNext
<1> QED BY <1>15 DEF Same, Triggers

\* Tasks, flags and registrations stay those of calls that were made.
LEMMA CallsMadeStep ==
    HookTypeOK /\ CallsMade /\ [HookNext]_allVars => CallsMade'
<1> SUFFICES ASSUME HookTypeOK, CallsMade, [HookNext]_allVars,
                    NEW x \in Registered'
             PROVE  cb'[x[1]][x[2]] \in Calls \ todo'
    BY DEF CallsMade
<1>1. ASSUME NEW b \in Fibers, Add(b), AddOk(call[b].fd)
      PROVE  cb'[x[1]][x[2]] \in Calls \ todo'
    <2>1. \/ x = <<call[b].fd, Event(b)>> /\ cb'[x[1]][x[2]] = NextCall
          \/ x \in Registered /\ cb'[x[1]][x[2]] = cb[x[1]][x[2]]
        <3>1. PICK f \in Fds, e \in Events : f = call[b].fd /\ e = Event(b)
            BY <1>1, AddedCall
        <3>2. /\ events' = [events EXCEPT ![f] = @ \cup {e}]
              /\ cb' = [cb EXCEPT ![f][e] = NextCall]
            BY <1>1, <3>1, AddedCall
        <3>3. /\ events \in [Fds -> SUBSET Events]
              /\ cb \in [Fds -> [Events -> Calls \cup {NoCall}]]
            BY DEF HookTypeOK, TypeOK
        <3>4. x \in Fds \X Events /\ x[2] \in events'[x[1]]
            BY DEF Registered
        <3> QED BY <3>1, <3>2, <3>3, <3>4 DEF Registered
    <2>2. NextCall \in Calls
        BY <1>1, AddedCall DEF HookTypeOK, TypeOK
    <2> QED BY <1>1, <2>1, <2>2, AddedCall DEF CallsMade
<1>2. CASE UNCHANGED <<events, cb, todo>>
    BY <1>2 DEF Registered, CallsMade
<1>3. ASSUME NEW f \in Fds, NEW S \in SUBSET Events, Trigger(f, S), todo' = todo
      PROVE  cb'[x[1]][x[2]] \in Calls \ todo'
    BY <1>3 DEF Trigger, Unregistered, Registered, CallsMade, HookTypeOK, TypeOK
<1> QED BY <1>1, <1>2, <1>3, OtherMoves

\* The callback of a triggered event is that of its registration, and its fiber the
\* one that is added.
LEMMA LaunchedBy ==
    ASSUME HookTypeOK, CallsMade, NEW f \in Fds, NEW S \in SUBSET events[f],
           Trigger(f, S), waiter' = waiter, NEW b \in Fibers
    PROVE  /\ Registrations(b)' = Registrations(b) \ ({f} \X S)
           /\ Launched(b) = {cb[f][e] : e \in {d \in S : <<f, d>> \in Registrations(b)}}
<1> USE CallAssumption
<1>1. /\ events' = [events EXCEPT ![f] = events[f] \ S] /\ cb' = cb
      /\ events \in [Fds -> SUBSET Events] /\ ends \in [Calls -> Nat] /\ TypeOK
      /\ S \in SUBSET Events
    BY DEF Trigger, Unregistered, HookTypeOK, TypeOK
<1>2. Registrations(b)' = Registrations(b) \ ({f} \X S)
    BY <1>1 DEF Registrations, Registered
<1>3. \A d \in S : cb[f][d] \in Calls /\ <<f, d>> \in Registered
    <2>1. \A d \in S : <<f, d>> \in Registered
        BY <1>1 DEF Registered
    <2> QED BY <2>1 DEF CallsMade
<1>4. \A d \in S : <<f, d>> \in Registrations(b) <=> waiter[cb[f][d]] = b
    BY <1>3 DEF Registrations
<1>5. ASSUME NEW c \in Launched(b)
      PROVE  \E d \in S : <<f, d>> \in Registrations(b) /\ cb[f][d] = c
    <2>1. PICK d \in S : cb[f][d] = c
        BY <1>1, LaunchedOf
    <2> QED BY <1>4, <2>1 DEF Launched
<1>6. ASSUME NEW d \in S, <<f, d>> \in Registrations(b) PROVE cb[f][d] \in Launched(b)
    <2> DEFINE c == cb[f][d]
               E == {e \in S : cb[f][e] = c}
    <2>1. c \in Calls /\ waiter[c] = b
        BY <1>3, <1>4, <1>6
    <2>2. d \in E /\ IsFiniteSet(E) /\ Cardinality(E) \in Nat
        BY <1>1, FewEvents
    <2>3. Cardinality(E) # 0
        BY <2>2, FS_EmptySet
    <2>4. ends'[c] = ends[c] + Cardinality(E) /\ ends[c] \in Nat
        BY <1>1, <2>1 DEF Trigger
    <2> HIDE DEF c, E
    <2>5. ends'[c] # ends[c]
        BY <2>2, <2>3, <2>4
    <2>6. c \in Launched(b)
        BY <2>1, <2>5 DEF Launched
    <2> QED BY <2>6 DEF c
<1>7. Launched(b) = {cb[f][e] : e \in {d \in S : <<f, d>> \in Registrations(b)}}
    BY <1>5, <1>6
<1> QED BY <1>2, <1>7

\* A registration that ends in a callback is exchanged for the wake-up it launches.
LEMMA WakesOne ==
    ASSUME HookTypeOK, CallsMade, NEW f \in Fds, NEW S \in SUBSET events[f],
           Trigger(f, S), waiter' = waiter, Launch, NEW b \in Fibers, WaitOf(b),
           pc'[b] = "wait" <=> pc[b] = "wait"
    PROVE  WaitOf(b)'
<1> DEFINE L == {d \in S : <<f, d>> \in Registrations(b)}
<1>1. /\ Registrations(b)' = Registrations(b) \ ({f} \X S)
      /\ Launched(b) = {cb[f][e] : e \in L}
    BY LaunchedBy
<1>2. tickets'[b] = tickets[b] + Cardinality(Launched(b)) /\ tickets[b] \in Nat
    BY DEF Launch, Launched, HookTypeOK
<1>3. CASE L = {}
    <2>1. tickets'[b] = tickets[b]
        <3>1. Launched(b) = {}
            BY <1>1, <1>3
        <3>2. Cardinality(Launched(b)) = 0
            BY <3>1, FS_EmptySet
        <3> QED BY <1>2, <3>2
    <2>2. Registrations(b)' = Registrations(b)
        <3>1. ASSUME NEW x \in Registrations(b), x \in {f} \X S PROVE FALSE
            <4>1. PICK d \in S : x = <<f, d>>
                BY <3>1
            <4> QED BY <1>3, <3>1, <4>1
        <3> QED BY <1>1, <3>1
    <2>3. Registrations(b)' \subseteq Registered'
        BY DEF Registrations
    <2> QED BY <2>1, <2>2, <2>3 DEF WaitOf
<1>4. CASE L # {}
    <2>1. PICK e : e \in L
        BY <1>4
    <2>2. pc[b] = "wait" /\ tickets[b] = 0 /\ Registrations(b) = {<<f, e>>}
        BY <2>1 DEF WaitOf
    <2>3. Registrations(b)' = {}
        BY <1>1, <2>1, <2>2
    <2>4. Launched(b) = {cb[f][e]}
        <3>1. L = {e}
            BY <2>1, <2>2
        <3> HIDE DEF L
        <3> QED BY <1>1, <3>1
    <2>5. tickets'[b] = 1
        <3>1. Cardinality(Launched(b)) = 1
            BY <2>4, FS_Singleton
        <3> QED BY <1>2, <2>2, <3>1
    <2> QED BY <2>2, <2>3, <2>5 DEF WaitOf
<1> QED BY <1>3, <1>4

\* While no callback is launched and none registered, a fiber goes on waiting or not
\* waiting, or a wake-up is spent.
LEMMA WaitMoves ==
    ASSUME HookTypeOK, [HookNext]_allVars, ends' = ends, NEW b \in Fibers,
           ~\E d \in Fibers : Add(d) /\ AddOk(call[d].fd)
    PROVE  \/ tickets'[b] = tickets[b] /\ (pc'[b] = "wait" <=> pc[b] = "wait")
           \/ pc[b] = "wait" /\ tickets[b] > 0 /\ tickets'[b] = tickets[b] - 1 /\ pc'[b] # "wait"
<1> DEFINE Stays == tickets'[b] = tickets[b] /\ (pc'[b] = "wait" <=> pc[b] = "wait")
           Resumes == /\ pc[b] = "wait" /\ tickets[b] > 0
                      /\ tickets'[b] = tickets[b] - 1 /\ pc'[b] # "wait"
<1> USE DEF hookVars, fiberVars
<1>1. ASSUME UNCHANGED <<pc, tickets>> PROVE Stays
    BY <1>1
<1>2. Launch => tickets'[b] = tickets[b]
    <2> SUFFICES ASSUME Launch PROVE tickets'[b] = tickets[b]
        OBVIOUS
    <2>1. tickets'[b] = tickets[b] + Cardinality(Launched(b)) /\ tickets[b] \in Nat
        BY DEF Launch, Launched, HookTypeOK
    <2>2. Launched(b) = {}
        BY DEF Launched
    <2>3. Cardinality(Launched(b)) = 0
        BY <2>2, FS_EmptySet
    <2> QED BY <2>1, <2>3
<1>3. ASSUME NEW d \in Fibers, pc[d] # "wait", tickets'[b] = tickets[b],
             Return(d) \/ \E l : l # "wait" /\ Goto(d, l)
      PROVE  Stays
    BY <1>3 DEF Return, Goto, HookTypeOK
<1>4. ASSUME NEW d \in Fibers, NEW f \in Fds, Enter(d, f) \/ CloseCall(d, f)
      PROVE  Stays
    <2>1. /\ pc[d] = "out" /\ \E l \in {"try", "cancelAll"} : pc' = [pc EXCEPT ![d] = l]
          /\ tickets' = tickets
        BY <1>4 DEF Enter, CloseCall, NewCall
    <2> QED BY <2>1 DEF HookTypeOK
<1>5. ASSUME NEW d \in Fibers, Run(d) PROVE Stays \/ Resumes
    <2>1. CASE Resume(d)
        BY <2>1 DEF Resume, Return, Goto, HookTypeOK
    <2>2. CASE ~Resume(d)
        <3>1. TryDone(d) \/ TryAgain(d) \/ (Add(d) /\ ~AddOk(call[d].fd))
            BY <1>5, <2>2 DEF Run
        <3>2. pc[d] # "wait" /\ tickets' = tickets
            BY <3>1 DEF TryDone, TryAgain, Add
        <3>3. Return(d) \/ \E l : l # "wait" /\ Goto(d, l)
            BY <3>1 DEF TryDone, TryAgain, Add
        <3> QED BY <1>3, <3>2, <3>3
    <2> QED BY <2>1, <2>2
<1>6. ASSUME NEW d \in Fibers, CloseStep(d) PROVE Stays
    <2>1. /\ pc[d] # "wait" /\ (Launch \/ tickets' = tickets)
          /\ Return(d) \/ \E l : l # "wait" /\ Goto(d, l)
        BY <1>6 DEF CloseStep, CloseCancel, CloseDel, CloseF
    <2> QED BY <1>2, <1>3, <2>1
<1>7. ASSUME TimerStep PROVE Stays
    <2>1. pc' = pc /\ (Launch \/ tickets' = tickets)
        BY <1>7 DEF TimerStep, Expire, TimerTest, TimerCancel
    <2> QED BY <1>2, <2>1
<1>8. ASSUME NEW f \in Fds, NEW k, Open(f) \/ Arrive(f, k) PROVE Stays
    BY <1>1, <1>8 DEF Open, Arrive
<1>9. ASSUME Poll PROVE Stays
    BY <1>2, <1>9 DEF Poll
<1>10. ASSUME UNCHANGED allVars PROVE Stays
    BY <1>1, <1>10 DEF allVars
<1> HIDE DEF Stays, Resumes
<1>11. Stays \/ Resumes
    BY <1>4, <1>5, <1>6, <1>7, <1>8, <1>9, <1>10 DEF HookNext
<1> QED BY <1>11 DEF Stays, Resumes

\* Every step leaves a wait with one registration, or one callback on its way.
LEMMA OneWakeUpStep ==
    HookTypeOK /\ CallsMade /\ OneWakeUp /\ [HookNext]_allVars => OneWakeUp'
<1> SUFFICES ASSUME HookTypeOK, CallsMade, OneWakeUp, [HookNext]_allVars,
                    ~stray', NEW b \in Fibers
             PROVE  WaitOf(b)'
    BY DEF OneWakeUp
<1>1. ASSUME NEW d \in Fibers, Add(d), AddOk(call[d].fd) PROVE WaitOf(b)'
    <2>1. PICK f \in Fds, e \in Events : f = call[d].fd /\ e = Event(d)
        BY <1>1, AddedCall
    <2>2. PICK c \in Calls : c = NextCall /\ c \in todo
        BY <1>1, AddedCall DEF HookTypeOK, TypeOK
    <2>3. /\ events' = [events EXCEPT ![f] = @ \cup {e}]
          /\ cb' = [cb EXCEPT ![f][e] = c]
          /\ waiter' = [waiter EXCEPT ![c] = d]
          /\ ~stray /\ e \notin events[f]
          /\ pc' = [pc EXCEPT ![d] = "wait"] /\ pc[d] = "add" /\ tickets' = tickets
        BY <1>1, <2>1, <2>2, AddedCall DEF Goto
    <2>4. /\ events \in [Fds -> SUBSET Events] /\ waiter \in [Calls -> Fibers]
          /\ cb \in [Fds -> [Events -> Calls \cup {NoCall}]]
          /\ pc \in [Fibers -> {"out", "try", "add", "wait"} \cup ClosePCs]
        BY DEF HookTypeOK, TypeOK
    <2>5. Registered' = Registered \cup {<<f, e>>} /\ <<f, e>> \notin Registered
        BY <2>3, <2>4 DEF Registered
    <2>6. ASSUME NEW x \in Registered
          PROVE  LET y == cb[x[1]][x[2]]
                 IN  y \in Calls /\ cb'[x[1]][x[2]] = y /\ waiter'[y] = waiter[y]
        <3>1. cb[x[1]][x[2]] \in Calls \ todo
            BY DEF CallsMade
        <3>2. x # <<f, e>> /\ x \in Fds \X Events
            BY <2>5 DEF Registered
        <3>3. cb'[x[1]][x[2]] = cb[x[1]][x[2]]
            BY <2>3, <2>4, <3>2
        <3> QED BY <2>2, <2>3, <2>4, <3>1, <3>3
    <2>7. cb'[f][e] = c /\ waiter'[c] = d /\ c # NoCall
        BY <2>3, <2>4, CallAssumption
    <2>8. Registrations(b)' = Registrations(b) \cup {x \in {<<f, e>>} : b = d}
        BY <2>5, <2>6, <2>7 DEF Registrations
    <2>9. WaitOf(b)
        BY <2>3 DEF OneWakeUp
    <2>10. CASE b = d
        <3>1. Registrations(b) = {} /\ tickets[b] = 0
            BY <2>3, <2>9, <2>10 DEF WaitOf
        <3>2. Registrations(b)' = {<<f, e>>} /\ <<f, e>> \in Registered'
            BY <2>5, <2>8, <2>10, <3>1
        <3> QED BY <2>3, <2>4, <2>10, <3>1, <3>2 DEF WaitOf
    <2>11. CASE b # d
        <3>1. Registrations(b)' = Registrations(b) /\ Registered \subseteq Registered'
            BY <2>5, <2>8, <2>11
        <3>2. pc'[b] = pc[b] /\ tickets'[b] = tickets[b]
            BY <2>3, <2>4, <2>11
        <3> QED BY <2>9, <3>1, <3>2 DEF WaitOf
    <2> QED BY <2>10, <2>11
<1>2. ASSUME ~\E d \in Fibers : Add(d) /\ AddOk(call[d].fd),
             UNCHANGED <<events, cb, todo, ends, waiter>>, stray' = stray
      PROVE  WaitOf(b)'
    <2>1. Registrations(b)' = Registrations(b) /\ Registered' = Registered
        BY <1>2 DEF Registrations, Registered
    <2>2. WaitOf(b)
        BY <1>2 DEF OneWakeUp
    <2>3. ends' = ends
        BY <1>2
    <2>4. \/ tickets'[b] = tickets[b] /\ (pc'[b] = "wait" <=> pc[b] = "wait")
          \/ /\ pc[b] = "wait" /\ tickets[b] > 0
             /\ tickets'[b] = tickets[b] - 1 /\ pc'[b] # "wait"
        BY <1>2, <2>3, WaitMoves
    <2> QED BY <2>1, <2>2, <2>4 DEF WaitOf
<1>3. ASSUME NEW f \in Fds, NEW S \in SUBSET Events, Trigger(f, S),
             waiter' = waiter, Launch, pc'[b] = "wait" <=> pc[b] = "wait"
      PROVE  WaitOf(b)'
    <2>1. ~stray /\ S \in SUBSET events[f]
        BY <1>3 DEF Trigger
    <2>2. WaitOf(b)
        BY <2>1 DEF OneWakeUp
    <2> QED BY <1>3, <2>1, <2>2, WakesOne
<1> QED BY <1>1, <1>2, <1>3, OtherMoves

-----------------------------------------------------------------------------
(* The theorems *)

\* The invariant holds at the start.
LEMMA HookInitial == HookInit => HookInv
<1> SUFFICES ASSUME HookInit PROVE HookInv
    OBVIOUS
<1>1. TypeOK /\ Registered = {}
    BY TypeInit DEF HookInit, Init, Registered
<1>2. HookTypeOK
    <2>1. NoCallYet \in [fd : Fds, op : OpNames, timed : BOOLEAN]
        BY HookAssumption DEF NoCallYet, OpNames
    <2>2. (CHOOSE b \in Fibers : TRUE) \in Fibers /\ 0 \in 0..MaxCalls
        BY HookAssumption
    <2> HIDE DEF NoCallYet
    <2> QED BY <1>1, <2>1, <2>2 DEF HookInit, HookTypeOK
<1>3. ClosesOnce /\ CallsOwn /\ TasksOwn
    BY DEF HookInit, ClosesOnce, ClosePCs, CallsOwn, TasksOwn
<1>4. CallsMade /\ OneWakeUp
    BY <1>1 DEF HookInit, CallsMade, OneWakeUp, WaitOf, Registrations
<1> QED BY <1>2, <1>3, <1>4 DEF HookInv

\* The invariant holds always.
LEMMA HookHolds == HookSpec => []HookInv
<1>1. HookInv /\ [HookNext]_allVars => HookInv'
    BY HookTypeStep, ClosesStep, CallsStep, TasksStep, CallsMadeStep, OneWakeUpStep
       DEF HookInv
<1> QED BY <1>1, HookInitial, PTL DEF HookSpec

\* For any descriptors, fibers, calls and events of the poller: every table, list and
\* count is well typed, and only an open descriptor has a context.
THEOREM HookTypes == HookSpec => []HookTypeOK
<1>1. HookInv => HookTypeOK
    BY DEF HookInv
<1> QED BY <1>1, HookHolds, PTL

\* A fiber that waits in do_io or connect_with_timeout is resumed once for each wait,
\* whatever the event, the timeout and a close do in whatever order, for any number of
\* fibers and descriptors (hook.cc:82-84, 96-98, 256).
THEOREM WaitEndsOnce == HookSpec => []WaitsOnce
<1>1. HookInv => WaitsOnce
    <2> SUFFICES ASSUME HookInv, ~stray, NEW b \in Fibers
                 PROVE  Cardinality(Registrations(b)) + tickets[b]
                            = IF pc[b] = "wait" THEN 1 ELSE 0
        BY DEF WaitsOnce
    <2>1. WaitOf(b)
        BY DEF HookInv, OneWakeUp
    <2>2. CASE Registrations(b) = {}
        <3>1. Cardinality(Registrations(b)) = 0
            BY <2>2, FS_EmptySet
        <3> QED BY <2>1, <2>2, <3>1 DEF WaitOf
    <2>3. CASE Registrations(b) # {}
        <3>1. PICK x \in Registered : Registrations(b) = {x}
            BY <2>1, <2>3 DEF WaitOf
        <3>2. Cardinality(Registrations(b)) = 1
            BY <3>1, FS_Singleton
        <3> QED BY <2>1, <2>3, <3>2 DEF WaitOf
    <2> QED BY <2>2, <2>3
<1> QED BY <1>1, HookHolds, PTL

\* No call leaves its task in the timer: a task that is still there belongs to the wait
\* its fiber is in (hook.cc:94, 101).  And a call fails with ETIMEDOUT only when its own
\* timeout was due, although callbacks of the timeouts of earlier calls may still be on
\* their way (hook.cc:78-83).
THEOREM TimersAreEnded == HookSpec => []TimersEnd
<1>1. HookInv => TimersEnd
    <2> SUFFICES ASSUME HookInv PROVE TimersEnd
        OBVIOUS
    <2>1. ASSUME NEW r \in timers, r.st = "set"
          PROVE  pc[r.fiber] \in {"add", "wait"} /\ r.tag = tag[r.fiber]
        <3>1. pc[r.fiber] \in {"add", "wait"} /\ r = Task(r.fiber)
            BY <2>1 DEF HookInv, TasksOwn
        <3> QED BY <3>1 DEF Task
    <2>2. \A b \in Fibers : cancelled[b] \in {0, tag[b]}
        BY DEF HookInv, CallsOwn
    <2> QED BY <2>1, <2>2 DEF TimersEnd
<1> QED BY <1>1, HookHolds, PTL
=============================================================================
