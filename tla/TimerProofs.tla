------------------------------ MODULE TimerProofs ------------------------------
(***************************************************************************)
(* Proofs about Timer, for any threads, tasks, delays and bounds.          *)
(***************************************************************************)
EXTENDS Timer, WellFoundedInduction, TLAPS

-----------------------------------------------------------------------------
(* The inductive invariant *)

\* A task that addTimerTask has put into m_tasks, now or once.
Inserted(i) == i \in known \/ \E u \in Users : upc[u] = "notify" /\ uarg[u] = i

\* A task under construction is its thread's alone.
Owned ==
    \A u \in Users :
        /\ upc[u] \in {"idle", "stopNotify"} => uarg[u] = NoTask
        /\ upc[u] = "insert" => uarg[u] \in Tasks /\ cb[uarg[u]]
        /\ uarg[u] \notin known
        /\ \A v \in Users : uarg[u] = uarg[v] /\ uarg[u] # NoTask => u = v

\* What is in the timer, about to be launched or ended was inserted.
WasInserted == \A i \in tasks \cup expired \cup ended : Inserted(i)

\* An inserted task has its callback exactly while it is in m_tasks, ...
HasCallback == \A i \in Tasks : Inserted(i) => (cb[i] <=> i \in tasks)

\* ... a one-shot task loses it before it is launched, and does not come back.
EndsOnce ==
    /\ \A i \in expired : recurring[i] \/ ~cb[i]
    /\ \A i \in ended : ~recurring[i] /\ ~cb[i] /\ i \notin expired

\* A task has an interval from its construction on.
HasDelay == \A i \in Tasks : Inserted(i) \/ (\E u \in Users : uarg[u] = i) => ms[i] \in Delays

TaskInv == Owned /\ WasInserted /\ HasCallback /\ EndsOnce /\ HasDelay

\* m_tickled is set only while a wake-up is on its way, as long as the poller sleeps.
TickledWakes == Asleep /\ tickled => WakeComes

\* Unless the clock was set back, the times the poller has read are in order.
InOrder ==
    backs = MaxBack => /\ previous <= now
                       /\ ppc \in {"peek", "expire"} => previous <= nowMs /\ nowMs <= now

TimerInv == TypeOK /\ TaskInv /\ TickledWakes /\ WakesForFirst /\ InOrder

-----------------------------------------------------------------------------
(* The order of m_tasks *)

\* A nonempty set of numbers has a smallest one, since < is well founded on them.
LEMMA SmallestNat ==
    ASSUME NEW T \in SUBSET Nat, T # {}
    PROVE  \E x \in T : \A y \in T : x <= y
<1> DEFINE R == {ss \in Nat \X Nat : ss[1] < ss[2]}
<1>1. R = OpToRel(<, Nat)
    BY DEF OpToRel
<1>2. IsWellFoundedOn(R, Nat)
    BY <1>1, NatLessThanWellFounded
<1> HIDE DEF R
<1>3. PICK x \in T : \A y \in T : ~(<<y, x>> \in R)
    BY <1>2, WFMin
<1>4. \A y \in T : ~(y < x)
    BY <1>3 DEF R
<1> QED BY <1>4

\* Some task comes first, whatever the deadlines.
LEMMA SomeFirst ==
    ASSUME NEW set \in SUBSET Tasks, set # {}, NEW nxt, \A i \in set : nxt[i] \in Nat
    PROVE  \E i \in set : First(i, nxt, set)
<1> USE TaskAssumption
<1> DEFINE D == {nxt[i] : i \in set}
<1>1. PICK d \in D : \A e \in D : d <= e
    <2>1. D \in SUBSET Nat /\ D # {}
        OBVIOUS
    <2> HIDE DEF D
    <2> QED BY <2>1, SmallestNat
<1> DEFINE E == {i \in set : nxt[i] = d}
<1>2. PICK i \in E : \A j \in E : i <= j
    <2>1. E \in SUBSET Nat /\ E # {}
        BY <1>1
    <2> HIDE DEF E
    <2> QED BY <2>1, SmallestNat
<1>3. ASSUME NEW j \in set PROVE nxt[i] < nxt[j] \/ (nxt[i] = nxt[j] /\ i <= j)
    <2>1. nxt[i] = d /\ d <= nxt[j] /\ nxt[j] \in Nat /\ d \in Nat
        BY <1>1, <1>2
    <2>2. nxt[j] = d => i <= j
        BY <1>2
    <2> QED BY <2>1, <2>2
<1> QED BY <1>2, <1>3 DEF First

-----------------------------------------------------------------------------
(* Types *)

\* A clock reading and an interval make a deadline, and deadlines are numbers.
LEMMA DeadlineType ==
    /\ \A t \in Times : \A d \in Delays : t + d \in Deadlines
    /\ Deadlines \subseteq Nat /\ 0 \in Deadlines /\ 0 \in Times /\ Times \subseteq Nat
BY DelayAssumption, TimeAssumption DEF Deadlines, Times

\* Every reading of the clock and every deadline is a number.
LEMMA Numbers ==
    ASSUME TypeOK
    PROVE  /\ now \in Nat /\ nowMs \in Nat /\ previous \in Nat /\ until \in Nat
           /\ WakesAt \in Nat /\ lag \in Nat
           /\ \A i \in Tasks : next[i] \in Nat
<1>1. now \in Times /\ nowMs \in Times /\ previous \in Times /\ until \in Nat /\ lag \in Nat
      /\ next \in [Tasks -> Deadlines]
    BY DEF TypeOK
<1>2. \A i \in Tasks : next[i] \in Nat
    BY <1>1, DeadlineType
<1>3. WakesAt \in Nat
    BY <1>1, DeadlineType DEF WakesAt
<1> QED BY <1>1, <1>2, <1>3, DeadlineType

\* The poller never sleeps longer than MAX_TIMEOUT, nor past the first deadline.
LEMMA TimeoutBounds ==
    ASSUME TypeOK
    PROVE  /\ Timeout \in 0..MaxWait
           /\ (~\E i \in tasks : Due(i)) => \A i \in tasks : now + Timeout <= next[i]
<1> USE TimeAssumption
<1>1. CASE tasks = {} \/ \E i \in tasks : Due(i)
    BY <1>1 DEF Timeout
<1>2. CASE ~(tasks = {} \/ \E i \in tasks : Due(i))
    <2> DEFINE j == CHOOSE i \in tasks : First(i, next, tasks)
    <2>1. \A i \in tasks : next[i] \in Nat /\ now \in Nat /\ next[i] > now
        <3>1. now \in Nat /\ \A i \in tasks : next[i] \in Nat
            <4>1. now \in Times /\ next \in [Tasks -> Deadlines] /\ tasks \in SUBSET Tasks
                BY DEF TypeOK
            <4> QED BY <4>1, DeadlineType
        <3> QED BY <1>2, <3>1 DEF Due
    <2>2. j \in tasks /\ First(j, next, tasks)
        <3>1. \E i \in tasks : First(i, next, tasks)
            BY <1>2, <2>1, SomeFirst DEF TypeOK
        <3> QED BY <3>1
    <2>3. Timeout = Least(next[j] - now, MaxWait)
        BY <1>2 DEF Timeout
    <2> HIDE DEF j
    <2>4. \A i \in tasks : next[j] <= next[i]
        BY <2>1, <2>2 DEF First
    <2>5. Timeout \in 0..MaxWait /\ now + Timeout <= next[j]
        BY <2>1, <2>2, <2>3 DEF Least
    <2>6. \A i \in tasks : now + Timeout <= next[i]
        <3>1. Timeout \in Nat /\ now \in Nat /\ next[j] \in Nat
            BY <2>1, <2>2, <2>5
        <3> QED BY <2>1, <2>4, <2>5, <3>1
    <2> QED BY <2>5, <2>6
<1> QED BY <1>1, <1>2

\* A task taken out is one that was in m_tasks.
LEMMA OverdueIn == \A cut : Overdue(cut) \subseteq tasks
BY DEF Overdue

\* getExecuteTask takes out nothing but tasks of m_tasks.
LEMMA PollExpireTakes ==
    ASSUME PollExpire
    PROVE  expired' \subseteq tasks
BY OverdueIn DEF PollExpire

\* A call that returns keeps the users' types.
LEMMA LeaveType ==
    ASSUME TypeOK, NEW u \in Users, Leave(u)
    PROVE  /\ upc' \in [Users -> {"idle", "insert", "notify", "stopNotify"}]
           /\ uarg' \in [Users -> Tasks \cup {NoTask}]
           /\ known' \in SUBSET Tasks
BY DEF TypeOK, Leave, UGoto

\* addTimerTask keeps the types of what it writes.
LEMMA AddType ==
    ASSUME TypeOK, NEW u \in Users, NEW i \in Tasks, AddTimerTask(u, i)
    PROVE  /\ tasks' \in SUBSET Tasks /\ tickled' \in BOOLEAN
           /\ upc' \in [Users -> {"idle", "insert", "notify", "stopNotify"}]
           /\ uarg' \in [Users -> Tasks \cup {NoTask}]
           /\ known' \in SUBSET Tasks
<1>1. tasks' \in SUBSET Tasks
    BY DEF TypeOK, AddTimerTask
<1>2. CASE First(i, next', tasks') /\ ~tickled
    BY <1>1, <1>2 DEF TypeOK, AddTimerTask, UGoto
<1>3. CASE ~(First(i, next', tasks') /\ ~tickled)
    BY <1>1, <1>3, LeaveType DEF TypeOK, AddTimerTask
<1> QED BY <1>2, <1>3

\* A step that does not change the poller's timeout and does not put it to sleep keeps
\* the timeout's bound.
LEMMA StaysBounded ==
    ASSUME TypeOK, until' = until, ppc' = "wait" => ppc = "wait" /\ now' = now,
           ppc = "wait" => ppc' = "wait"
    PROVE  until' \in Nat /\ SleepBounded'
BY DEF TypeOK, SleepBounded

\* No call of a user breaks a type.
LEMMA UserTypes ==
    ASSUME TypeOK, Owned, HasDelay, NEW u \in Users, UserCall(u) \/ UserStep(u)
    PROVE  TypeOK'
<1> USE DEF clockVars, taskVars, userVars, pollVars, history
<1>0. until' \in Nat /\ SleepBounded'
    <2>1. UNCHANGED <<until, ppc, now>>
        BY DEF UserCall, UserStep, Create, Reset, Cancel, Refresh, Stop, Insert, Notify
    <2> QED BY <2>1, StaysBounded
<1>1. ASSUME NEW i \in Tasks, NEW d \in Delays, NEW b \in BOOLEAN, Create(u, i, d, b)
      PROVE  TypeOK'
    <2>1. now + d \in Deadlines
        BY DeadlineType DEF TypeOK
    <2> QED BY <1>0, <1>1, <2>1 DEF Create, UGoto, TypeOK
<1>2. ASSUME NEW i \in Tasks, NEW d \in Delays, NEW b \in BOOLEAN, Reset(u, i, d, b)
      PROVE  TypeOK'
    <2>1. now + d \in Deadlines
        BY DeadlineType DEF TypeOK
    <2>2. next' \in [Tasks -> Deadlines] /\ ms' \in [Tasks -> Delays \cup {0}]
        BY <1>2, <2>1 DEF Reset, TypeOK
    <2>3. AddTimerTask(u, i)
        BY <1>2 DEF Reset
    <2> QED BY <1>0, <1>2, <2>2, <2>3, AddType DEF Reset, TypeOK
<1>3. ASSUME NEW i \in Tasks, Cancel(u, i) PROVE TypeOK'
    BY <1>0, <1>3 DEF Cancel, TypeOK
<1>4. ASSUME NEW i \in Tasks, Refresh(u, i) PROVE TypeOK'
    <2>1. now + ms[i] \in Deadlines
        <3>1. ms[i] \in Delays
            BY <1>4 DEF Refresh, HasDelay, Inserted
        <3> QED BY <3>1, DeadlineType DEF TypeOK
    <2>2. next' \in [Tasks -> Deadlines]
        BY <1>4, <2>1 DEF Refresh, TypeOK
    <2>3. late' \in BOOLEAN
        BY <1>4 DEF Refresh
    <2> QED BY <1>0, <1>4, <2>2, <2>3 DEF Refresh, TypeOK
<1>5. CASE Stop(u)
    BY <1>0, <1>5 DEF Stop, UGoto, TypeOK
<1>6. CASE Insert(u)
    <2>1. uarg[u] \in Tasks
        BY <1>6 DEF Insert, Owned
    <2>2. AddTimerTask(u, uarg[u])
        BY <1>6 DEF Insert
    <2> QED BY <1>0, <1>6, <2>1, <2>2, AddType DEF Insert, TypeOK
<1>7. CASE Notify(u)
    BY <1>0, <1>7, LeaveType DEF Notify, TypeOK
<1> QED BY <1>1, <1>2, <1>3, <1>4, <1>5, <1>6, <1>7 DEF UserCall, UserStep

\* No step of the poller breaks a type.
LEMMA PollTypes ==
    ASSUME TypeOK, WasInserted, HasDelay, PollStep \/ OtherEvent \/ Interrupted
    PROVE  TypeOK'
<1> USE DEF clockVars, taskVars, userVars, pollVars, history, PGoto
<1>1. CASE PollStart
    <2>1. until' \in Nat /\ SleepBounded'
        BY <1>1, StaysBounded DEF PollStart
    <2> QED BY <1>1, <2>1 DEF PollStart, TypeOK
<1>2. CASE PollNext
    <2>1. until' \in Nat /\ SleepBounded'
        <3>1. Timeout \in 0..MaxWait /\ until' = Timeout /\ ppc' # "wait"
            BY <1>2, TimeoutBounds DEF PollNext
        <3> QED BY <3>1, TimeAssumption DEF SleepBounded
    <2>2. late' \in BOOLEAN /\ tickled' \in BOOLEAN
        BY <1>2 DEF PollNext
    <2> QED BY <1>2, <2>1, <2>2 DEF PollNext, TypeOK
<1>3. CASE PollTest
    <2>1. until' \in Nat /\ SleepBounded'
        <3>1. now \in Nat /\ until \in Nat /\ until <= MaxWait
            BY <1>3, Numbers, TimeAssumption DEF PollTest, TypeOK, SleepBounded
        <3> QED BY <1>3, <3>1, TimeAssumption DEF PollTest, SleepBounded
    <2> QED BY <1>3, <2>1 DEF PollTest, TypeOK
<1>4. ASSUME NEW b \in BOOLEAN, Returns(b) PROVE TypeOK'
    <2>1. until' \in Nat /\ SleepBounded'
        BY <1>4, TimeAssumption DEF Returns, SleepBounded
    <2> QED BY <1>4, <2>1 DEF Returns, TypeOK
<1>5. CASE WaitEnds \/ OtherEvent
    <2>1. pipe \in BOOLEAN /\ Returns(pipe)
        BY <1>5 DEF WaitEnds, OtherEvent, TypeOK
    <2> QED BY <1>4, <2>1
<1>6. CASE Interrupted
    <2>1. until' \in Nat /\ SleepBounded'
        BY <1>6, TimeAssumption DEF Interrupted, SleepBounded
    <2> QED BY <1>6, <2>1, BoundAssumption DEF Interrupted, TypeOK
<1>7. CASE PollNow
    <2>1. until' \in Nat /\ SleepBounded'
        BY <1>7, StaysBounded DEF PollNow
    <2> QED BY <1>7, <2>1 DEF PollNow, TypeOK
<1>8. CASE PollPeek
    <2>1. until' \in Nat /\ SleepBounded'
        BY <1>8, StaysBounded DEF PollPeek, AfterTasks
    <2> QED BY <1>8, <2>1 DEF PollPeek, AfterTasks, TypeOK
<1>9. CASE PollExpire
    <2>7. until' \in Nat /\ SleepBounded'
        BY <1>9, StaysBounded DEF PollExpire, AfterTasks
    <2>1. expired' \in SUBSET Tasks
        BY <1>9, PollExpireTakes DEF TypeOK
    <2>2. next' \in [Tasks -> Deadlines]
        <3>1. ASSUME NEW i \in Again PROVE nowMs + ms[i] \in Deadlines
            <4>1. i \in tasks /\ i \in Tasks
                BY <1>9, PollExpireTakes DEF Again, TypeOK
            <4>2. ms[i] \in Delays
                BY <4>1 DEF WasInserted, HasDelay
            <4> QED BY <4>2, DeadlineType DEF TypeOK
        <3> QED BY <1>9, <3>1 DEF PollExpire, TypeOK
    <2>3. tasks' \in SUBSET Tasks
        BY <1>9, <2>1 DEF PollExpire, Again, TypeOK
    <2>4. cb' \in [Tasks -> BOOLEAN]
        BY <1>9 DEF PollExpire
    <2>5. previous' \in Times /\ nowMs' \in Times
        BY <1>9, DeadlineType DEF PollExpire, TypeOK
    <2>6. ppc' \in {"launch", "drain", "next"}
        BY <1>9 DEF PollExpire, AfterTasks
    <2> QED BY <1>9, <2>1, <2>2, <2>3, <2>4, <2>5, <2>6, <2>7 DEF PollExpire, TypeOK
<1>10. ASSUME NEW i \in Tasks, PollLaunch(i) PROVE TypeOK'
    <2>1. until' \in Nat /\ SleepBounded'
        BY <1>10, StaysBounded DEF PollLaunch, AfterTasks
    <2> QED BY <1>10, <2>1 DEF PollLaunch, AfterTasks, TypeOK
<1>11. CASE PollDrain
    <2>1. until' \in Nat /\ SleepBounded'
        BY <1>11, StaysBounded DEF PollDrain
    <2> QED BY <1>11, <2>1 DEF PollDrain, TypeOK
<1> QED BY <1>1, <1>2, <1>3, <1>5, <1>6, <1>7, <1>8, <1>9, <1>10, <1>11
       DEF PollStep

\* No step breaks a type.
LEMMA TypeStep ==
    TypeOK /\ TaskInv /\ [Next]_vars => TypeOK'
<1> SUFFICES ASSUME TypeOK, TaskInv, [Next]_vars PROVE TypeOK'
    OBVIOUS
<1> USE DEF clockVars, taskVars, userVars, pollVars, history
<1>1. ASSUME NEW u \in Users, UserCall(u) \/ UserStep(u) PROVE TypeOK'
    BY <1>1, UserTypes DEF TaskInv
<1>2. ASSUME PollStep \/ OtherEvent \/ Interrupted PROVE TypeOK'
    BY <1>2, PollTypes DEF TaskInv
<1>3. CASE Tick
    <2>1. until' \in Nat /\ SleepBounded' /\ lag' \in Nat /\ now' \in Times
        BY <1>3, Numbers, TimeAssumption DEF Tick, TypeOK, Times, SleepBounded
    <2> QED BY <1>3, <2>1 DEF Tick, TypeOK
<1>4. ASSUME NEW t \in Times, SetClockBack(t) PROVE TypeOK'
    <2>1. backs' \in 0..MaxBack
        BY <1>4, BoundAssumption DEF SetClockBack, TypeOK
    <2>2. until' \in Nat /\ SleepBounded'
        <3>1. /\ t \in Nat /\ now \in Nat /\ until \in Nat /\ MaxWait \in Nat
              /\ t < now /\ now' = t /\ ppc' = ppc
              /\ until <= (IF ppc = "wait" THEN now ELSE 0) + MaxWait
            BY <1>4, Numbers, DeadlineType, TimeAssumption DEF SetClockBack, TypeOK, SleepBounded
        <3>2. until' = IF ppc # "wait" THEN until
                       ELSE IF until < now THEN 0 ELSE until - (now - t)
            BY <1>4 DEF SetClockBack
        <3> QED BY <3>1, <3>2 DEF SleepBounded
    <2> QED BY <1>4, <2>1, <2>2 DEF SetClockBack, TypeOK
<1>5. CASE UNCHANGED vars
    BY <1>5 DEF vars, TypeOK, SleepBounded
<1> QED BY <1>1, <1>2, <1>3, <1>4, <1>5 DEF Next

-----------------------------------------------------------------------------
(* Tasks and their callbacks *)

\* What becomes of a thread, its task and the tasks known when it inserts task i, its
\* own or a known one.
LEMMA AddMoves ==
    ASSUME TypeOK, NEW u \in Users, NEW i \in Tasks, AddTimerTask(u, i), uarg[u] \in {i, NoTask}
    PROVE  /\ tasks' = tasks \cup {i}
           /\ \/ /\ upc' = [upc EXCEPT ![u] = "notify"]
                 /\ uarg' = uarg /\ known' = known
              \/ /\ upc' = [upc EXCEPT ![u] = "idle"]
                 /\ uarg' = [uarg EXCEPT ![u] = NoTask]
                 /\ known' = known \cup ({uarg[u]} \cap Tasks)
BY DEF AddTimerTask, Leave, UGoto

\* The steps that touch a task, its thread or what is to be launched.
Quiet == UNCHANGED <<tasks, ms, recurring, cb, upc, uarg, known, expired, ended>>
TaskStep ==
    \/ \E u \in Users : \/ \E i \in Tasks, d \in Delays, b \in BOOLEAN :
                              Create(u, i, d, b) \/ Reset(u, i, d, b)
                        \/ \E i \in Tasks : Cancel(u, i)
                        \/ Stop(u) \/ Insert(u) \/ Notify(u)
    \/ PollExpire \/ \E i \in Tasks : PollLaunch(i)

\* A step either works on tasks or leaves all of them alone.
LEMMA TaskSteps == [Next]_vars => TaskStep \/ Quiet
<1> USE DEF clockVars, taskVars, userVars, pollVars, history, Quiet
<1>1. ASSUME NEW u \in Users, UserCall(u) \/ UserStep(u) PROVE TaskStep \/ Quiet
    <2>1. ASSUME NEW i \in Tasks, Refresh(u, i) PROVE Quiet
        BY <2>1 DEF Refresh
    <2> QED BY <1>1, <2>1 DEF UserCall, UserStep, TaskStep
<1>2. ASSUME PollStep \/ OtherEvent \/ Interrupted PROVE TaskStep \/ Quiet
    <2>1. ASSUME PollStart \/ PollNext \/ PollTest \/ PollNow \/ PollPeek \/ PollDrain
                 \/ Interrupted
          PROVE  Quiet
        BY <2>1 DEF PollStart, PollNext, PollTest, PollNow, PollPeek, PollDrain, Interrupted
    <2>2. ASSUME WaitEnds \/ OtherEvent PROVE Quiet
        BY <2>2 DEF WaitEnds, OtherEvent, Returns
    <2> QED BY <1>2, <2>1, <2>2 DEF PollStep, TaskStep
<1>3. ASSUME NEW t, Tick \/ SetClockBack(t) PROVE Quiet
    BY <1>3 DEF Tick, SetClockBack
<1>4. UNCHANGED vars => Quiet
    BY DEF vars
<1> QED BY <1>1, <1>2, <1>3, <1>4 DEF Next

\* The null pointer is no task.
LEMMA NoTaskNone == NoTask \notin Tasks
BY TaskAssumption DEF NoTask

\* A task under construction stays its thread's.
LEMMA OwnedStep == TypeOK /\ TaskInv /\ [Next]_vars => Owned'
<1> SUFFICES ASSUME TypeOK, TaskInv, [Next]_vars PROVE Owned'
    OBVIOUS
<1> USE NoTaskNone DEF TaskInv, clockVars, taskVars, userVars, pollVars, history
<1>1. CASE Quiet
    BY <1>1 DEF Quiet, Owned
<1>2. ASSUME NEW u \in Users, NEW i \in Tasks, NEW d \in Delays, NEW b \in BOOLEAN,
             Create(u, i, d, b)
      PROVE  Owned'
    <2>1. /\ upc' = [upc EXCEPT ![u] = "insert"] /\ uarg' = [uarg EXCEPT ![u] = i]
          /\ known' = known /\ i \notin known /\ \A v \in Users : uarg[v] # i
          /\ cb' = [cb EXCEPT ![i] = TRUE]
        BY <1>2 DEF Create, UGoto
    <2> QED BY <2>1 DEF Owned, TypeOK
<1>3. ASSUME NEW u \in Users, NEW i \in Tasks, AddTimerTask(u, i), cb' = cb,
             upc[u] = "idle" \/ (upc[u] = "insert" /\ uarg[u] = i)
      PROVE  Owned'
    <2>1. uarg[u] \in {i, NoTask}
        BY <1>3 DEF Owned
    <2>2. \/ /\ upc' = [upc EXCEPT ![u] = "notify"]
             /\ uarg' = uarg /\ known' = known
          \/ /\ upc' = [upc EXCEPT ![u] = "idle"]
             /\ uarg' = [uarg EXCEPT ![u] = NoTask]
             /\ known' = known \cup ({uarg[u]} \cap Tasks)
        BY <1>3, <2>1, AddMoves
    <2> QED BY <1>3, <2>2 DEF Owned, TypeOK
<1>4. ASSUME NEW u \in Users, NEW i \in Tasks, NEW d \in Delays, NEW b \in BOOLEAN,
             Reset(u, i, d, b)
      PROVE  Owned'
    BY <1>3, <1>4 DEF Reset
<1>5. ASSUME NEW u \in Users, NEW i \in Tasks, Cancel(u, i) PROVE Owned'
    BY <1>5 DEF Cancel, Owned, TypeOK
<1>6. ASSUME NEW u \in Users, Stop(u) PROVE Owned'
    BY <1>6 DEF Stop, UGoto, Owned, TypeOK
<1>7. ASSUME NEW u \in Users, Insert(u) PROVE Owned'
    BY <1>3, <1>7 DEF Insert, Owned
<1>8. ASSUME NEW u \in Users, Notify(u) PROVE Owned'
    <2>1. /\ upc' = [upc EXCEPT ![u] = "idle"] /\ uarg' = [uarg EXCEPT ![u] = NoTask]
          /\ known' = known \cup ({uarg[u]} \cap Tasks) /\ cb' = cb
        BY <1>8 DEF Notify, Leave, UGoto
    <2> QED BY <2>1 DEF Owned, TypeOK
<1>9. CASE PollExpire
    <2>1. UNCHANGED userVars /\ expired' \subseteq tasks
        BY <1>9, PollExpireTakes DEF PollExpire
    <2>2. ASSUME NEW u \in Users, upc[u] = "insert" PROVE cb'[uarg[u]]
        <3>1. uarg[u] \in Tasks /\ cb[uarg[u]] /\ ~Inserted(uarg[u])
            BY <2>2 DEF Owned, Inserted
        <3>2. uarg[u] \notin Cleared
            BY <2>1, <3>1 DEF Cleared, WasInserted
        <3> QED BY <1>9, <3>1, <3>2 DEF PollExpire
    <2> QED BY <2>1, <2>2 DEF Owned
<1>10. ASSUME NEW i \in Tasks, PollLaunch(i) PROVE Owned'
    BY <1>10 DEF PollLaunch, Owned
<1> QED BY <1>1, <1>2, <1>4, <1>5, <1>6, <1>7, <1>8, <1>9, <1>10, TaskSteps
       DEF TaskStep

\* What was inserted once has been inserted.
LEMMA InsertedStays ==
    ASSUME TypeOK, TaskInv, TaskStep, NEW i \in Tasks, Inserted(i)
    PROVE  Inserted(i)'
<1> USE NoTaskNone DEF TaskInv, clockVars, taskVars, userVars, pollVars, history
<1>1. ASSUME NEW u \in Users, NEW j \in Tasks, AddTimerTask(u, j),
             upc[u] = "idle" \/ (upc[u] = "insert" /\ uarg[u] = j)
      PROVE  Inserted(i)'
    <2>1. uarg[u] \in {j, NoTask}
        BY <1>1 DEF Owned
    <2>2. /\ known \subseteq known'
          /\ \A v \in Users \ {u} : upc'[v] = upc[v] /\ uarg'[v] = uarg[v]
        BY <1>1, <2>1, AddMoves DEF TypeOK
    <2> QED BY <1>1, <2>2 DEF Inserted
<1>2. ASSUME NEW u \in Users, Notify(u) PROVE Inserted(i)'
    <2>1. /\ known' = known \cup ({uarg[u]} \cap Tasks)
          /\ \A v \in Users \ {u} : upc'[v] = upc[v] /\ uarg'[v] = uarg[v]
        BY <1>2 DEF Notify, Leave, UGoto, TypeOK
    <2> QED BY <2>1 DEF Inserted
<1>3. ASSUME NEW u \in Users, NEW j \in Tasks, NEW d \in Delays, NEW b \in BOOLEAN,
             Create(u, j, d, b)
      PROVE  Inserted(i)'
    <2>1. /\ known' = known /\ upc[u] = "idle"
          /\ \A v \in Users \ {u} : upc'[v] = upc[v] /\ uarg'[v] = uarg[v]
        BY <1>3 DEF Create, UGoto, TypeOK
    <2> QED BY <2>1 DEF Inserted
<1>4. ASSUME NEW u \in Users, Stop(u) PROVE Inserted(i)'
    <2>1. /\ known' = known /\ upc[u] = "idle"
          /\ \A v \in Users \ {u} : upc'[v] = upc[v] /\ uarg'[v] = uarg[v]
        BY <1>4 DEF Stop, UGoto, TypeOK
    <2> QED BY <2>1 DEF Inserted
<1>5. ASSUME NEW u \in Users, NEW j \in Tasks, NEW d \in Delays, NEW b \in BOOLEAN,
             Reset(u, j, d, b)
      PROVE  Inserted(i)'
    <2>1. AddTimerTask(u, j) /\ upc[u] = "idle"
        BY <1>5 DEF Reset
    <2> QED BY <1>1, <2>1
<1>6. ASSUME NEW u \in Users, Insert(u) PROVE Inserted(i)'
    <2>1. PICK j \in Tasks : j = uarg[u]
        BY <1>6 DEF Insert, Owned
    <2>2. AddTimerTask(u, j) /\ upc[u] = "insert"
        BY <1>6, <2>1 DEF Insert
    <2> QED BY <1>1, <2>1, <2>2
<1>7. CASE UNCHANGED userVars
    BY <1>7 DEF Inserted
<1>8. ASSUME NEW j, \/ \E u \in Users : Cancel(u, j)
                    \/ PollExpire \/ PollLaunch(j)
      PROVE  UNCHANGED userVars
    BY <1>8 DEF Cancel, PollExpire, PollLaunch
<1> QED BY <1>2, <1>3, <1>4, <1>5, <1>6, <1>7, <1>8 DEF TaskStep

\* And nothing is, but by addTimerTask of its thread.
LEMMA InsertedOnly ==
    ASSUME TypeOK, TaskInv, TaskStep, NEW i \in Tasks, Inserted(i)', ~Inserted(i)
    PROVE  \E u \in Users : Insert(u) /\ uarg[u] = i
<1> USE NoTaskNone DEF TaskInv, clockVars, taskVars, userVars, pollVars, history
<1>1. ASSUME NEW u \in Users, NEW j \in Tasks, AddTimerTask(u, j), upc[u] = "idle"
      PROVE  FALSE
    <2>1. uarg[u] = NoTask
        BY <1>1 DEF Owned
    <2>2. {uarg[u]} \cap Tasks = {} /\ uarg[u] \in {j, NoTask}
        BY <2>1
    <2>3. known' = known \/ known' = known \cup ({uarg[u]} \cap Tasks)
        BY <1>1, <2>2, AddMoves
    <2>4. /\ uarg'[u] = NoTask
          /\ \A v \in Users \ {u} : upc'[v] = upc[v] /\ uarg'[v] = uarg[v]
        BY <1>1, <2>1, <2>2, AddMoves DEF TypeOK
    <2> QED BY <2>2, <2>3, <2>4 DEF Inserted
<1>2. ASSUME NEW u \in Users, Notify(u) PROVE FALSE
    <2>1. /\ known' = known \cup ({uarg[u]} \cap Tasks) /\ uarg'[u] = NoTask
          /\ \A v \in Users \ {u} : upc'[v] = upc[v] /\ uarg'[v] = uarg[v]
          /\ upc[u] = "notify" \/ uarg[u] = NoTask
        BY <1>2 DEF Notify, Leave, UGoto, TypeOK, Owned
    <2> QED BY <2>1 DEF Inserted
<1>3. ASSUME NEW u \in Users, NEW j \in Tasks, NEW d \in Delays, NEW b \in BOOLEAN,
             Create(u, j, d, b)
      PROVE  FALSE
    <2>1. /\ known' = known /\ upc'[u] = "insert"
          /\ \A v \in Users \ {u} : upc'[v] = upc[v] /\ uarg'[v] = uarg[v]
        BY <1>3 DEF Create, UGoto, TypeOK
    <2> QED BY <2>1 DEF Inserted
<1>4. ASSUME NEW u \in Users, Stop(u) PROVE FALSE
    <2>1. /\ known' = known /\ upc'[u] = "stopNotify"
          /\ \A v \in Users \ {u} : upc'[v] = upc[v] /\ uarg'[v] = uarg[v]
        BY <1>4 DEF Stop, UGoto, TypeOK
    <2> QED BY <2>1 DEF Inserted
<1>5. ASSUME NEW u \in Users, NEW j \in Tasks, NEW d \in Delays, NEW b \in BOOLEAN,
             Reset(u, j, d, b)
      PROVE  FALSE
    <2>1. AddTimerTask(u, j) /\ upc[u] = "idle"
        BY <1>5 DEF Reset
    <2> QED BY <1>1, <2>1
<1>6. ASSUME NEW u \in Users, Insert(u) PROVE uarg[u] = i
    <2>1. AddTimerTask(u, uarg[u]) /\ upc[u] = "insert" /\ uarg[u] \in Tasks
        BY <1>6 DEF Insert, Owned
    <2>2. /\ known' \subseteq known \cup {uarg[u]} /\ uarg'[u] \in {uarg[u], NoTask}
          /\ \A v \in Users \ {u} : upc'[v] = upc[v] /\ uarg'[v] = uarg[v]
        BY <2>1, AddMoves DEF TypeOK
    <2> QED BY <2>2 DEF Inserted
<1>7. ASSUME UNCHANGED userVars PROVE FALSE
    BY <1>7 DEF Inserted
<1>8. ASSUME NEW j, \/ \E u \in Users : Cancel(u, j)
                    \/ PollExpire \/ PollLaunch(j)
      PROVE  UNCHANGED userVars
    BY <1>8 DEF Cancel, PollExpire, PollLaunch
<1> QED BY <1>2, <1>3, <1>4, <1>5, <1>6, <1>7, <1>8 DEF TaskStep

\* addTimerTask puts in its own task, or one that is there.
LEMMA AddedTo ==
    ASSUME TypeOK, TaskInv, NEW u \in Users
    PROVE  /\ Insert(u) => \E i \in Tasks : /\ i = uarg[u] /\ tasks' = tasks \cup {i}
                                            /\ ~Inserted(i) /\ cb[i] /\ Inserted(i)'
           /\ \A i \in Tasks, d \in Delays, b \in BOOLEAN :
                 Reset(u, i, d, b) => tasks' = tasks
<1> USE NoTaskNone DEF TaskInv
<1>1. ASSUME Insert(u)
      PROVE  \E i \in Tasks : /\ i = uarg[u] /\ tasks' = tasks \cup {i}
                              /\ ~Inserted(i) /\ cb[i] /\ Inserted(i)'
    <2>1. PICK i \in Tasks : i = uarg[u]
        BY <1>1 DEF Insert, Owned
    <2>2. AddTimerTask(u, i) /\ upc[u] = "insert"
        BY <1>1, <2>1 DEF Insert
    <2>3. cb[i] /\ ~Inserted(i)
        BY <2>1, <2>2 DEF Owned, Inserted
    <2>4. \/ /\ upc' = [upc EXCEPT ![u] = "notify"] /\ uarg' = uarg
          \/ /\ known' = known \cup ({uarg[u]} \cap Tasks)
             /\ uarg' = [uarg EXCEPT ![u] = NoTask]
        BY <2>1, <2>2, AddMoves
    <2>5. Inserted(i)'
        BY <2>1, <2>4 DEF Inserted, TypeOK
    <2>6. tasks' = tasks \cup {i}
        BY <2>1, <2>2, AddMoves
    <2> QED BY <2>1, <2>3, <2>5, <2>6
<1>2. ASSUME NEW i \in Tasks, NEW d \in Delays, NEW b \in BOOLEAN, Reset(u, i, d, b)
      PROVE  tasks' = tasks
    BY <1>2 DEF Reset, AddTimerTask
<1> QED BY <1>1, <1>2

\* What the steps of the timer do to m_tasks, the callbacks and the histories.
Enters(u, i) ==
    /\ uarg[u] = i /\ ~Inserted(i) /\ cb[i] /\ Inserted(i)' /\ Insert(u)
    /\ tasks' = tasks \cup {i}
    /\ UNCHANGED <<cb, recurring, expired, ended, ms>>
Made(u, i, d, b) ==
    /\ Create(u, i, d, b) /\ ~Inserted(i)
    /\ cb' = [cb EXCEPT ![i] = TRUE] /\ recurring' = [recurring EXCEPT ![i] = b]
    /\ ms' = [ms EXCEPT ![i] = d]
    /\ UNCHANGED <<tasks, expired, ended>>
Ends(i) == ended' = IF recurring[i] THEN ended ELSE ended \cup {i}
Cancelled(i) ==
    /\ cb[i] /\ cb' = [cb EXCEPT ![i] = FALSE] /\ tasks' = tasks \ {i} /\ Ends(i)
    /\ UNCHANGED <<recurring, expired, ms, upc, uarg, known>>
LaunchedNow(i) ==
    /\ expired' = expired \ {i} /\ Ends(i)
    /\ UNCHANGED <<tasks, cb, recurring, ms, upc, uarg, known>>
NewDelay(i, d) ==
    /\ ms' = [ms EXCEPT ![i] = d]
    /\ UNCHANGED <<tasks, cb, recurring, expired, ended>>
Stays == UNCHANGED <<tasks, cb, recurring, expired, ended, ms>>

\* What the steps that work on tasks do to the variables that say where a task is.
LEMMA TasksChange ==
    ASSUME TypeOK, TaskInv, TaskStep
    PROVE  \/ \E u \in Users : \E i \in Tasks : Enters(u, i)
           \/ \E u \in Users : \E i \in Tasks, d \in Delays, b \in BOOLEAN : Made(u, i, d, b)
           \/ \E i \in known : Cancelled(i)
           \/ PollExpire
           \/ \E i \in expired : LaunchedNow(i)
           \/ \E i \in Tasks, d \in Delays : NewDelay(i, d)
           \/ Stays
<1> USE DEF clockVars, taskVars, userVars, pollVars, history
<1>1. ASSUME NEW u \in Users, Insert(u) PROVE \E i \in Tasks : Enters(u, i)
    <2>1. PICK i \in Tasks : /\ i = uarg[u] /\ tasks' = tasks \cup {i}
                             /\ ~Inserted(i) /\ cb[i] /\ Inserted(i)'
        BY <1>1, AddedTo
    <2>2. UNCHANGED <<cb, recurring, expired, ended, ms>>
        BY <1>1 DEF Insert
    <2> QED BY <1>1, <2>1, <2>2 DEF Enters
<1>2. ASSUME NEW u \in Users, NEW i \in Tasks, NEW d \in Delays, NEW b \in BOOLEAN,
             Create(u, i, d, b)
      PROVE  Made(u, i, d, b)
    BY <1>2 DEF Create, Inserted, Made
<1>3. ASSUME NEW u \in Users, NEW i \in Tasks, Cancel(u, i)
      PROVE  i \in known /\ Cancelled(i)
    BY <1>3 DEF Cancel, Cancelled, Ends
<1>4. ASSUME NEW u \in Users, NEW i \in Tasks, NEW d \in Delays, NEW b \in BOOLEAN,
             Reset(u, i, d, b)
      PROVE  NewDelay(i, d)
    BY <1>4, AddedTo DEF Reset, NewDelay
<1>5. ASSUME NEW u \in Users, Stop(u) \/ Notify(u) PROVE Stays
    BY <1>5 DEF Stop, Notify, Stays
<1>6. ASSUME NEW i \in Tasks, PollLaunch(i) PROVE i \in expired /\ LaunchedNow(i)
    BY <1>6 DEF PollLaunch, LaunchedNow, Ends
<1> QED BY <1>1, <1>2, <1>3, <1>4, <1>5, <1>6 DEF TaskStep

\* What is in m_tasks, waits to be launched or has ended was inserted before.
LEMMA WasInsertedStep == TypeOK /\ TaskInv /\ [Next]_vars => WasInserted'
<1> SUFFICES ASSUME TypeOK, TaskInv, [Next]_vars PROVE WasInserted'
    OBVIOUS
<1>1. CASE Quiet
    BY <1>1 DEF Quiet, TaskInv, WasInserted, Inserted
<1>2. CASE TaskStep
    <2> SUFFICES ASSUME NEW i \in tasks' \cup expired' \cup ended' PROVE Inserted(i)'
        BY DEF WasInserted
    <2>1. \A j \in tasks \cup expired \cup ended : j \in Tasks /\ Inserted(j)
        BY DEF TypeOK, TaskInv, WasInserted
    <2>2. CASE i \in tasks \cup expired \cup ended
        BY <1>2, <2>1, <2>2, InsertedStays
    <2>3. CASE i \notin tasks \cup expired \cup ended
        <3>1. PollExpire => tasks' \subseteq tasks /\ expired' \subseteq tasks /\ ended' = ended
            BY PollExpireTakes DEF PollExpire, Again, history
        <3>2. \/ \E j \in Tasks : /\ tasks' = tasks \cup {j} /\ Inserted(j)'
                                  /\ expired' = expired /\ ended' = ended
              \/ \E j \in known \cup expired :
                    tasks' \subseteq tasks /\ expired' \subseteq expired /\ ended' \subseteq ended \cup {j}
              \/ /\ tasks' \subseteq tasks /\ expired' \subseteq tasks \cup expired
                 /\ ended' = ended
            BY <1>2, <3>1, TasksChange DEF Enters, Made, Cancelled, Ends, LaunchedNow,
                                           NewDelay, Stays
        <3>4. Inserted(i)' \/ i \in known
            BY <2>3, <3>2
        <3>3. known \subseteq Tasks /\ (i \in known => Inserted(i))
            BY DEF TypeOK, Inserted
        <3> QED BY <1>2, <3>3, <3>4, InsertedStays
    <2> QED BY <2>2, <2>3
<1> QED BY <1>1, <1>2, TaskSteps

\* getExecuteTask takes a one-shot task's callback as it takes it out of m_tasks.
LEMMA ExpireMoves ==
    ASSUME TypeOK, TaskInv, PollExpire
    PROVE  /\ expired' \subseteq tasks /\ UNCHANGED <<recurring, ended, ms, userVars>>
           /\ \A i \in Tasks : /\ cb'[i] <=> cb[i] /\ (i \in expired' => recurring[i])
                               /\ i \in tasks' <=> i \in tasks /\ (i \in expired' => recurring[i])
<1>1. expired' \subseteq tasks /\ UNCHANGED <<recurring, ended, ms, userVars>>
    BY PollExpireTakes DEF PollExpire, userVars, history
<1>2. ASSUME NEW i \in Tasks PROVE cb'[i] <=> cb[i] /\ (i \in expired' => recurring[i])
    <2>1. cb' = [j \in Tasks |-> cb[j] /\ j \notin Cleared]
        BY DEF PollExpire
    <2>2. cb'[i] <=> cb[i] /\ i \notin Cleared
        BY <2>1, Zenon
    <2>3. i \in Cleared <=> i \in expired' /\ ~recurring[i]
        BY DEF Cleared, Again
    <2> QED BY <2>2, <2>3
<1>3. ASSUME NEW i \in Tasks
      PROVE  i \in tasks' <=> i \in tasks /\ (i \in expired' => recurring[i])
    <2>1. tasks' = (tasks \ expired') \cup Again
        BY DEF PollExpire
    <2>2. i \in Again <=> i \in expired' /\ recurring[i]
        BY DEF Again
    <2> QED BY <1>1, <2>1, <2>2
<1> QED BY <1>1, <1>2, <1>3

\* Every step leaves an inserted task its callback exactly while it is in m_tasks.
LEMMA HasCallbackStep == TypeOK /\ TaskInv /\ [Next]_vars => HasCallback'
<1> SUFFICES ASSUME TypeOK, TaskInv, [Next]_vars PROVE HasCallback'
    OBVIOUS
<1>1. CASE Quiet
    BY <1>1 DEF Quiet, TaskInv, HasCallback, Inserted
<1>2. CASE TaskStep
    <2> SUFFICES ASSUME NEW i \in Tasks, Inserted(i)' PROVE cb'[i] <=> i \in tasks'
        BY DEF HasCallback
    <2>1. CASE ~Inserted(i)
        <3>1. PICK u \in Users : Insert(u) /\ uarg[u] = i
            BY <1>2, <2>1, InsertedOnly
        <3>2. i \in tasks' /\ cb[i] /\ cb' = cb
            BY <3>1, AddedTo DEF Insert
        <3> QED BY <3>2
    <2>2. CASE Inserted(i)
        <3>1. cb[i] <=> i \in tasks
            BY <2>2 DEF TaskInv, HasCallback
        <3>2. ASSUME NEW u \in Users, NEW j \in Tasks, Enters(u, j) PROVE cb'[i] <=> i \in tasks'
            BY <2>2, <3>1, <3>2 DEF Enters
        <3>3. ASSUME NEW u \in Users, NEW j \in Tasks, NEW d, NEW b, Made(u, j, d, b)
              PROVE  cb'[i] <=> i \in tasks'
            <4>1. j # i /\ cb' = [cb EXCEPT ![j] = TRUE] /\ tasks' = tasks
                BY <2>2, <3>3 DEF Made
            <4>2. cb'[i] = cb[i]
                BY <4>1 DEF TypeOK
            <4> QED BY <3>1, <4>1, <4>2
        <3>4. ASSUME NEW j \in known, Cancelled(j) PROVE cb'[i] <=> i \in tasks'
            <4>1. cb' = [cb EXCEPT ![j] = FALSE] /\ tasks' = tasks \ {j}
                BY <3>4 DEF Cancelled
            <4>2. i = j => ~cb'[i]
                BY <4>1 DEF TypeOK
            <4>3. i # j => cb'[i] = cb[i]
                BY <4>1 DEF TypeOK
            <4> QED BY <3>1, <4>1, <4>2, <4>3
        <3>5. CASE PollExpire
            BY <3>1, <3>5, ExpireMoves
        <3>6. ASSUME NEW j, NEW d, LaunchedNow(j) \/ NewDelay(j, d) \/ Stays
              PROVE  cb'[i] <=> i \in tasks'
            BY <3>1, <3>6 DEF LaunchedNow, NewDelay, Stays
        <3> QED BY <1>2, <3>2, <3>3, <3>4, <3>5, <3>6, TasksChange
    <2> QED BY <2>1, <2>2
<1> QED BY <1>1, <1>2, TaskSteps

\* A one-shot task that has ended has no callback and does not wait to be launched.
LEMMA EndsOnceStep == TypeOK /\ TaskInv /\ [Next]_vars => EndsOnce'
<1> SUFFICES ASSUME TypeOK, TaskInv, [Next]_vars PROVE EndsOnce'
    OBVIOUS
<1>1. CASE Quiet
    BY <1>1 DEF Quiet, TaskInv, EndsOnce
<1>2. \A i \in tasks \cup expired \cup ended : i \in Tasks /\ Inserted(i)
    BY DEF TypeOK, TaskInv, WasInserted
<1>3. EndsOnce
    BY DEF TaskInv
<1>4. CASE TaskStep
    <2>1. ASSUME NEW u \in Users, NEW j \in Tasks, NEW d, NEW b, Made(u, j, d, b)
          PROVE  EndsOnce'
        <3>1. /\ cb' = [cb EXCEPT ![j] = TRUE] /\ recurring' = [recurring EXCEPT ![j] = b]
              /\ expired' = expired /\ ended' = ended /\ j \notin expired \cup ended
            BY <1>2, <2>1 DEF Made
        <3>2. \A i \in Tasks : i # j => cb'[i] = cb[i] /\ recurring'[i] = recurring[i]
            BY <3>1 DEF TypeOK
        <3> QED BY <1>2, <1>3, <3>1, <3>2 DEF EndsOnce
    <2>2. ASSUME NEW j \in known, Cancelled(j) PROVE EndsOnce'
        <3>1. /\ cb' = [cb EXCEPT ![j] = FALSE] /\ cb[j] /\ Ends(j)
              /\ recurring' = recurring /\ expired' = expired
            BY <2>2 DEF Cancelled
        <3>2. /\ \A i \in Tasks : cb'[i] => cb[i]
              /\ j \in Tasks /\ ~cb'[j]
            BY <3>1 DEF TypeOK
        <3>3. ~recurring[j] => j \notin expired
            BY <1>3, <3>1 DEF EndsOnce
        <3> QED BY <1>2, <1>3, <3>1, <3>2, <3>3 DEF EndsOnce, Ends
    <2>3. CASE PollExpire
        <3>1. /\ expired' \subseteq tasks /\ recurring' = recurring /\ ended' = ended
              /\ \A i \in Tasks : cb'[i] <=> cb[i] /\ (i \in expired' => recurring[i])
            BY <2>3, ExpireMoves
        <3>2. \A i \in tasks : cb[i]
            BY <1>2 DEF TaskInv, HasCallback
        <3>3. \A i \in expired' : recurring[i] \/ ~cb'[i]
            BY <1>2, <3>1
        <3>4. \A i \in ended : ~recurring[i] /\ ~cb'[i] /\ i \notin expired'
            BY <1>2, <1>3, <3>1, <3>2 DEF EndsOnce
        <3> QED BY <3>1, <3>3, <3>4 DEF EndsOnce
    <2>4. ASSUME NEW j \in expired, LaunchedNow(j) PROVE EndsOnce'
        BY <1>3, <2>4 DEF EndsOnce, LaunchedNow, Ends
    <2>5. ASSUME NEW u, NEW j, NEW d, Enters(u, j) \/ NewDelay(j, d) \/ Stays
          PROVE  EndsOnce'
        BY <1>3, <2>5 DEF EndsOnce, Enters, NewDelay, Stays
    <2> QED BY <1>4, <2>1, <2>2, <2>3, <2>4, <2>5, TasksChange
<1> QED BY <1>1, <1>4, TaskSteps

\* A task that was created keeps a real interval.
LEMMA HasDelayStep == TypeOK /\ TaskInv /\ [Next]_vars => HasDelay'
<1> SUFFICES ASSUME TypeOK, TaskInv, [Next]_vars PROVE HasDelay'
    OBVIOUS
<1>1. CASE Quiet
    BY <1>1 DEF Quiet, TaskInv, HasDelay, Inserted
<1>2. CASE TaskStep
    <2> SUFFICES ASSUME NEW i \in Tasks, Inserted(i)' \/ \E v \in Users : uarg'[v] = i
                 PROVE  ms'[i] \in Delays
        BY DEF HasDelay
    <2>1. CASE Inserted(i) \/ \E v \in Users : uarg[v] = i
        <3>1. ms[i] \in Delays
            BY <2>1 DEF TaskInv, HasDelay
        <3>2. ms' = ms \/ \E j \in Tasks, d \in Delays : ms' = [ms EXCEPT ![j] = d]
            BY <1>2, TasksChange, ExpireMoves
               DEF Enters, Made, Cancelled, LaunchedNow, NewDelay, Stays
        <3> QED BY <3>1, <3>2 DEF TypeOK
    <2>2. CASE ~(Inserted(i) \/ \E v \in Users : uarg[v] = i)
        <3>1. ~Inserted(i)'
            BY <1>2, <2>2, InsertedOnly
        <3>2. PICK v \in Users : uarg'[v] = i /\ uarg[v] # i
            BY <2>2, <3>1
        <3>3. \E d \in Delays, b \in BOOLEAN : Create(v, i, d, b)
            <4> USE NoTaskNone DEF taskVars, userVars, pollVars, history
            <4> SUFFICES ASSUME ~\E e \in Delays, c \in BOOLEAN : Create(v, i, e, c) PROVE FALSE
                OBVIOUS
            <4>1. ASSUME NEW u \in Users, NEW j \in Tasks, NEW d \in Delays, NEW b \in BOOLEAN,
                         Create(u, j, d, b)
                  PROVE  FALSE
                <5>1. uarg' = [uarg EXCEPT ![u] = j]
                    BY <4>1 DEF Create
                <5>2. u = v /\ j = i
                    BY <3>2, <5>1 DEF TypeOK
                <5> QED BY <4>1, <5>2
            <4>2. ASSUME NEW u \in Users, NEW j, AddTimerTask(u, j) \/ Notify(u) \/ Stop(u) \/ Cancel(u, j)
                  PROVE  FALSE
                <5>1. uarg' = uarg \/ uarg' = [uarg EXCEPT ![u] = NoTask]
                    BY <4>2 DEF AddTimerTask, Notify, Leave, Stop, Cancel
                <5> QED BY <3>2, <5>1 DEF TypeOK
            <4>3. ASSUME NEW j, PollExpire \/ PollLaunch(j) PROVE FALSE
                BY <3>2, <4>3 DEF PollExpire, PollLaunch
            <4>4. ASSUME NEW u \in Users, NEW j \in Tasks, NEW d \in Delays, NEW b \in BOOLEAN,
                         Reset(u, j, d, b)
                  PROVE  FALSE
                BY <4>2, <4>4 DEF Reset
            <4>5. ASSUME NEW u \in Users, Insert(u) PROVE FALSE
                BY <4>2, <4>5 DEF Insert
            <4> QED BY <1>2, <4>1, <4>2, <4>3, <4>4, <4>5 DEF TaskStep
        <3> QED BY <3>3 DEF Create, TypeOK
    <2> QED BY <2>1, <2>2
<1> QED BY <1>1, <1>2, TaskSteps

-----------------------------------------------------------------------------
(* Sleeping and waking *)

\* What is reported is not taken back while the poller sleeps.
LEMMA WakeStays ==
    ASSUME TypeOK, Owned, [Next]_vars, Asleep, WakeComes, Asleep'
    PROVE  WakeComes'
<1> USE DEF clockVars, taskVars, userVars, pollVars, history
<1>1. CASE pipe
    <2>1. pipe' = TRUE \/ pipe' = pipe \/ ppc = "drain"
        <3>1. ASSUME NEW u \in Users, UserCall(u) \/ UserStep(u)
              PROVE  pipe' = TRUE \/ pipe' = pipe
            BY <3>1 DEF UserCall, UserStep, Create, Reset, Cancel, Refresh, Stop, Insert, Notify
        <3>2. ASSUME PollStep \/ OtherEvent \/ Interrupted PROVE pipe' = pipe \/ ppc = "drain"
            BY <3>2 DEF PollStep, PollStart, PollNext, PollTest, WaitEnds, OtherEvent, Returns,
                        Interrupted, PollNow, PollPeek, PollExpire, PollLaunch, PollDrain
        <3>3. ASSUME NEW t, Tick \/ SetClockBack(t) \/ UNCHANGED vars PROVE pipe' = pipe
            BY <3>3 DEF Tick, SetClockBack, vars
        <3> QED BY <3>1, <3>2, <3>3 DEF Next
    <2> QED BY <1>1, <2>1 DEF WakeComes, Asleep
<1>2. ASSUME NEW u \in Users, upc[u] = "notify" PROVE WakeComes'
    <2>1. pipe' = TRUE \/ upc'[u] = "notify"
        <3>1. ASSUME NEW v \in Users, UserCall(v)
              PROVE  pipe' = TRUE \/ upc'[u] = "notify"
            <4>1. upc[v] = "idle"
                BY <3>1 DEF UserCall, Create, Reset, Cancel, Refresh, Stop
            <4>2. upc' = upc \/ \E l : upc' = [upc EXCEPT ![v] = l]
                BY <3>1 DEF UserCall, Create, Reset, Cancel, Refresh, Stop, AddTimerTask, Leave, UGoto
            <4> QED BY <1>2, <4>1, <4>2 DEF TypeOK
        <3>2. ASSUME NEW v \in Users, UserStep(v) PROVE pipe' = TRUE \/ upc'[u] = "notify"
            <4>1. CASE Notify(v)
                BY <4>1 DEF Notify
            <4>2. CASE Insert(v)
                <5>1. upc[v] = "insert" /\ \E l : upc' = [upc EXCEPT ![v] = l]
                    BY <4>2 DEF Insert, AddTimerTask, Leave, UGoto
                <5> QED BY <1>2, <5>1 DEF TypeOK
            <4> QED BY <3>2, <4>1, <4>2 DEF UserStep
        <3>3. ASSUME PollStep \/ OtherEvent \/ Interrupted PROVE upc' = upc
            BY <3>3 DEF PollStep, PollStart, PollNext, PollTest, WaitEnds, OtherEvent, Returns,
                        Interrupted, PollNow, PollPeek, PollExpire, PollLaunch, PollDrain
        <3>4. ASSUME NEW t, Tick \/ SetClockBack(t) \/ UNCHANGED vars PROVE upc' = upc
            BY <3>4 DEF Tick, SetClockBack, vars
        <3> QED BY <1>2, <3>1, <3>2, <3>3, <3>4 DEF Next
    <2> QED BY <2>1 DEF WakeComes
<1> QED BY <1>1, <1>2 DEF WakeComes

\* The poller falls asleep with its look at the tasks, and no other step of its own
\* leaves it asleep but the test for a stop.
LEMMA FallsAsleep ==
    ASSUME TypeOK, Asleep', PollStep \/ OtherEvent \/ Interrupted
    PROVE  PollNext \/ (Asleep /\ UNCHANGED <<clockVars, taskVars, tickled, pipe, userVars, WakesAt, late, lag>>)
<1>1. CASE PollNext \/ PollTest
    BY <1>1 DEF PollNext, PollTest, Asleep, PGoto, pollVars, history, clockVars, WakesAt
<1>2. CASE ~(PollNext \/ PollTest)
    <2>1. \A b : Returns(b) => ppc' \in {"exit", "now"}
        BY DEF Returns, PGoto
    <2>2. ppc' \notin {"test", "wait"}
        BY <1>2, <2>1 DEF PollStep, PollStart, WaitEnds, OtherEvent, Interrupted, PollNow, PollPeek,
                    PollExpire, PollLaunch, PollDrain, AfterTasks, PGoto
    <2> QED BY <2>2 DEF Asleep
<1> QED BY <1>1, <1>2

\* Unless a wake-up is on its way already, a task that is inserted in front brings one.
LEMMA AddWakes ==
    ASSUME TypeOK, NEW u \in Users, NEW i \in Tasks, AddTimerTask(u, i), UNCHANGED ppc
    PROVE  \/ tickled' = tickled /\ (tickled \/ ~First(i, next', tasks'))
           \/ WakeComes'
<1>1. CASE First(i, next', tasks') /\ ~tickled
    BY <1>1 DEF AddTimerTask, UGoto, WakeComes, TypeOK
<1>2. CASE ~(First(i, next', tasks') /\ ~tickled)
    <2>1. tickled' = tickled
        BY <1>2 DEF AddTimerTask
    <2> QED BY <1>2, <2>1 DEF TypeOK
<1> QED BY <1>1, <1>2

\* Once m_tickled is raised, a byte for the sleeping poller is there or on its way.
LEMMA TickledStep == TypeOK /\ Owned /\ TickledWakes /\ [Next]_vars => TickledWakes'
<1> SUFFICES ASSUME TypeOK, Owned, TickledWakes, [Next]_vars, Asleep', tickled', ~WakeComes'
             PROVE  FALSE
    BY DEF TickledWakes
<1> USE DEF clockVars, taskVars, userVars, pollVars, history
<1>1. ~(Asleep /\ tickled)
    BY WakeStays DEF TickledWakes
<1>2. ASSUME NEW u \in Users, UserCall(u) \/ UserStep(u) PROVE FALSE
    <2>1. ppc' = ppc
        BY <1>2 DEF UserCall, UserStep, Create, Reset, Cancel, Refresh, Stop, Insert, Notify
    <2>2. CASE tickled' = tickled
        BY <1>1, <2>1, <2>2 DEF Asleep
    <2>3. CASE tickled' # tickled
        <3>1. PICK i \in Tasks : AddTimerTask(u, i)
            BY <1>2, <2>3 DEF UserCall, UserStep, Create, Reset, Cancel, Refresh, Stop, Insert,
                              Notify, Owned
        <3> QED BY <2>1, <2>3, <3>1, AddWakes
    <2> QED BY <2>2, <2>3
<1>3. ASSUME PollStep \/ OtherEvent \/ Interrupted PROVE FALSE
    BY <1>1, <1>3, FallsAsleep DEF PollNext
<1>4. ASSUME NEW t, Tick \/ SetClockBack(t) \/ UNCHANGED vars PROVE FALSE
    BY <1>1, <1>4 DEF Tick, SetClockBack, vars, Asleep
<1> QED BY <1>2, <1>3, <1>4 DEF Next

\* A task that is inserted behind another one is due no earlier than that one.
LEMMA AddSleeps ==
    ASSUME TypeOK, TypeOK', NEW u \in Users, NEW j \in Tasks, AddTimerTask(u, j),
           UNCHANGED <<ppc, now, until, lag>>, ~WakeComes', ~tickled,
           \A i \in tasks \ {j} : next'[i] = next[i],
           \A i \in tasks : SleepsUntil(i)
    PROVE  \A i \in tasks' : SleepsUntil(i)'
<1>1. tasks' = tasks \cup {j} /\ ~First(j, next', tasks')
    BY AddWakes DEF AddTimerTask
<1>2. /\ WakesAt \in Nat /\ WakesAt' = WakesAt /\ lag \in Nat /\ lag' = lag
      /\ \A i \in Tasks : next'[i] \in Nat /\ i \in Nat
    <2>1. next' \in [Tasks -> Deadlines]
        BY DEF TypeOK
    <2>2. \A i \in Tasks : next'[i] \in Nat
        BY <2>1, DeadlineType
    <2> QED BY <2>2, Numbers, TaskAssumption DEF WakesAt
<1>3. PICK k \in tasks' : ~(next'[j] < next'[k] \/ (next'[j] = next'[k] /\ j <= k))
    BY <1>1 DEF First
<1>4. k \in Tasks /\ j \in Nat /\ next'[j] \in Nat /\ next'[k] \in Nat
    BY <1>2 DEF TypeOK
<1>5. k # j /\ next'[k] <= next'[j]
    BY <1>3, <1>4
<1>6. k \in tasks /\ next'[k] = next[k] /\ WakesAt <= next[k] + lag
    BY <1>1, <1>5 DEF SleepsUntil
<1>7. WakesAt' <= next'[j] + lag'
    BY <1>2, <1>4, <1>5, <1>6
<1> QED BY <1>1, <1>2, <1>7 DEF SleepsUntil

\* The end of the sleep is a time, before a step and after it.
WakesTypes == WakesAt \in Nat /\ lag \in Nat
LEMMA WakesNow == TypeOK => WakesTypes
BY Numbers DEF WakesTypes

LEMMA WakesNext == TypeOK' => WakesTypes'
BY WakesNow, PTL

\* A bound that moves with what is bounded.
LEMMA Shift ==
    ASSUME NEW a \in Nat, NEW b \in Nat, NEW c \in Nat, NEW d \in Nat, NEW n \in Nat,
           a + d <= b + c, b <= n + d
    PROVE  a <= n + c
OBVIOUS

\* No step lets the poller sleep past a deadline nobody is about to tell it of.
LEMMA SleepStep ==
    TypeOK /\ TypeOK' /\ TaskInv /\ TickledWakes /\ WakesForFirst /\ [Next]_vars => WakesForFirst'
<1> SUFFICES ASSUME TypeOK, TypeOK', TaskInv, TickledWakes, WakesForFirst, [Next]_vars,
                    Asleep', ~late', ~WakeComes'
             PROVE  \A i \in tasks' : SleepsUntil(i)'
    BY DEF WakesForFirst
<1> USE DEF clockVars, taskVars, userVars, pollVars, history
<1>1. /\ \A i \in Tasks : next[i] \in Nat
      /\ now \in Nat /\ until \in Nat /\ WakesAt \in Nat /\ lag \in Nat
    BY Numbers
<1>2. ASSUME Asleep, ~late
      PROVE  ~tickled /\ \A i \in tasks : SleepsUntil(i)
    <2>1. ~WakeComes
        BY <1>2, WakeStays DEF TaskInv
    <2> QED BY <1>2, <2>1 DEF WakesForFirst, TickledWakes
<1>3. ASSUME Asleep, ~late, UNCHANGED <<tasks, next>>,
             WakesAt' \in Nat, lag' \in Nat, WakesAt' + lag <= WakesAt + lag'
      PROVE  \A i \in tasks' : SleepsUntil(i)'
    <2> SUFFICES ASSUME NEW i \in tasks PROVE WakesAt' <= next[i] + lag'
        BY <1>3 DEF SleepsUntil
    <2>1. WakesAt <= next[i] + lag /\ next[i] \in Nat
        BY <1>1, <1>2, <1>3 DEF SleepsUntil, TypeOK
    <2> QED BY <1>1, <1>3, <2>1, Shift
<1>8. WakesAt' \in Nat /\ lag' \in Nat
    BY WakesNext DEF WakesTypes
<1>4. ASSUME NEW u \in Users, UserCall(u) \/ UserStep(u)
      PROVE  \A i \in tasks' : SleepsUntil(i)'
    <2>1. UNCHANGED <<ppc, now, until, lag, WakesAt>> /\ Asleep
        BY <1>4 DEF UserCall, UserStep, Create, Reset, Cancel, Refresh, Stop, Insert, Notify, Asleep,
                     WakesAt
    <2>2. ~late
        BY <1>4 DEF UserCall, UserStep, Create, Reset, Cancel, Refresh, Stop, Insert, Notify
    <2>3. ~tickled /\ \A i \in tasks : SleepsUntil(i)
        BY <1>2, <2>1, <2>2
    <2>4. ASSUME NEW i \in Tasks, NEW d, NEW b, Create(u, i, d, b)
          PROVE  \A k \in tasks' : SleepsUntil(k)'
        <3>1. i \notin tasks /\ tasks' = tasks /\ next' = [next EXCEPT ![i] = now + d]
            BY <2>4 DEF Create, TaskInv, WasInserted, Inserted
        <3> QED BY <2>1, <2>3, <3>1 DEF SleepsUntil, TypeOK
    <2>5. ASSUME NEW i \in Tasks, NEW d, NEW b, Reset(u, i, d, b)
          PROVE  \A k \in tasks' : SleepsUntil(k)'
        <3>1. AddTimerTask(u, i)
            BY <2>5 DEF Reset
        <3>2. \A k \in tasks \ {i} : next'[k] = next[k]
            BY <2>5 DEF Reset, TypeOK
        <3> QED BY <2>1, <2>3, <3>1, <3>2, AddSleeps
    <2>6. ASSUME Insert(u) PROVE \A k \in tasks' : SleepsUntil(k)'
        <3>1. PICK i \in Tasks : i = uarg[u]
            BY <2>6 DEF Insert, TaskInv, Owned
        <3>2. AddTimerTask(u, i) /\ \A k \in tasks \ {i} : next'[k] = next[k]
            BY <2>6, <3>1 DEF Insert
        <3> QED BY <2>1, <2>3, <3>2, AddSleeps
    <2>7. ASSUME NEW i \in Tasks, Cancel(u, i) PROVE \A k \in tasks' : SleepsUntil(k)'
        BY <2>1, <2>3, <2>7 DEF Cancel, SleepsUntil
    <2>8. ASSUME NEW i \in Tasks, Refresh(u, i) PROVE \A k \in tasks' : SleepsUntil(k)'
        <3>1. /\ next' = [next EXCEPT ![i] = now + ms[i]] /\ tasks' = tasks /\ i \in tasks
              /\ ~(now + ms[i] < next[i])
            <4>1. late' = (late \/ now + ms[i] < next[i])
                BY <2>8 DEF Refresh
            <4>2. ~(now + ms[i] < next[i])
                BY <4>1, Zenon
            <4> QED BY <2>8, <4>2 DEF Refresh
        <3>2. ms[i] \in Nat
            <4>1. ms[i] \in Delays \cup {0}
                BY DEF TypeOK
            <4>2. Delays \cup {0} \subseteq Nat
                BY DelayAssumption
            <4> QED BY <4>1, <4>2
        <3>3. next[i] <= now + ms[i]
            BY <1>1, <3>1, <3>2
        <3>4. WakesAt <= now + ms[i] + lag
            BY <1>1, <2>3, <3>1, <3>2, <3>3 DEF SleepsUntil
        <3> QED BY <2>1, <2>3, <3>1, <3>4 DEF SleepsUntil, TypeOK
    <2>9. ASSUME Stop(u) \/ Notify(u) PROVE \A k \in tasks' : SleepsUntil(k)'
        BY <1>1, <1>3, <2>1, <2>2, <2>9 DEF Stop, Notify
    <2> QED BY <1>4, <2>4, <2>5, <2>6, <2>7, <2>8, <2>9 DEF UserCall, UserStep
<1>5. ASSUME PollStep \/ OtherEvent \/ Interrupted
      PROVE  \A i \in tasks' : SleepsUntil(i)'
    <2>1. CASE PollNext
        <3>1. WakesAt' = now + Timeout /\ lag' = 0 /\ UNCHANGED <<tasks, next>>
              /\ ~\E i \in tasks : Due(i)
            BY <2>1 DEF PollNext, PGoto, WakesAt
        <3>2. \A i \in tasks : now + Timeout <= next[i] /\ next[i] \in Nat
            BY <1>1, <3>1, TimeoutBounds DEF TypeOK
        <3> QED BY <3>1, <3>2 DEF SleepsUntil
    <2>2. CASE ~PollNext
        <3>1. Asleep /\ UNCHANGED <<tasks, next, late, WakesAt, lag>>
            BY <1>5, <2>2, FallsAsleep
        <3> QED BY <1>1, <1>3, <3>1
    <2> QED BY <2>1, <2>2
<1>6. ASSUME Tick \/ UNCHANGED vars PROVE \A i \in tasks' : SleepsUntil(i)'
    <2>1. Asleep /\ ~late /\ UNCHANGED <<tasks, next>>
        BY <1>6 DEF Tick, vars, Asleep
    <2>2. WakesAt' + lag <= WakesAt + lag'
        BY <1>1, <1>6, <2>1 DEF Tick, vars, Asleep, WakesAt
    <2> QED BY <1>3, <1>8, <2>1, <2>2
<1>7. ASSUME NEW t \in Times, SetClockBack(t) PROVE \A i \in tasks' : SleepsUntil(i)'
    <2>1. Asleep /\ ~late /\ UNCHANGED <<tasks, next>>
        BY <1>7 DEF SetClockBack, Asleep
    <2>2. WakesAt' + lag <= WakesAt + lag'
        <3>1. t \in Nat /\ t < now /\ now' = t /\ ppc' = ppc /\ lag' = lag
              /\ until' = IF ppc # "wait" THEN until
                          ELSE IF until < now THEN 0 ELSE until - (now - t)
            BY <1>7, DeadlineType DEF SetClockBack
        <3> QED BY <1>1, <3>1 DEF WakesAt
    <2> QED BY <1>3, <1>8, <2>1, <2>2
<1> QED BY <1>4, <1>5, <1>6, <1>7 DEF Next

-----------------------------------------------------------------------------
(* The clock *)

\* Every step keeps the poller's clock readings in order.
LEMMA OrderStep == TypeOK /\ InOrder /\ [Next]_vars => InOrder'
<1> SUFFICES ASSUME TypeOK, InOrder, [Next]_vars, backs' = MaxBack
             PROVE  /\ previous' <= now'
                    /\ ppc' \in {"peek", "expire"} => previous' <= nowMs' /\ nowMs' <= now'
    BY DEF InOrder
<1> DEFINE Goal == /\ previous' <= now'
                   /\ ppc' \in {"peek", "expire"} => previous' <= nowMs' /\ nowMs' <= now'
<1> USE DEF clockVars, taskVars, userVars, pollVars, history
<1>1. now \in Nat /\ nowMs \in Nat /\ previous \in Nat
    BY DeadlineType DEF TypeOK
<1>2. ASSUME UNCHANGED <<backs, now, previous, nowMs, ppc>> PROVE Goal
    BY <1>2 DEF InOrder
<1>3. ASSUME NEW u \in Users, UserCall(u) \/ UserStep(u) PROVE Goal
    BY <1>2, <1>3 DEF UserCall, UserStep, Create, Reset, Cancel, Refresh, Stop, Insert, Notify
<1>4. ASSUME PollStart \/ PollNext \/ PollTest \/ WaitEnds \/ OtherEvent \/ Interrupted
             \/ PollDrain \/ \E i \in Tasks : PollLaunch(i)
      PROVE  Goal
    <2>1. ppc' \notin {"peek", "expire"} /\ UNCHANGED <<backs, now, previous>>
        BY <1>4 DEF PollStart, PollNext, PollTest, WaitEnds, OtherEvent, Returns, Interrupted,
                    PollDrain, PollLaunch, PGoto, AfterTasks
    <2> QED BY <2>1 DEF InOrder
<1>5. CASE PollNow
    BY <1>1, <1>5 DEF PollNow, InOrder
<1>6. CASE PollPeek
    BY <1>6 DEF PollPeek, PGoto, InOrder
<1>7. CASE PollExpire
    <2>1. ppc' \notin {"peek", "expire"} /\ UNCHANGED <<backs, now>>
          /\ previous' \in {previous, nowMs} /\ ppc = "expire"
        BY <1>7 DEF PollExpire, PGoto, AfterTasks
    <2> QED BY <2>1 DEF InOrder
<1>8. CASE Tick
    BY <1>1, <1>8 DEF Tick, InOrder
<1>9. ASSUME NEW t, SetClockBack(t) PROVE FALSE
    BY <1>9, BoundAssumption DEF SetClockBack, TypeOK
<1>10. CASE UNCHANGED vars
    BY <1>2, <1>10 DEF vars
<1> QED BY <1>3, <1>4, <1>5, <1>6, <1>7, <1>8, <1>9, <1>10 DEF Next, PollStep

\* What is taken out while the clock was never set back is due.
LEMMA ExpiresDue ==
    ASSUME TypeOK, InOrder, [Next]_vars, backs = MaxBack, NEW i \in expired' \ expired
    PROVE  Due(i)
<1> USE DEF clockVars, taskVars, userVars, pollVars, history
<1>1. PollExpire
    <2>1. ASSUME NEW u \in Users, UserCall(u) \/ UserStep(u) PROVE FALSE
        BY <2>1 DEF UserCall, UserStep, Create, Reset, Cancel, Refresh, Stop, Insert, Notify
    <2>2. ASSUME PollStep \/ OtherEvent \/ Interrupted, ~PollExpire PROVE FALSE
        BY <2>2 DEF PollStep, PollStart, PollNext, PollTest, WaitEnds, OtherEvent, Returns,
                    Interrupted, PollNow, PollPeek, PollLaunch, PollDrain
    <2>3. ASSUME NEW t, Tick \/ SetClockBack(t) \/ UNCHANGED vars PROVE FALSE
        BY <2>3 DEF Tick, SetClockBack, vars
    <2> QED BY <2>1, <2>2, <2>3 DEF Next
<1>2. PICK cut \in Tasks \cup {0} : i \in Overdue(cut)
    BY <1>1 DEF PollExpire
<1>3. /\ now \in Nat /\ nowMs \in Nat /\ previous \in Nat /\ Rollover \in Nat
      /\ previous <= nowMs /\ nowMs <= now
      /\ i \in tasks => next[i] \in Nat
    <2>1. ppc = "expire"
        BY <1>1 DEF PollExpire
    <2> QED BY <2>1, DeadlineType, TimeAssumption DEF TypeOK, InOrder
<1>4. ~SetBack
    BY <1>3 DEF SetBack
<1>5. i \in tasks /\ (next[i] < now \/ next[i] = now \/ next[i] = nowMs)
    BY <1>2, <1>4 DEF Overdue
<1> QED BY <1>3, <1>5 DEF Due

-----------------------------------------------------------------------------
(* The theorems *)

\* The invariant holds at the start.
LEMMA TimerInitial == Init => TimerInv
<1> SUFFICES ASSUME Init PROVE TimerInv
    OBVIOUS
<1>1. TypeOK
    <2>1. MaxTime + MaxWait \in Nat /\ MaxBack \in 0..MaxBack /\ MaxSignals \in 0..MaxSignals
        BY TimeAssumption, BoundAssumption
    <2>2. /\ next \in [Tasks -> Deadlines] /\ ms \in [Tasks -> Delays \cup {0}]
          /\ upc \in [Users -> {"idle", "insert", "notify", "stopNotify"}]
          /\ uarg \in [Users -> Tasks \cup {NoTask}]
        BY DeadlineType DEF Init
    <2>3. until \in Nat /\ SleepBounded /\ lag \in Nat
        BY TimeAssumption DEF Init, SleepBounded
    <2> QED BY <2>1, <2>2, <2>3, DeadlineType DEF Init, TypeOK
<1>2. TaskInv
    BY NoTaskNone DEF Init, TaskInv, Owned, WasInserted, HasCallback, EndsOnce, HasDelay, Inserted
<1>3. TickledWakes /\ WakesForFirst /\ InOrder
    BY DEF Init, TickledWakes, WakesForFirst, InOrder, Asleep
<1> QED BY <1>1, <1>2, <1>3 DEF TimerInv

\* The invariant holds always.
LEMMA TimerHolds == Spec => []TimerInv
<1>1. TimerInv /\ [Next]_vars => TimerInv'
    <2> SUFFICES ASSUME TimerInv, [Next]_vars PROVE TimerInv'
        OBVIOUS
    <2>1. TypeOK /\ TaskInv /\ TickledWakes /\ WakesForFirst /\ InOrder
        BY DEF TimerInv
    <2>2. TypeOK'
        BY <2>1, TypeStep
    <2>3. TaskInv'
        BY <2>1, OwnedStep, WasInsertedStep, HasCallbackStep, EndsOnceStep, HasDelayStep
           DEF TaskInv
    <2>4. TickledWakes' /\ WakesForFirst' /\ InOrder'
        BY <2>1, <2>2, TickledStep, SleepStep, OrderStep DEF TaskInv
    <2> QED BY <2>2, <2>3, <2>4 DEF TimerInv
<1> QED BY <1>1, TimerInitial, PTL DEF Spec

\* For any threads, tasks, delays and clock: deadlines are well typed, and the poller's
\* epoll_wait is over within MAX_TIMEOUT of the present time, wherever the clock is set
\* back to (poller.cc:229-234).
THEOREM TimerTypes == Spec => []TypeOK
<1>1. TimerInv => TypeOK
    BY DEF TimerInv
<1> QED BY <1>1, TimerHolds, PTL

\* cancel() finds in m_tasks what it erases: every task a thread can cancel has its
\* callback exactly while it is there, whatever threads and the poller do (timer.cc:23-24).
THEOREM CancelAlwaysFinds == Spec => []CancelFinds
<1>1. TimerInv => CancelFinds
    BY DEF TimerInv, TypeOK, TaskInv, HasCallback, Inserted, CancelFinds
<1> QED BY <1>1, TimerHolds, PTL

\* A one-shot task is launched or cancelled once: when it was, it is neither waiting to
\* expire nor about to be launched (timer.cc:18-28 against 185-199).
THEOREM TasksRunOnce == Spec => []RunsOnce
<1>1. TimerInv => RunsOnce
    <2> SUFFICES ASSUME TimerInv, NEW i \in tasks \cup expired, ~recurring[i]
                 PROVE  i \notin ended /\ ~(i \in tasks /\ i \in expired)
        BY DEF RunsOnce
    <2>1. i \in Tasks /\ Inserted(i) /\ (cb[i] <=> i \in tasks)
        BY DEF TimerInv, TypeOK, TaskInv, WasInserted, HasCallback
    <2> QED BY <2>1 DEF TimerInv, TaskInv, EndsOnce
<1> QED BY <1>1, TimerHolds, PTL

\* m_tickled never keeps back a wake-up: asleep, the poller wakes by the deadline of every
\* task or its pipe is readable or about to be, in whatever order any number of threads
\* insert, reset and cancel tasks of whatever delays (timer.cc:110, 133).
THEOREM PollerWakes == Spec => []WakesForFirst
<1>1. TimerInv => WakesForFirst
    BY DEF TimerInv
<1> QED BY <1>1, TimerHolds, PTL

\* As long as the clock is not set back no task is taken out before its time, whatever
\* the addresses of the tasks and however long a thread waits between the readings of the
\* clock (timer.cc:169-185).
THEOREM NoneExpiresEarly == Spec => NeverEarly
<1>1. TimerInv /\ [Next]_vars => [backs = MaxBack => \A i \in expired' \ expired : Due(i)]_vars
    BY ExpiresDue DEF TimerInv
<1> QED BY <1>1, TimerHolds, PTL DEF Spec, NeverEarly
=============================================================================
