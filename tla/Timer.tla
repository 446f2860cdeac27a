--------------------------------- MODULE Timer ---------------------------------
(***************************************************************************)
(* Timer (fiber/timer.cc) and the part of Poller::networkPoller that waits *)
(* for its tasks and runs them (fiber/poller.cc): threads create, cancel,  *)
(* refresh and reset tasks while the poller's thread computes how long it  *)
(* may sleep, sleeps in epoll_wait and takes out what has expired.         *)
(*                                                                         *)
(* Time is a small number.  At MaxTime the clock stops, and sleeps end at  *)
(* once.  A critical section under m_mutex is one action; what is read     *)
(* before the lock or done after it is one of its own.                     *)
(***************************************************************************)
EXTENDS Naturals

CONSTANTS
    Users,      \* threads that use the timer
    Tasks,      \* TimerTask objects, by address
    Delays,     \* the intervals asked for
    MaxWait,    \* MAX_TIMEOUT
    Rollover,   \* how far back the clock has to go to count as set back
    MaxTime,    \* bound: where the clock stops
    MaxBack,    \* bound: how often the clock is set back
    MaxSignals, \* bound: how often a signal ends an epoll_wait
    MayStop     \* whether the owner ever stops the poller

ASSUME TaskAssumption == Tasks \subseteq Nat \ {0}
ASSUME DelayAssumption == Delays \subseteq Nat
ASSUME TimeAssumption == /\ MaxWait \in Nat \ {0} /\ Rollover \in Nat
                         /\ MaxTime \in Nat
ASSUME BoundAssumption == /\ MaxBack \in Nat /\ MaxSignals \in Nat
                          /\ MayStop \in BOOLEAN

VARIABLES
    now,        \* what GetCurrentMS returns
    backs,      \* what is left of MaxBack
    signals,    \* what is left of MaxSignals
    tasks,      \* m_tasks
    next, ms,   \* m_next and m_ms of each task
    recurring,  \* m_recurring
    cb,         \* whether m_cb is set
    tickled,    \* m_tickled
    previous,   \* m_previouseTime
    pipe,       \* whether the poller's pipe holds a byte
    state,      \* the poller's m_state
    upc,        \* where each user thread is
    uarg,       \* the task it works on
    ppc,        \* where the poller's thread is
    until,      \* its timeout; in epoll_wait, when that is over
    woken,      \* whether the pipe was among the events epoll_wait returned
    nowMs,      \* now_ms in getExecuteTask
    expired,    \* tasks whose callback the poller has yet to launch
    known,      \* tasks that createTimer has returned
    ended,      \* history: one-shot tasks cancelled with success, or launched
    late,       \* history: whether a task was due when the poller computed its
                \* timeout, or refresh has brought one forward since
    lag         \* history: the time from then to the start of its epoll_wait

clockVars == <<now, backs, signals>>
taskVars == <<tasks, next, ms, recurring, cb>>
userVars == <<upc, uarg, known>>
pollVars == <<ppc, until, woken, nowMs, expired>>
history == <<ended, late, lag>>
vars == <<clockVars, taskVars, tickled, previous, pipe, state, userVars,
          pollVars, history>>

NoTask == 0
Times == 0..MaxTime
Deadlines == {0} \cup UNION {{t + d : d \in Delays} : t \in Times}
Due(i) == next[i] <= now

\* Its epoll_wait ends within MAX_TIMEOUT, as long as the clock runs on.
SleepBounded == until <= (IF ppc = "wait" THEN now ELSE 0) + MaxWait

TypeOK ==
    /\ now \in Times /\ backs \in 0..MaxBack /\ signals \in 0..MaxSignals
    /\ tasks \in SUBSET Tasks
    /\ next \in [Tasks -> Deadlines] /\ ms \in [Tasks -> Delays \cup {0}]
    /\ recurring \in [Tasks -> BOOLEAN] /\ cb \in [Tasks -> BOOLEAN]
    /\ tickled \in BOOLEAN /\ pipe \in BOOLEAN /\ woken \in BOOLEAN
    /\ previous \in Times
    /\ state \in {"init", "running", "stop"}
    /\ upc \in [Users -> {"idle", "insert", "notify", "stopNotify"}]
    /\ uarg \in [Users -> Tasks \cup {NoTask}]
    /\ ppc \in {"start", "next", "test", "wait", "now", "peek", "expire",
                "launch", "drain", "exit"}
    /\ until \in Nat /\ SleepBounded
    /\ nowMs \in Times
    /\ expired \in SUBSET Tasks /\ known \in SUBSET Tasks
    /\ ended \in SUBSET Tasks /\ late \in BOOLEAN /\ lag \in Nat

Init ==
    /\ now = 0 /\ backs = MaxBack /\ signals = MaxSignals
    /\ tasks = {}
    /\ next = [i \in Tasks |-> 0] /\ ms = [i \in Tasks |-> 0]
    /\ recurring = [i \in Tasks |-> FALSE] /\ cb = [i \in Tasks |-> FALSE]
    /\ tickled = FALSE /\ pipe = FALSE /\ woken = FALSE
    /\ previous = 0
    /\ state = "init"
    /\ upc = [u \in Users |-> "idle"] /\ uarg = [u \in Users |-> NoTask]
    /\ ppc = "start"
    /\ until = 0 /\ nowMs = 0 /\ expired = {}
    /\ known = {} /\ ended = {} /\ late = FALSE /\ lag = 0

-----------------------------------------------------------------------------
(* The users' threads *)

UGoto(u, l) == upc' = [upc EXCEPT ![u] = l]

\* u's call returns; a task it created becomes known to its callers.
Leave(u) ==
    /\ UGoto(u, "idle")
    /\ uarg' = [uarg EXCEPT ![u] = NoTask]
    /\ known' = known \cup ({uarg[u]} \cap Tasks)

\* new TimerTask, with its deadline, before the lock is taken.
Create(u, i, d, r) ==
    /\ upc[u] = "idle"
    /\ i \notin known /\ \A v \in Users : uarg[v] # i
    /\ next' = [next EXCEPT ![i] = now + d]
    /\ ms' = [ms EXCEPT ![i] = d]
    /\ recurring' = [recurring EXCEPT ![i] = r]
    /\ cb' = [cb EXCEPT ![i] = TRUE]
    /\ uarg' = [uarg EXCEPT ![u] = i]
    /\ UGoto(u, "insert")
    /\ UNCHANGED <<clockVars, tasks, tickled, previous, pipe, state, known,
                   pollVars, history>>

\* The order of m_tasks: by deadline, then by address.
First(i, nxt, set) ==
    \A j \in set : nxt[i] < nxt[j] \/ (nxt[i] = nxt[j] /\ i <= j)

\* Mutant: the task in front is never reported.
AddUntickled(u, i) ==
    /\ tasks' = tasks \cup {i}
    /\ UNCHANGED tickled
    /\ Leave(u)

\* addTimerTask(i) by u; next' is given.  The task in front is reported to the
\* poller once until the poller looks again.
AddTimerTask(u, i) ==
    /\ tasks' = tasks \cup {i}
    /\ IF First(i, next', tasks') /\ ~tickled
       THEN /\ tickled' = TRUE
            /\ UGoto(u, "notify")
            /\ UNCHANGED <<uarg, known>>
       ELSE Leave(u) /\ UNCHANGED tickled

Insert(u) ==
    /\ upc[u] = "insert"
    /\ UNCHANGED next
    /\ AddTimerTask(u, uarg[u])
    /\ UNCHANGED <<clockVars, ms, recurring, cb, previous, pipe, state,
                   pollVars, history>>

\* onTimerInsertedAtFront: a byte for the poller.
Notify(u) ==
    /\ upc[u] \in {"notify", "stopNotify"}
    /\ pipe' = TRUE
    /\ Leave(u)
    /\ UNCHANGED <<clockVars, taskVars, tickled, previous, state, pollVars,
                   history>>

Cancel(u, i) ==
    /\ upc[u] = "idle" /\ i \in known
    /\ cb[i]
    /\ cb' = [cb EXCEPT ![i] = FALSE]
    /\ tasks' = tasks \ {i}
    /\ ended' = IF recurring[i] THEN ended ELSE ended \cup {i}
    /\ UNCHANGED <<clockVars, next, ms, recurring, tickled, previous, pipe,
                   state, userVars, pollVars, late, lag>>

\* refresh: a new deadline, and no word to the poller.
Refresh(u, i) ==
    /\ upc[u] = "idle" /\ i \in known
    /\ cb[i] /\ i \in tasks
    /\ next' = [next EXCEPT ![i] = now + ms[i]]
    /\ late' = (late \/ now + ms[i] < next[i])
    /\ UNCHANGED <<clockVars, tasks, ms, recurring, cb, tickled, previous,
                   pipe, state, userVars, pollVars, ended, lag>>

\* reset: without from_now the deadline is m_next - ms + ms, as it was.
Reset(u, i, d, fromNow) ==
    /\ upc[u] = "idle" /\ i \in known
    /\ d # ms[i] \/ fromNow
    /\ cb[i] /\ i \in tasks
    /\ ms' = [ms EXCEPT ![i] = d]
    /\ next' = IF fromNow THEN [next EXCEPT ![i] = now + d] ELSE next
    /\ AddTimerTask(u, i)
    /\ UNCHANGED <<clockVars, recurring, cb, previous, pipe, state, pollVars,
                   history>>

\* Scheduler::stop, as far as the poller is concerned.
Stop(u) ==
    /\ MayStop /\ upc[u] = "idle" /\ state # "stop"
    /\ state' = "stop"
    /\ UGoto(u, "stopNotify")
    /\ UNCHANGED <<clockVars, taskVars, tickled, previous, pipe, uarg, known,
                   pollVars, history>>

UserCall(u) ==
    \/ \E i \in Tasks, d \in Delays, b \in BOOLEAN :
          Create(u, i, d, b) \/ Reset(u, i, d, b)
    \/ \E i \in Tasks : Cancel(u, i) \/ Refresh(u, i)
    \/ Stop(u)

UserStep(u) == Insert(u) \/ Notify(u)

-----------------------------------------------------------------------------
(* Poller::networkPoller *)

PGoto(l) == ppc' = l

\* m_state = running, whatever it was.
PollStart ==
    /\ ppc = "start"
    /\ state' = "running"
    /\ PGoto("next")
    /\ UNCHANGED <<clockVars, taskVars, tickled, previous, pipe, userVars,
                   until, woken, nowMs, expired, history>>

Least(a, b) == IF a < b THEN a ELSE b

\* Mutant: the sleep has no upper bound.
TimeoutUnbounded ==
    IF tasks = {} THEN MaxTime + MaxWait + 1
    ELSE IF \E i \in tasks : Due(i) THEN MaxWait
    ELSE next[CHOOSE j \in tasks : First(j, next, tasks)] - now

\* getNextExecuteTime and the two bounds put on it: a task that is due gives 0,
\* and 0 becomes MAX_TIMEOUT.
Timeout ==
    IF tasks = {} \/ \E i \in tasks : Due(i) THEN MaxWait
    ELSE LET i == CHOOSE j \in tasks : First(j, next, tasks)
         IN Least(next[i] - now, MaxWait)

PollNext ==
    /\ ppc = "next"
    /\ tickled' = FALSE
    /\ until' = Timeout
    /\ lag' = 0
    /\ late' = \E i \in tasks : Due(i)
    /\ PGoto("test")
    /\ UNCHANGED <<clockVars, taskVars, previous, pipe, state, userVars, woken,
                   nowMs, expired, ended>>

\* stopping() && m_sche->isStopping(): the scheduler stops before it stops the
\* poller.  Then epoll_wait, whose timeout counts from here.
PollTest ==
    /\ ppc = "test"
    /\ IF state = "stop" THEN PGoto("exit") /\ UNCHANGED until
                         ELSE PGoto("wait") /\ until' = now + until
    /\ UNCHANGED <<clockVars, taskVars, tickled, previous, pipe, state, userVars,
                   woken, nowMs, expired, history>>

\* Mutant: nothing is looked at after a timeout.
ReturnsForEvents(events) ==
    /\ ppc = "wait"
    /\ until' = 0 /\ lag' = 0
    /\ woken' = events
    /\ PGoto(IF state = "stop" THEN "exit" ELSE IF events THEN "now" ELSE "next")
    /\ UNCHANGED <<clockVars, taskVars, tickled, previous, pipe, state, userVars,
                   nowMs, expired, ended, late>>

\* epoll_wait returns to the test for a stop.
Returns(events) ==
    /\ ppc = "wait"
    /\ until' = 0 /\ lag' = 0
    /\ woken' = events
    /\ PGoto(IF state = "stop" THEN "exit" ELSE "now")
    /\ UNCHANGED <<clockVars, taskVars, tickled, previous, pipe, state, userVars,
                   nowMs, expired, ended, late>>

\* Because the time is up or the pipe is readable, ...
WaitEnds == (now >= until \/ now = MaxTime \/ pipe) /\ Returns(pipe)

\* ... because of a file descriptor, ...
OtherEvent == Returns(pipe)

\* ... or because of a signal.
Interrupted ==
    /\ ppc = "wait" /\ signals > 0
    /\ signals' = signals - 1
    /\ until' = 0 /\ lag' = 0
    /\ PGoto("next")
    /\ UNCHANGED <<now, backs, taskVars, tickled, previous, pipe, state,
                   userVars, woken, nowMs, expired, ended, late>>

\* getExecuteTask: the time, ...
PollNow ==
    /\ ppc = "now"
    /\ nowMs' = now
    /\ PGoto("peek")
    /\ UNCHANGED <<clockVars, taskVars, tickled, previous, pipe, state, userVars,
                   until, woken, expired, history>>

AfterTasks == IF woken THEN "drain" ELSE "next"

\* ... a look under the read lock, ...
PollPeek ==
    /\ ppc = "peek"
    /\ PGoto(IF tasks = {} THEN AfterTasks ELSE "expire")
    /\ UNCHANGED <<clockVars, taskVars, tickled, previous, pipe, state, userVars,
                   until, woken, nowMs, expired, history>>

\* Mutant: the comparison is the wrong way round.
SetAhead == previous + Rollover < nowMs

\* detectClockRollover
SetBack == nowMs + Rollover < previous

\* ... and under the write lock everything below a TimerTask made for the
\* present moment, whose address is anywhere among the others' (cut), and
\* what follows it with the deadline nowMs.
Overdue(cut) ==
    LET below == {i \in tasks : next[i] < now \/ (next[i] = now /\ i <= cut)}
        rest == tasks \ below
    IN IF SetBack THEN tasks
       ELSE IF \E i \in tasks : First(i, next, tasks) /\ next[i] > nowMs
       THEN {}
       ELSE below \cup IF \A i \in rest : next[i] >= nowMs
                       THEN {i \in rest : next[i] = nowMs} ELSE {}

\* Mutant: every task goes back.
AgainAll == expired'

\* Mutant: every task keeps its callback.
ClearedNone == {}

\* A recurring task goes back for its next period, another one loses its
\* callback.
Again == {i \in expired' : recurring[i]}
Cleared == expired' \ Again

PollExpire ==
    /\ ppc = "expire"
    /\ \E cut \in Tasks \cup {0} : expired' = IF tasks = {} THEN {} ELSE Overdue(cut)
    /\ previous' = IF tasks = {} THEN previous ELSE nowMs
    /\ next' = [i \in Tasks |-> IF i \in Again THEN nowMs + ms[i] ELSE next[i]]
    /\ cb' = [i \in Tasks |-> cb[i] /\ i \notin Cleared]
    /\ tasks' = (tasks \ expired') \cup Again
    /\ PGoto(IF expired' = {} THEN AfterTasks ELSE "launch")
    /\ nowMs' = 0
    /\ UNCHANGED <<clockVars, ms, recurring, tickled, pipe, state, userVars,
                   until, woken, history>>

\* createFiber of each callback, unless the poller is stopping.
PollLaunch(i) ==
    /\ ppc = "launch" /\ i \in expired
    /\ expired' = expired \ {i}
    /\ ended' = IF recurring[i] THEN ended ELSE ended \cup {i}
    /\ PGoto(IF expired' = {} THEN AfterTasks ELSE "launch")
    /\ UNCHANGED <<clockVars, taskVars, tickled, previous, pipe, state, userVars,
                   until, woken, nowMs, late, lag>>

\* The pipe is read until it is empty.
PollDrain ==
    /\ ppc = "drain"
    /\ pipe' = FALSE /\ woken' = FALSE
    /\ PGoto("next")
    /\ UNCHANGED <<clockVars, taskVars, tickled, previous, state, userVars, until,
                   nowMs, expired, history>>

PollStep ==
    \/ PollStart \/ PollNext \/ PollTest \/ WaitEnds \/ PollNow \/ PollPeek
    \/ PollExpire \/ \E i \in Tasks : PollLaunch(i)
    \/ PollDrain

-----------------------------------------------------------------------------
(* The clock *)

Tick ==
    /\ now < MaxTime
    /\ now' = now + 1
    /\ lag' = IF ppc = "test" THEN lag + 1 ELSE lag
    /\ UNCHANGED <<backs, signals, taskVars, tickled, previous, pipe, state,
                   userVars, pollVars, ended, late>>

\* gettimeofday is not monotonic; a timeout is relative and takes no notice.
SetClockBack(t) ==
    /\ backs > 0 /\ t < now
    /\ backs' = backs - 1
    /\ now' = t
    /\ until' = IF ppc # "wait" THEN until
                ELSE IF until < now THEN 0 ELSE until - (now - t)
    /\ UNCHANGED <<signals, taskVars, tickled, previous, pipe, state, userVars,
                   ppc, woken, nowMs, expired, history>>

Next ==
    \/ \E u \in Users : UserCall(u) \/ UserStep(u)
    \/ PollStep \/ OtherEvent \/ Interrupted
    \/ Tick \/ \E t \in Times : SetClockBack(t)

Spec == Init /\ [][Next]_vars

\* The poller's thread and those inside a call are scheduled, and time passes.
\* Nothing makes anyone use the timer, send a signal or make a descriptor ready.
Fairness ==
    /\ WF_vars(PollStep) /\ WF_vars(Tick)
    /\ \A u \in Users : WF_vars(UserStep(u))
FairSpec == Spec /\ Fairness

-----------------------------------------------------------------------------

\* cancel() erases what find() returned without a look at it (timer.cc:23-24):
\* every task somebody can cancel has its callback exactly while it is in
\* m_tasks, although getExecuteTask takes it out, puts it back and clears it.
CancelFinds == \A i \in known : cb[i] <=> i \in tasks

\* A one-shot task that was launched, or cancelled with success, is neither
\* waiting to expire nor about to be launched (timer.cc:18-28 against 185-199).
RunsOnce ==
    \A i \in tasks \cup expired : ~recurring[i] =>
        i \notin ended /\ ~(i \in tasks /\ i \in expired)

\* Whatever order the threads insert in, m_tickled never keeps back a wake-up
\* the poller needs (timer.cc:110, 133): asleep, it wakes by the deadline of
\* every task, later at most by what it spent between its look at the tasks and
\* its epoll_wait, or its pipe is readable or about to be.  Excepted are the two
\* cases the code itself forgets.
Asleep == ppc \in {"test", "wait"}
WakeComes == pipe \/ \E u \in Users : upc[u] = "notify"
WakesAt == IF ppc = "wait" THEN until ELSE now + until
SleepsUntil(i) == WakesAt <= next[i] + lag
WakesForFirst == Asleep /\ ~late /\ ~WakeComes => \A i \in tasks : SleepsUntil(i)

\* As long as the clock is not set back, no task is taken out before its time
\* (timer.cc:169-185: two clock readings and an address decide what is).
NeverEarly ==
    [][backs = MaxBack => \A i \in expired' \ expired : Due(i)]_vars

-----------------------------------------------------------------------------

\* A task that is due is taken out, moved or cancelled: the poller never sleeps
\* it away, whatever woke it and however its sleep was computed.
DueRuns ==
    \A i \in Tasks :
        (i \in tasks /\ Due(i)) ~> (i \notin tasks \/ ~Due(i) \/ state = "stop")
=============================================================================
