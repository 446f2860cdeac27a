# ppcode in TLA+

ppcode is a C++ server library for Linux: stackful fibers scheduled M:N over
threads, a timer and an epoll poller that wake them, hooks that turn blocking
system calls into waits of a fiber, and the threads, locks, configuration and
logging these are built from.  This directory holds TLA+ models of it, the TLC
runs that check them on small instances, and TLAPS proofs of the properties
that matter most.

Source paths are relative to the repository; the program itself is in `src/`
(`src/fiber`, `src/thread`, ...).  `code/boost.context` is vendored boost; the
rest of boost, `spsc_queue` among it, is a library outside the repository.

## 1. Inventory

| part | files | state | operations | hard behaviour |
|---|---|---|---|---|
| fiber scheduler | `fiber/scheduler.*`, `fiber/processer.*`, `fiber/fiber.*` | scheduler and processer states, one `newQueue` + counter, `runableQueue`, `gcQueue`, wake-up flag and condition variable per processer, state and processer of each fiber, the static round-robin id | `createFiber`, `addFiber`, `execute`, `getNewFibers`, `idle`, `notify`, `yield`, `stop` | any thread adds to any processer; the flag is written without the mutex; a fiber is re-added while it is still on its stack; the single-producer queue has several producers |
| timer | `fiber/timer.*` | ordered set of tasks, `m_tickled`, last seen time | `createTimer`, `createCondTimer`, `cancel`, `refresh`, `reset`, `getNextExecuteTime`, `getExecuteTask` | a task added while the poller is computing its timeout; tasks cancelled after they expired; a clock set back |
| network poller | `fiber/poller.*`, `wraplib/epoll.h` | registered events and callbacks per fd, epoll's interest list, pending count, pipe, poller state | `addEvent`, `delEvent`, `cancelEvent`, `cancelAll`, `networkPoller`, `notify` | events delivered while they are cancelled or re-registered; start-up racing the stop |
| fd contexts | `fiber/fdcontext.*` | vector of `FdCtx` under a rwlock | `get`, `del` | a context is made under the write lock by code that calls `get` itself |
| hooked calls | `fiber/hook.*` | per-thread enable flag, `FdCtx` flags and timeouts | `sleep`, `read`, `write`, `connect`, `accept`, `close`, ... (`do_io`) | a timeout racing the event; a wake-up before the yield; `close` during a wait |
| lock-free list | `thread/lockfreelist.h` | linked nodes, a free list, head and tail | `push`, `pop` | compare-and-swap loops, node reuse |
| threads and locks | `thread/*` | pthread objects and what the wrappers remember of them | `start`, `join`, `detach`; scoped locks | destruction of a running thread |
| configuration | `config/*` | registry of variables, value and listeners each | `Lookup`, `setValue`, `addListener`, `LoadFromYaml` | listeners told under the read lock, the value stored under the write lock; a counter shared by variables |
| logging | `log/*` | loggers, appenders, formatters | `log`, `addAppender`, `setFormatter`, manager look-up | reconfiguration while threads log |
| utilities, coroutine macros, context switch | `util/*`, `os/*`, `fiber/coroutines.h`, `*.S` | none | | |

How they interact.  User code calls `Scheduler::createFiber`; each processer's
thread runs `Processer::execute`, which switches to fibers.  A fiber that calls
a hooked function registers a timer (`createTimer`) and/or an event
(`addEvent`) whose callback adds it again, and then yields.  The poller's
thread turns an expired timer or a ready event into a *waker*: a new fiber
whose only work is the callback, that is `Scheduler::addFiber` of the fiber
that waits.  The owner's destructor stops the processers first, then the
poller.

What makes each part correct:

* scheduler: no fiber runs on two threads at once, is resumed twice for one
  wake-up, is resumed after its end, or is forgotten; a processer does not
  sleep over work; a stop ends every thread;
* newQueue: first in, first out, nothing lost, the counter never ahead of the
  queue;
* timer: every task fires once per period unless it was cancelled, never early,
  and the poller never sleeps past the first deadline;
* poller: each registered event is delivered to its own callback at most once;
  a cancelled one is delivered exactly once; the pending count is the number
  registered;
* fd contexts: one context per descriptor, and one thread at a time that makes
  one;
* hooked calls: each wait ends by exactly one callback, and a timeout or a close
  ends the wait it is for and no other;
* lock-free list: a linearizable queue;
* configuration: listeners know the value, and a deleted listener is not called;
* logging: every appender gets every record.

## 2. Modules

| module | models | status |
|---|---|---|
| `FiberPool` | what the scheduler promises of fibers, abstractly | done |
| `Scheduler` | `Scheduler`, `Processer`, `Fiber`, and how the poller wakes fibers; implements `FiberPool` | done |
| `SchedulerProofs` | theorems about `Scheduler`: types, flags, counters | done |
| `TicketProofs` | theorems about the wake-ups a fiber has pending in `Scheduler`, and that it implements `FiberPool` | done |
| `NewQueue` | the single-producer ring behind `newQueue`, with its counter, for several producers | done |
| `NewQueueProofs` | theorems about `NewQueue` | done |
| `LockFreeList` | the linked queue of `thread/lockfreelist.h`; implements `Fifo` | done |
| `Fifo` | what the callers of a concurrent queue expect, abstractly | done |
| `LockFreeListProofs` | theorems about `LockFreeList`: types, and with one producer that it is a `Fifo` | done |
| `Timer` | the timer, and the poller's loop as far as it waits for tasks and runs them | done |
| `TimerProofs` | theorems about `Timer` | done |
| `EventPoller` | registration, cancellation and delivery of a descriptor's events; epoll is an external part of it | done |
| `EventPollerProofs` | theorems about `EventPoller` | done |
| `HookIO` | hooked calls with their timeouts and `close`, composed with `EventPoller` | done |
| `HookIOProofs` | theorems about `HookIO` | done |
| `RWMutex` | the read-write lock and its scoped locks | done |
| `FdManager` | creation and removal of descriptors' contexts under that lock | done |
| `ConfigVar` | configuration variables, loads and listeners under that lock | done |
| `ConfigVarProofs` | theorems about `ConfigVar` | done |
| `MC*` | instances for TLC | |

### Scheduler

One program counter per thread (the owner's, `N` processers', the poller's) and
one action per access to shared state.  `TryOwn`, `Scan`, `Rotate` are
`Scheduler::addFiber`; `CheckStopped`, `PushTest`, `PushWrite`, `PushStore`, `Count`, `Peek`, `Flag`,
`Notify` are `Processer::addFiber`; `Start`, `Loop`, `Refill`, `Dispatch`,
`SwitchOut` are `Processer::execute`; `IdleLock` to `IdleWait` are
`Processer::idle`; `CreateFromTask`, `Arm`, `Yield`, `Reschedule`, `PassOn`,
`Finish` are what a fiber may do while it runs; `MainCreate`, `MainStop`,
`StopSet`, `StopNotify`, `Join`, `JoinPoller` are the owner's thread;
`Deliver`, `PollExit` the poller's.

Where steps are merged: `getNewFibers` exchanges the counter for 0 and pops that
many fibers in one action.  Only the processer's own thread pops, and a push in
between goes behind what is popped, so no other thread can tell, as long as
pushes do not overlap.  `stop()` and
`notify()` write under the processer's mutex, which `idle()` holds from its
first test to its wait: their critical sections are single actions that are
disabled while the processer is in `IdleLocked`.  `addFiber` writes the same
flag *without* the mutex, so `idle()` itself is cut at each access.

`newQueue.push` is boost's, for one producer, and the code's several threads are
in it at once (section 5).  It is three steps: `PushTest` loads the index and
looks for room, `PushWrite` writes the slot behind it, `PushStore` stores the
index.  While no two threads are between the first and the last of them on one
queue, the ring is a sequence, `newQueue[p]`, and a slot written but not yet
published (`stray[p]`).  The first overlap puts `p` into `overlapped`, and from
then on the model keeps what fibers are in `p`'s slots but not where: a write may
overwrite any of them, and a stored index may publish any part of them
(`Windows`), consumed slots included, which hold no fiber any more and are read as
a null pointer.  This has more behaviours than the ring, so what holds in it
without a qualification (`SingleTicket`, `OneRunner`, `WorkIsFlagged`, `PoolSpec`)
holds of the ring, but for one thing: an overlapping push between two pops of one
`getNewFibers`, which is one step here.  `NothingLost` and `CountMatches` speak of
executions before an overlap, because an overlap does lose fibers and lets the
counter exceed the queue.  `NewQueue` has the ring slot by slot.

A wait may end spuriously (`SpuriousWake`).  The static round-robin id is
incremented without synchronisation: a thread that overlaps another one between
choosing and advancing may leave any index in it.

Bounds: `MaxMoves` (how often a task creates, suspends or reschedules itself),
`Capacity` (128 in the code), `NewMax` and `GcMax` (both 32).  The code compares
them only with queue lengths, so small values reach the same branches.

### FiberPool

A fiber is `new`, `live` or `done`; it holds at most one *ticket*, `promised`
(on its way to a processer) or `queued`; it runs on at most one processer, and
to resume it spends its ticket.  `Scheduler` maps to it by `Life`, `Promised`,
`Queued` and `Runner`; `Discard` stands for what a stop throws away, and
`Displace` for the fiber whose place in a queue another one takes when pushes
overlap.  Since a ticket may be discarded at any time the pool says nothing about
loss (`NothingLost` does); what it promises is that no wake-up is duplicated or
spent twice, and whose stack is in use.

### NewQueue

`boost::lockfree::spsc_queue`, modelled load by load and store by store from
how `processer.cc` uses it, plus `m_newfiberCount` and the loop of
`getNewFibers`.  The history variable `overlapped` records whether two
producers were inside `push` together; what holds without it is what the
single-producer contract gives.

### LockFreeList

One action per atomic access: `Alloc*` are `AllocNode`, `Fill` to `Swing` are
`push`, `PopReadOut` to `PopCas` are `pop`, `Version` to `ReleaseCas` are
`ReleaseNode`.  Pointers carry their version, so that a compare-and-swap
compares both, as the code's does.  Reading `m_head.vals[1]` a second time is an
action of its own (`AllocTop`), because another node may be there by then
(section 5).  `crashed`
is where a thread is that followed a null pointer.

`Fifo` is a queue whose operations take effect at one instant between call and
return.  A push fails only when the caller gets no node.  A pop fails on an empty
queue, and otherwise only when it is in `overtaken`: another pop has replaced
the dummy it holds (section 5).  With one consumer that set is always empty, so
that `FifoSpec` then is a queue without qualification; with two it says that
this is the only thing wrong.

### Timer

Users' threads create, cancel, refresh and reset tasks; a task is an address
(the order of `m_tasks` is by deadline, then address).  `createTimer` is cut at
the lock (`Create`, `Insert`) and at the call that wakes the poller (`Notify`);
the others are one critical section each.  The poller's loop is cut between its
calls (`PollNext`, `PollTest`, the wait, `PollNow`, `PollPeek`, `PollExpire`,
`PollLaunch`, `PollDrain`).  `getExecuteTask` reads the clock twice, before the
lock and inside it, and compares with the address of a fresh object: `Overdue`
takes any cut.  `until` is first the timeout that `getNextExecuteTime` gives
(`PollNext`), relative as it is in the code, and from the step that enters
`epoll_wait` on (`PollTest`) the moment it times out; a signal, the pipe or another
descriptor ends it earlier.  `lag` is the time that went by between the two steps,
by which the code may oversleep (section 5).  Time is 0 to `MaxTime`;
`Rollover` is the code's hour.

Two things the module shows that no document speaks about: `reset(ms, false)`
leaves the deadline as it was (`timer.cc:67` subtracts the new interval), and
`refresh` does not tell the poller of a deadline it has brought forward.  `late`
marks the second one, and the task that is due already (section 5), so that `WakesForFirst` can speak of
everything else.

### EventPoller

`addEvent`, `delEvent`, `cancelEvent` and `cancelAll` hold the mutex of the
descriptor's context from their first look at `events_` to their last store, and
so does the poller's thread for each event it works off: each is one action,
with `Trigger` for `triggerEvent`.  `epoll_wait` (`Wait`) is an action of its own and
`batch` is what it returned: between it and `Process` the other threads may
delete, cancel and register again.

epoll is external: an interest list (`listed`, `interest`), and a
ready list (`armed`) that a descriptor enters when it becomes ready or is added or
modified while it is, and that `epoll_wait` empties (`EPOLLET`).  `EPOLLERR` and
`EPOLLHUP` are one condition, reported whatever was asked for.

`RealEvents` takes writability for READ and readability for WRITE, as the code
does (section 5).  `Process` triggers all of it as soon as some of it is
registered, so an event may be triggered that nobody registered, and a second
`addEvent` for a registered event replaces the callback of the first; either
sets the history variable `stray`.  `crashed` records that a `scheduler_` that is
not set was followed.  `ends` counts what became of each registration.
`m_pendingEventCount` is unsigned and wraps at `Wrap`.

Not here: the vector of contexts and its growth.  What a callback does is in
`Scheduler!Deliver` and, for hooked calls, in `HookIO`.

### HookIO

It EXTENDS `EventPoller` and adds the callers: what each fiber is in (`pc`,
`call`), the `timer_info` of the call (`tag` names it, `cancelled` is its
`canclelled`), the tasks of `createCondTimer` and their callbacks (`timers`),
which fiber each registration will add (`waiter`), and the callbacks that were
launched and have not added their fiber yet (`tickets`).

`TryDone` and `TryAgain` are the system call and what `do_io` makes of it, `Add`
is `addEvent` with its error path, `Resume` is the return from `toYield`;
`connect` goes the same way once, and reports whatever `SO_ERROR` says.
`Expire`, `TimerTest` and `TimerCancel` are the life of a timeout: taken out by
the poller, its callback finds the `timer_info` alive and sets the flag, and
then calls `cancelEvent`.  `CloseCancel`, `CloseDel` and `CloseF` are the three
steps of `close`; `Open` gives the number out again, with the poller's context
as the closed descriptor left it.  `Arrive` is the other side: more data on a
readable descriptor is a new edge to epoll.

Merged: arming the task is part of `TryAgain`, since nobody can see the task
before it expires, and the expiry is a step of its own; the test and the setting
of `canclelled` are one step, since the task of a wait has one callback, and the
fiber looks at the flag only after it was added.  `NextCall` takes
registrations in a fixed order: they are names.  `HookNext` stops at the first
`stray` or `crashed`: what an event that nobody registered does is in
`EventPoller`, and nothing is claimed after it.  `raced` marks executions in
which a fiber registers an event between the `cancelAll` and the `close_f` of
the same descriptor (section 5).

### RWMutex, FdManager, ConfigVar

`RWMutex` is a lock as a value: `CanRead`, `CanWrite` say when glibc lets a
thread go on, `ReadLocked`, `WriteLocked`, `ThenUnlocked` what it leaves.  A
failed `rdlock` or `wrlock` is logged and ignored, and the scoped lock unlocks in
the end all the same; glibc takes an unlock by somebody who is not the writer
for a reader's, and its count of readers wraps.

`FdManager` is `get(fd, true)` as `socket` and `accept` call it, cut at each lock
(`Look`, `Make`, `Store`), and between them the two hooked `fcntl` of
`FdCtx::init` (`GetFl`, `SetFl`), each of which looks the descriptor up again;
`Close` and `Del` are the removal.

`ConfigVar` is `Lookup`, `LoadFromYaml` and what the program calls on a variable.
`plan` is what a thread has left of its load; `SetStart`, `Tell`, `Release` and
`Write` are `setValue`, whose listeners are called one by one; `AddStart`,
`AddCount` and `AddInsert` are `addListener`, with the static counter read,
advanced and used as a key in three steps, since the lock it holds is that of one
variable only.  `overlapped`, `crossed` and `replaced` record which operations
met.

## 3. Runs

| run | question | bounds |
|---|---|---|
| `scheduler` | is a task that suspends pending once, lost only by a stop, and run by one processer; can a processer sleep over its work; is it `FiberPool`? (`TypeOK`, `SingleTicket`, `NothingLost`, `OneRunner`, `WorkIsFlagged`, `PoolSpec`) | 2 processers, 1 task with 2 moves, 1 waker, capacity 1, a stop at any moment |
| `scheduler_live` | where a queue fills up and two threads push at a time: is a fiber ever pending twice, or lost or the counter wrong before pushes overlap; do threads end at a stop, and does `addFiber` return? (`SingleTicket`, `NothingLost`, `CountMatches`, `StopEndsProcessers`, `AddFiberReturns`) | 1 processer, 3 tasks with 1 move, capacity 1, a stop at any moment |
| `lost_wakeup` | finding 1 (`QueuedFiberRuns` is violated) | 1 processer, 1 task |
| `ring` | is the ring with its counter a counted queue, and does every fiber get through it while the processer comes for it, as long as pushes do not overlap? (`TypeOK`, `FifoUnlessOverlap`, `CountedUnlessOverlap`, `AllRun`) | 2 producers, 3 fibers, capacity 1: full, empty and wrapped |
| `list_consumers` | with a producer and two consumers, is any node lost or in two places; is the list a linearizable queue but for an overtaken pop? (`TypeOK`, `NodesAccounted`, `FifoSpec`) | 4 values through 3 nodes: full, and every node reused |
| `list_producers` | do producers that race get nodes of their own, and return? (`NodesAccounted`, `CallsReturn`) | 2 producers, 3 values, 5 nodes |
| `timer_sleep` | can the poller sleep past a deadline nobody tells it of; cancel against expiry; one end per one-shot task (`TypeOK`, `WakesForFirst`, `CancelFinds`, `RunsOnce`) | 2 threads, 2 tasks, intervals 1 and 2, longest sleep 3, 1 signal |
| `timer_live` | is every due task taken out, and none early? (`DueRuns`, `NeverEarly`) | 1 thread, 2 tasks, longest sleep 1, clock set back once, a stop |
| `events` | do epoll's list and the pending count follow the registrations; does each end once; does a hang-up end them all? (`TypeOK`, `InterestMatches`, `PendingMatches`, `EndsOnce`, `HangupEnds`) | 1 descriptor, 4 calls of `addEvent` |
| `hooked_io` | does one callback end each wait; does a call leave a task behind, or take the timeout of another; do a timeout and a close end the waits they are for? (`HookTypeOK`, `WaitsOnce`, `TimersEnd`, `TimeoutEnds`, `CloseEnds`) | 1 descriptor, a fiber that reads with or without timeout, one that connects and closes, 2 calls each, 3 registrations |
| `config` | do listeners know the value; is a deleted one called; is one replaced? (`TypeOK`, `ListenersKnow`, `ErasedNotCalled`, `NoneReplaced`) | 2 threads, 2 variables, 2 values, 2 loads, 3 listeners |
| `fd_lock` | finding 2 (`WritersExclude` is violated) | 2 threads, 2 descriptors |

Two processers suffice for the races of one fiber: they are between the
processer whose stack is in use and one other.  A task moves twice:
it may suspend and be woken, which takes a waker, and reschedule itself, in any
order.  A second suspension after a first one was woken needs two wakers; without the refinement and with them interchangeable that is
millions of states, too slow to be kept as a run.

One processer is enough for `scheduler_live`: an adder waits for one queue and one
mutex.  With three tasks and one place in the queue, the owner's thread and a fiber
push at a time, the queue fills up under both, the processer's own thread spins
in `push`, and pushes overlap.  `AddFiberReturns` excepts the adder that spins for
ever at a full queue whose processer is asleep, ended or itself inside `addFiber`;
`StopEndsProcessers` excepts the processer that spins there for ever.  Both
exceptions are met in the run: without them TLC finds the properties violated.

`CHECK_DEADLOCK FALSE` everywhere but where the module says otherwise: the
system rests whenever all processers wait and nobody creates a fiber.

Fairness (`Scheduler!Fairness`): every thread that can step does (weak
fairness per thread, the operating system's scheduling), and `notify()` and
`stop()` get the mutex of a processer that releases it again and again (strong
fairness on `Notify` and `StopNotify`: spurious wake-ups may take and release
it without end, and a pthread mutex is not refused for ever).  Nothing makes
the owner create or stop, nothing makes a wait end by itself, and no fiber has
to be armed.  `LockFreeList` and `Timer` assume weak fairness of each thread
inside a call and of the poller's thread, and that time passes; `EventPoller`
that the poller's thread runs.

Because of finding 1 no specification assumes that a fiber which is queued runs.
`NewQueue` is fair to producers inside `addFiber` and to a consumer inside its
pops, but nothing makes the processer call `getNewFibers`: `AllRun` says that
fibers get through unless `StaysAway`, that is unless the processer keeps away for
ever from fibers that are counted for it.  `HookIO` lets a fiber that a processer is
running go on, the poller run, and tasks come due; a callback that was launched, and
the fiber that it adds, need never run.  `TimeoutEnds` and `CloseEnds` therefore
except the wait whose waker, or the waiting fiber itself, stays queued for ever
(`Queued`).  `close` may be held up for ever by the lock of `FdManager`
(finding 2), so only its `cancelAll` is fair.  Nobody has to push, pop, use the
timer, call the poller, send a signal or make a descriptor ready.

Two tasks are enough for the timer: its order compares two, `m_tickled` is about
the first against another, and a wake-up is kept from one inserter by one other.
One descriptor is enough for the events: contexts share nothing but the count,
and each has a mutex of its own; four calls register both events, and both again
while a batch is outstanding.  In the list two threads of a kind race for each swap, and three nodes (dummy,
queued, free) are the least with which a node can come back under a thread that
still holds a pointer to it.

One descriptor is enough for the hooked calls too: a `timer_info`, a callback and
a `close` belong to one.  Two calls of each fiber let a timeout of the first be
launched and run in the second, and a closed number come back; three
registrations are two waits of one call and one of another.  In `config`, a thread
loads two variables while the other adds to them; three calls of `addListener` are
what it takes for a listener to replace another when two threads meet there, and
the run reaches that (`crossed`, which `NoneReplaced` excepts).

## 4. Proofs

Each theorem is proved for every value of the constants that satisfies the
module's assumptions: any number of threads, processers, fibers, descriptors,
tasks, calls, and any bound.  All have the same shape: an inductive invariant
that holds initially, is kept by each action (one lemma per action or group of
actions), and implies the property.  What follows says what each invariant adds
to its property, and why.

### Scheduler: `SchedulerProofs`, `TicketProofs`

* `TypeCorrect`: `Spec => []TypeOK`.  `TypeOK` alone is not inductive:
  `Create` leaves its fiber in `arg`, and `TryOwn` applies `fproc` to it, so
  the invariant `TypeInv` adds that a thread at the start of `addFiber` has a
  real fiber in its hands (`OwnArg`).  The variable groups keep their types one
  by one; lemma `Frame` says that a group a step leaves alone keeps its type.
* `WorkStaysFlagged`: `Spec => []WorkIsFlagged`.  The argument is by action:
  the counter grows only in `Count`, whose thread then is at `peek` and will
  raise the flag; the flag falls only in `IdleReset`, and from there the
  processer goes back to its loop, out of `AtIdle`; it re-enters `AtIdle` only
  through `Refill`, which empties the counter.
* `CountAlwaysMatches`: `Spec => []CountMatches`, for the processers into whose
  `newQueue` no two pushes have overlapped, with `Cardinality` of the adders
  between push and count: `PushStore` adds one thread to it and one fiber to the
  queue, `Count` takes the thread away, `GetNewFibers` shortens queue and counter
  alike, and no other step touches the three.  That no pushes have overlapped is
  used where `PushStore` publishes one slot and no other (`StoreNext`), and where
  `PushWrite` and `PushStore` leave the length of another's queue alone.
* `TicketIsSingle`, `RunnerIsOne`, `NothingIsLost`: `Spec => []SingleTicket`,
  `[]OneRunner`, `[]NothingLost`, from one invariant, `TicketInv`.  A *ticket*
  is a place where a fiber waits to be resumed: a position of a `newQueue` or of
  a `runableQueue`, the hands of a thread in `addFiber`, a processer about to
  dispatch, a fiber that arms, a waker.  The first half of the module has one
  lemma for every step that moves a ticket, which says what tickets there are
  after it (`Quiet` for all that move none).  `FiberInv` then says that a fiber
  has one ticket at most, none while it is free or done, and is executed by one
  processer at most, and that an executed fiber has a ticket only from its `Arm`
  to its `SwapOut`: the window in which its wake-up is promised while its stack
  is in use.  What keeps another processer out of that window is `RunningInv`:
  until the stop an executed fiber belongs to the processer that executes it
  (`fproc`), and its ticket is *near* (armed, with a waker, on its way to that
  processer's `newQueue`, or in a slot of it), so that only the thread that is still on the
  stack can dispatch it.  After the stop the fiber may be scanned away, but then
  nothing new is dispatched.  `NothingIsLost` is the last conjunct of
  `RunningInv`, and like the one before it has the hypothesis that no two pushes have
  overlapped: a fiber that began and has not ended is executed or has a ticket.
  The rest of `TicketInv` holds through overlaps: what they do to the slots of a
  ring (`PushWrite`, `PushStore`) takes tickets away or moves them within one
  processer's ring, and never makes one.
* `ImplementsPool`: `Spec => PoolSpec`, the refinement of `FiberPool`, step by
  step.  `TicketInv` makes the mapped state a function (one runner, one ticket);
  lemmas `PoolCreate` to `PoolFinish` each show that one kind of step is the
  pool's step for one fiber and changes nothing the pool sees of the others;
  every other step is a stutter.

### NewQueue: `NewQueueProofs`

* `QueueTypes`: `Spec => []TypeOK`, overlapping pushes included.  It needs that
  who is inside `addFiber` has a fiber, and that a pop that read its slot was
  owed (`HasFiber`, `Owed`).
* `FirstInFirstOut`: `Spec => []FifoUnlessOverlap`.  While no two pushes have
  overlapped, the producer inside `push` holds the present index and has room
  behind it (`Pushing`); what was pushed is what was taken followed by the slots
  from `r` to `w` (`InOrder`, stated position by position).  The arithmetic
  around the ring is in lemmas of its own: an index is its distance from `r`
  (`Indices`, `Distances`, `Places`).
* `CountsAreMet`: `Spec => []CountedUnlessOverlap`.  The counter, the pops still
  owed and the producers between push and `fetch_add` add up to the used slots.

### LockFreeList: `LockFreeListProofs`

* `ListTypes`: `Spec => []TypeOK`, for any producers and consumers: a pointer that
  is followed is one to a node, since each thread has read it as one (`Follows`).
* `NodesAreAccounted`: with one producer, `Spec => []NodesAccounted`; and
  `ImplementsFifo`: with one producer, `Spec => FifoSpec`.  Both rest on `ListInv`.
  `Chain` follows `next` with a recursive function, so the module first says what
  a chain is without recursion (`Linked`: a sequence whose members point each to
  the following one, the last to nothing) and shows that a linked sequence is
  what `Chain` computes (`ChainIs`, by a smallest step at which they would
  differ).  `Line`, the dummy and the queue behind it, and `Free` are such
  sequences (`Chains`); each node is in one position of one of them or in one
  thread's hands (`Placed`).  Four steps move a node: `AllocMoves`, `LinkMoves`,
  `PopMoves` and `ReleaseMoves` say from where to where; `Quiet` is for all
  others.  Versions grow along the line (`Rising`) and a node's version is drawn
  before it is linked, so that a pointer that has left the line never comes
  back: a consumer whose swap succeeds has read a dummy that was the dummy all
  the while, and its successor and value are still those it read (`PopOf`).  The
  producer alone takes free nodes and links (`PushOf`); that is where one producer
  is needed, since with two a node may be given twice (section 5).  `Tailed` is
  how far `m_in` may lag.
* `NoneOvertaken`: with one consumer, any producers, no pop is overtaken; so with
  one of each `FifoSpec` is a queue without qualification.

### Timer: `TimerProofs`

* `TimerTypes`: `Spec => []TypeOK`, of which the last part (`SleepBounded`) says
  that the poller's wait is over within `MAX_TIMEOUT` of the present time.  That `getNextExecuteTime` has a first task
  to look at is well-foundedness of `<` (`SmallestNat`), from the library.
* `CancelAlwaysFinds`, `TasksRunOnce`: `Spec => []CancelFinds`, `[]RunsOnce`.
  `TaskInv` follows a task from its construction, when it is its thread's alone
  (`Owned`), to its end: once inserted it has its callback exactly while it is in
  `m_tasks`, and a one-shot task loses it before it is launched and never gets it
  back.
* `PollerWakes`: `Spec => []WakesForFirst`.  The strengthening is `TickledWakes`:
  while the poller sleeps, `m_tickled` is set only with a wake-up on its way, so
  that the inserter that finds it set may rely on the one before.  The wait ends by
  the first deadline and the time that passed before it began (`SleepsUntil`).
* `NoneExpiresEarly`: `Spec => NeverEarly`, an action property: unless the clock
  was set back, the two readings of the poller's clock are in order, so the cut of
  `getExecuteTask`, whichever address it compares with, is no later than now.

### EventPoller and HookIO: `EventPollerProofs`, `HookIOProofs`

* `EventTypes`: `Spec => []TypeOK`.
* `InterestAlwaysMatches`: `Spec => []InterestMatches`.  It is inductive with the
  types: whether `epoll_ctl` succeeds follows from the invariant itself (a
  descriptor is listed exactly while it has events), and each operation hands
  epoll the set that it then stores in `events_`.
* `EndsAtMostOnce`: `Spec => []EndsOnce`.  The invariant behind it places each
  call's callback: not made and never seen (`Fresh`), registered at one place and
  not ended (`Alive`, `Single`), or ended once.  `EndsCount` then says that an
  operation which triggers a set of registered events adds one to the calls in
  it and nothing to the others.
* `CountMatchesEvents`: `Spec => []PendingMatches`, modulo the width of the
  counter.  It adds that only finitely many events are registered at any time,
  however many descriptors there are, and is about `Cardinality` of unions and
  differences of the sets the operations add and trigger.
* `HookTypes`, `WaitEndsOnce`, `TimersAreEnded`: the invariants
  of `HookIO`, from `HookInv`.  It reuses what is proved of `EventPoller`'s
  operations and adds the callers: a fiber in a wait has its one registration or
  one callback launched for it, never both nor two (`OneWakeUp`); a task that is
  still set in the timer belongs to the present wait of its fiber (`TasksOwn`); a
  `canclelled` that is set is the call's own (`CallsOwn`); a registered callback
  was made by a call (`CallsMade`); and a descriptor is closed by one fiber at a
  time (`ClosesOnce`), so that the number it gives back is its own.

### ConfigVar: `ConfigVarProofs`

* `ConfigTypes`, `ListenersAreTold`, `ErasedIsNotCalled`, `NoListenerReplaced`:
  the four invariants of the run, from `ConfigInv`.  The lock of a variable counts exactly the
  threads that are telling its listeners and names the one that adds one
  (`LocksHeld`); a listener left to be called is registered, because its caller
  holds the lock (`LeftHeld`); during a `setValue` those already told know the
  new value (`Informed`); and the counter is beyond every key given unless two
  threads met in `addListener` (`Fresh`).

### Assumptions

`N`, `Capacity` and `Wrap` are positive.  Tasks of `Timer` are positive numbers,
since they are addresses, compared as such with that of a fresh object.  A process
has finitely many threads, and fewer than glibc's read-write lock can count as
readers (`ReadersAssumption`: the count is 2^29 - 1).  `HookIO` has at least one
descriptor and one fiber, `ConfigVar` one variable.  A placeholder (`NoFiber`,
`NoCall`, `Empty`) is not one of the things it stands for the absence of, and a value
pushed to `LockFreeList` is none of the words that stand for a state of a call.
Everything else the modules assume types the constants.  That one thread pushes
(`OneProducer`), or one pops, is a hypothesis of the theorems that need it, not an
assumption of the module: the runs have two consumers, or two producers.

### Only model-checked

* All liveness (`QueuedFiberRuns`, `StopEndsProcessers`, `AddFiberReturns`,
  `AllRun`, `CallsReturn`, `DueRuns`, `HangupEnds`, `TimeoutEnds`, `CloseEnds`):
  the prover does not do `ENABLED`, on which fairness rests.
* `FdManager`, whose one property is refuted (finding 2).
* `NodesAccounted` for two producers that nobody pops from; the theorem has one
  producer.

## 5. Findings

1. *Lost wake-up* (`processer.cc:75`, run `lost_wakeup`).  `addFiber` reads
   `m_state == running`, the processer finds its queue empty and goes to wait,
   and the flag is then raised without notification: the processer sleeps over
   a queued fiber until another fiber is added or the scheduler stops.
   `scheduler.cc:61-62` promises that it will soon be run.
2. *The lock of FdManager* (`fdcontext.cc:78`, run `fd_lock`).  `get` makes an
   `FdCtx` under the write lock; `FdCtx::init` calls `fcntl`, which is hooked and
   looks the descriptor up; `rdlock` fails there with `EDEADLK`, which
   `rwmutex.cc:26` logs, and the destructor of the scoped lock unlocks the write
   lock of the outer call.  A second thread then makes a context, resizes and
   assigns `m_datas` at the same time, though `fdcontext.h:65` calls `m_mutex` a
   read-write lock.  When the outer call ends it unlocks once too often: if no
   other thread is there, glibc's count of readers goes below zero, and the next
   `wrlock`, that of the next `socket`, `accept` or `close`, waits for ever.

The models also contain, and the properties are stated around, what no run
singles out:

* the single-producer queue is pushed to by several threads (`processer.cc:70`,
  `overlapped`): two overlapping pushes lose a fiber, and the counter exceeds
  the queue, so that a pop of `getNewFibers` finds nothing (`missed`);
* a fiber that adds fibers to its own processer spins in `push` on a full
  `newQueue` that only its own thread could empty (`processer.cc:70`), so that
  the destructor's join never returns (`Clogged`); so does another thread, when
  the processer sleeps over a full queue (finding 1);
* `AllocNode` reads `m_head` as X, follows a second reading Y that a pop has put
  in front of X, and swaps after another push has taken Y and so restored X:
  X is allocated and stays in the free list (`lockfreelist.h:183`), although
  line 81 says that the version solves ABA.  It takes two producers and a pop:
  `NodesAccounted` is checked without the one or without the other;
* the second reading of `m_head` may be null where the first was not, and
  `push` follows it instead of returning false (`lockfreelist.h:183`; a thread
  of the model is then `crashed`);
* a pop that overlaps another one may read the cleared `next` of a node that
  has been reused, and report an empty queue that is not (`lockfreelist.h:140`,
  `overtaken`);
* a task that is due when the poller computes its timeout gives 0, which is
  replaced by 3000 ms (`poller.cc:232`, `late`), although the purpose of the
  wait is the timer's deadline;
* the timeout is relative and computed before `epoll_wait` is called: what time
  passes in between is slept longer (`poller.cc:221`, `lag`);
* `networkPoller` writes `running` over a `stop` that came before its thread
  started (`poller.cc:218`, `PollStart`), and the destructor then waits for the
  poller for ever;
* `networkPoller` takes `EPOLLOUT` for READ and `EPOLLIN` for WRITE
  (`poller.cc:283`, `RealEvents`), although `addEvent` registers them as they
  are.  A descriptor registered for READ alone, reported readable, gives a
  `real_events` of WRITE, is passed over, and is not reported again
  (`EPOLLET`): data alone never wakes a reader, only a hang-up, an error, a
  timeout or a close.  With both registered the other callback is launched;
* one registered event in `real_events` lets the poller trigger the other too,
  registered or not (`poller.cc:307`): the callback and scheduler of an earlier
  registration are used again, or none is there, and `m_pendingEventCount` goes
  below zero;
* `addEvent` for an event that is registered replaces its callback, which then
  never runs, and counts it twice (`poller.cc:101`);
* `addEvent` takes a context with `fd == size()` for one that is there, and grows
  the vector under the read lock (`poller.cc:75`); this one is not modelled;
* a hooked call arms its timer before it registers the event (`hook.cc:76`): a
  timeout that comes in between finds nothing to cancel, and the wait that
  follows has no timeout any more.  `TimeoutEnds` therefore speaks of waits whose
  flag is still clear;
* a callback of a timeout between its test of `canclelled` and its `cancelEvent`
  (`hook.cc:82-83`) does not know whether its call is still there: if that call was
  woken and has returned, and the next one waits for the same event of the
  descriptor, the callback cancels that wait (`TimerCancel`).  `do_io` tries again
  and waits anew; a `connect` takes it for its end and returns what `SO_ERROR` says,
  0 in general, before the connection is made.  `TimersEnd` says that at least
  no call returns `ETIMEDOUT` for another's timeout;
* between `cancelAll` and `close_f` a fiber that was woken may register again
  (`hook.cc:256`, `raced`): epoll drops the descriptor, `events_` keeps the
  event, and every later `addEvent` on that number fails in `EPOLL_CTL_MOD`;
* `hook.cc:61` compares `n` with 1 where -1 was meant: an interrupted call is not
  tried again (`TryDone`);
* `connect` goes on after a timeout and returns 0 when the socket has no error
  (`hook.cc:381-406`), and `ioctl(FIONBIO, 0)` makes the kernel's socket block
  (`hook.cc:493`); what calls return is not modelled;
* `get` tests `auto_create` the wrong way round beyond the vector
  (`fdcontext.cc:68`): a socket numbered 128 or more gets no context, and looking
  it up makes one, whose `fcntl` looks it up again, without end;
* `setValue` tells the listeners and stores the value under two locks
  (`configVar.h:106`): two threads may tell in one order and store in the other,
  and a listener that is added in between is not told (`overlapped`);
* the counter behind `addListener` is static, the lock is the variable's
  (`configVar.h:113`): two threads may give two listeners one key (`crossed`);
* a listener that adds or removes a listener of its variable, or sets it, waits
  for the lock its own thread holds for reading (`configVar.h:104`).  The
  program's own listener, that of the logs, does not; it is not modelled.

## 6. Not modelled

* `code/boost.context` is vendored boost, and most of the repository's lines; what
  is used of it, the context switch, is modelled by what `fiber.h` makes of it.
  `boost::lockfree::spsc_queue` is not in the repository: `NewQueue` and the push of
  `Scheduler` are what `processer.cc` gets from it.
* Threads, mutexes, spin locks, semaphores, barriers and condition variables are
  one pthread call each.  They appear as atomic critical sections, waits and
  joins of the parts that use them.
* Logging: the loggers' maps and lists are changed under a mutex each, in single
  critical sections; the one place without it (`logger.cc:22`) has no defined
  outcome.  `setFormatter` also replaces the formatter of appenders that have
  one of their own.  The rest is formatting.
* The conversions of `lexical_cast.h` and `log_config.h`, the flags and timeouts
  of a descriptor's context, `fcntl`, `ioctl`, `setsockopt` and what `connect`
  returns: data that no property here tells apart.
* The growth of the poller's and `FdManager`'s vectors: a resize while another
  thread reads is undefined.
* Utilities, coroutine macros and the assembly have no state of their own.

## 7. Plan

The components with state and interleavings are modelled, and every safety
property and refinement that a passing run checks is proved (`NodesAccounted` for one
producer).  What is left, in
the order of its worth: of `LockFreeList` with several producers, that the line
stays a chain with growing versions although the free list may give a node twice,
up to the first time it does; of `FdManager`, that writers exclude each other as
long as no lookup is nested in another; and of `FiberPool` and `Fifo`, the
abstract modules, the invariants that a caller would use in place of the
specification (a fiber runs on one processer; what is popped was pushed).
