------------------------------- MODULE NewQueue -------------------------------
(***************************************************************************)
(* newQueue and m_newfiberCount of one Processer: a single-producer,       *)
(* single-consumer ring (boost::lockfree::spsc_queue) that Processer::     *)
(* addFiber fills from any thread and Processer::getNewFibers empties on   *)
(* the processer's own thread, counter first.                              *)
(*                                                                         *)
(* The ring is modelled load by load and store by store, for any set of    *)
(* producers: Scheduler::addFiber runs on the owner's thread, the poller's *)
(* and every processer's.  Two producers inside push together break the    *)
(* ring's contract; overlapped records that it has happened.               *)
(***************************************************************************)
EXTENDS Naturals, Sequences, FiniteSets

CONSTANTS
    Producers,  \* threads that call addFiber of this processer
    Fibers,     \* the fibers they add, each once
    Empty,      \* what a slot holds that was never written or was consumed
    Capacity    \* capacity<128UL> in processer.h

ASSUME CapacityAssumption == Capacity \in Nat \ {0}
ASSUME EmptyAssumption == Empty \notin Fibers

\* The ring keeps one slot free to tell full from empty.
Size == Capacity + 1
Slots == 0..Capacity
\* Mutant: the index does not wrap around.
NextIndexUnwrapped(i) == i + 1
NextIndex(i) == (i + 1) % Size

VARIABLES
    buf,        \* the slots
    w, r,       \* write_index_ and read_index_
    newCount,   \* m_newfiberCount
    pc,         \* producer: where it is in addFiber
    fiber,      \* producer: the fiber it adds
    at,         \* producer: the write index it has loaded
    left,       \* consumer: pops still to do of the exchanged count
    taken,      \* consumer: whether slot r is read and r not yet advanced
    todo,       \* fibers nobody has added yet
    runable,    \* what the consumer has appended to runableQueue
    missed,     \* whether a pop of a counted fiber found the ring empty
    pushed,     \* history: fibers in the order their push was published
    overlapped  \* history: whether two producers were inside push together

ringVars == <<buf, w, r>>
prodVars == <<pc, fiber, at, todo>>
consVars == <<left, taken, runable, missed>>
vars == <<ringVars, newCount, prodVars, consVars, pushed, overlapped>>

InPush == {"load", "test", "write", "store"}

TypeOK ==
    /\ buf \in [Slots -> Fibers \cup {Empty}]
    /\ w \in Slots /\ r \in Slots
    /\ newCount \in Nat
    /\ pc \in [Producers -> InPush \cup {"idle", "count"}]
    /\ fiber \in [Producers -> Fibers \cup {Empty}]
    /\ at \in [Producers -> Slots]
    /\ left \in Nat
    /\ taken \in BOOLEAN
    /\ todo \in SUBSET Fibers
    /\ runable \in Seq(Fibers \cup {Empty})
    /\ missed \in BOOLEAN
    /\ pushed \in Seq(Fibers)
    /\ overlapped \in BOOLEAN

Init ==
    /\ buf = [i \in Slots |-> Empty]
    /\ w = 0 /\ r = 0
    /\ newCount = 0
    /\ pc = [a \in Producers |-> "idle"]
    /\ fiber = [a \in Producers |-> Empty]
    /\ at = [a \in Producers |-> 0]
    /\ left = 0
    /\ taken = FALSE
    /\ todo = Fibers
    /\ runable = <<>>
    /\ missed = FALSE
    /\ pushed = <<>>
    /\ overlapped = FALSE

Goto(a, l) == pc' = [pc EXCEPT ![a] = l]

-----------------------------------------------------------------------------
(* Processer::addFiber by producer a *)

Call(a, f) ==
    /\ pc[a] = "idle" /\ f \in todo
    /\ todo' = todo \ {f}
    /\ fiber' = [fiber EXCEPT ![a] = f]
    /\ Goto(a, "load")
    /\ overlapped' = (overlapped \/ \E b \in Producers : pc[b] \in InPush)
    /\ UNCHANGED <<ringVars, newCount, at, consVars, pushed>>

PushLoad(a) ==
    /\ pc[a] = "load"
    /\ at' = [at EXCEPT ![a] = w]
    /\ Goto(a, "test")
    /\ UNCHANGED <<ringVars, newCount, fiber, todo, consVars, pushed, overlapped>>

\* Mutant: the producer does not look for the consumer's index.
NeverFull(i) == FALSE
Full(i) == NextIndex(i) = r

\* A full ring makes push return false; addFiber calls it again at once.
PushTest(a) ==
    /\ pc[a] = "test"
    /\ Goto(a, IF Full(at[a]) THEN "load" ELSE "write")
    /\ UNCHANGED <<ringVars, newCount, fiber, at, todo, consVars, pushed,
                   overlapped>>

PushWrite(a) ==
    /\ pc[a] = "write"
    /\ buf' = [buf EXCEPT ![at[a]] = fiber[a]]
    /\ Goto(a, "store")
    /\ UNCHANGED <<w, r, newCount, fiber, at, todo, consVars, pushed, overlapped>>

PushStore(a) ==
    /\ pc[a] = "store"
    /\ w' = NextIndex(at[a])
    /\ pushed' = Append(pushed, fiber[a])
    /\ Goto(a, "count")
    /\ UNCHANGED <<buf, r, newCount, fiber, at, todo, consVars, overlapped>>

\* Mutant: the fiber is pushed and not counted.
CountAddNothing(a) ==
    /\ pc[a] = "count"
    /\ Goto(a, "idle")
    /\ UNCHANGED <<ringVars, newCount, fiber, at, todo, consVars, pushed,
                   overlapped>>

\* m_newfiberCount.fetch_add(1)
CountAdd(a) ==
    /\ pc[a] = "count"
    /\ newCount' = newCount + 1
    /\ fiber' = [fiber EXCEPT ![a] = Empty]
    /\ at' = [at EXCEPT ![a] = 0]
    /\ Goto(a, "idle")
    /\ UNCHANGED <<ringVars, todo, consVars, pushed, overlapped>>

AddFiber(a) ==
    \/ PushLoad(a) \/ PushTest(a) \/ PushWrite(a) \/ PushStore(a) \/ CountAdd(a)

-----------------------------------------------------------------------------
(* Processer::getNewFibers *)

\* Mutant: the counter is read and not set to 0.
ExchangeReads ==
    /\ left = 0 /\ newCount > 0
    /\ left' = newCount
    /\ UNCHANGED <<ringVars, newCount, prodVars, taken, runable, missed, pushed,
                   overlapped>>

\* compare_exchange_strong(size, 0)
Exchange ==
    /\ left = 0 /\ newCount > 0
    /\ left' = newCount
    /\ newCount' = 0
    /\ UNCHANGED <<ringVars, prodVars, taken, runable, missed, pushed, overlapped>>

\* newQueue.pop(fb): an empty ring ends this turn of the loop; otherwise the
\* slot is moved out and destroyed, and only then released to the producers.
PopTake ==
    /\ left > 0 /\ ~taken
    /\ IF r = w
       THEN /\ left' = left - 1
            /\ missed' = TRUE
            /\ UNCHANGED <<buf, taken, runable>>
       ELSE /\ runable' = Append(runable, buf[r])
            /\ buf' = [buf EXCEPT ![r] = Empty]
            /\ taken' = TRUE
            /\ UNCHANGED <<left, missed>>
    /\ UNCHANGED <<w, r, newCount, prodVars, pushed, overlapped>>

PopRelease ==
    /\ taken
    /\ r' = NextIndex(r)
    /\ taken' = FALSE
    /\ left' = left - 1
    /\ UNCHANGED <<buf, w, newCount, prodVars, runable, missed, pushed, overlapped>>

Consumer == Exchange \/ PopTake \/ PopRelease

Next ==
    \/ Consumer
    \/ \E a \in Producers : AddFiber(a) \/ \E f \in Fibers : Call(a, f)

\* Producers inside addFiber and a consumer inside its pops are scheduled; nothing
\* makes anyone call addFiber, nor the processer call getNewFibers: it may sleep
\* in idle(), run a fiber for ever, or spin in a push of its own.
Fairness ==
    /\ WF_vars(PopTake \/ PopRelease)
    /\ \A a \in Producers : WF_vars(AddFiber(a))

Spec == Init /\ [][Next]_vars
FairSpec == Spec /\ Fairness

-----------------------------------------------------------------------------

\* Slots that are published and not yet released, and those still to be read.
Used == (w + Size - r) % Size
Unread == Used - (IF taken THEN 1 ELSE 0)
FirstUnread == IF taken THEN NextIndex(r) ELSE r
Contents == [i \in 1..Unread |-> buf[(FirstUnread + i - 1) % Size]]
Uncounted == {a \in Producers : pc[a] = "count"}

\* As long as no two pushes overlap, the ring is a queue: what the processer
\* takes, followed by what the ring holds, is what was pushed, in that order.
FifoUnlessOverlap == ~overlapped => runable \o Contents = pushed

\* As long as no two pushes overlap, the counter and the pops still owed for an
\* earlier value of it account for every used slot but those whose adder is yet
\* to count them: a pop of a counted fiber always finds one.
CountedUnlessOverlap ==
    ~overlapped => /\ ~missed
                   /\ left + newCount + Cardinality(Uncounted) = Used

\* The processer stays away from getNewFibers for ever while fibers are counted
\* for it.
StaysAway == <>[](left = 0 /\ newCount > 0)

\* If the processer does not stay away and no two pushes ever overlap, every fiber
\* handed to addFiber reaches the run queue: none is stranded in the ring
\* uncounted, and no producer spins at a full ring for ever (processer.cc:68-72,
\* 185-210).
AllRun ==
    \/ StaysAway
    \/ \A f \in Fibers :
          f \notin todo ~> overlapped \/ \E i \in 1..Len(runable) : runable[i] = f
=============================================================================
