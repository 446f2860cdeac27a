------------------------------ MODULE EventPoller ------------------------------
(***************************************************************************)
(* Events of file descriptors (fiber/poller.cc): threads register, delete  *)
(* and cancel an event of a descriptor, with a callback each, while the    *)
(* poller's thread takes what epoll_wait returned and triggers it.         *)
(*                                                                         *)
(* Every operation holds the mutex of the descriptor's context from its    *)
(* first look at events_ to its last store: it is one action.  What        *)
(* epoll_wait returned is worked off one event at a time.                  *)
(***************************************************************************)
EXTENDS Naturals, FiniteSets

CONSTANTS
    Fds,        \* file descriptors
    Calls,      \* calls of addEvent, each with its callback
    NoCall,
    Wrap        \* bound: m_pendingEventCount is a number modulo Wrap

ASSUME CallAssumption == NoCall \notin Calls
ASSUME WrapAssumption == Wrap \in Nat \ {0}

\* READ is EPOLLIN and WRITE is EPOLLOUT; EPOLLERR and EPOLLHUP are one.
Events == {"READ", "WRITE"}
Hup == "HUP"

VARIABLES
    events,     \* events_ of each context
    cb,         \* cb_ for each event
    sche,       \* the events whose scheduler_ is set
    pending,    \* m_pendingEventCount
    listed,     \* descriptors in epoll's interest list
    interest,   \* with these events
    cond,       \* what a descriptor is ready for
    armed,      \* descriptors whose readiness epoll has yet to report
    batch,      \* what epoll_wait returned and the poller has yet to look at
    crashed,    \* whether a scheduler_ that is not set was followed
    todo,       \* calls of addEvent not made yet
    ends,       \* history: how often each call's callback ran or was deleted
    stray       \* history: whether an event was triggered without being
                \* registered, or registered twice

contexts == <<events, cb, sche, pending, crashed>>
epoll == <<listed, interest, armed>>
vars == <<contexts, epoll, cond, batch, todo, ends, stray>>

TypeOK ==
    /\ events \in [Fds -> SUBSET Events]
    /\ cb \in [Fds -> [Events -> Calls \cup {NoCall}]]
    /\ sche \in [Fds -> SUBSET Events]
    /\ pending \in 0..(Wrap - 1)
    /\ listed \in SUBSET Fds /\ armed \in SUBSET listed
    /\ interest \in [Fds -> SUBSET Events]
    /\ cond \in [Fds -> SUBSET (Events \cup {Hup})]
    /\ batch \in [Fds -> SUBSET (Events \cup {Hup})]
    /\ crashed \in BOOLEAN /\ stray \in BOOLEAN
    /\ todo \in SUBSET Calls
    /\ ends \in [Calls -> Nat]

Init ==
    /\ events = [f \in Fds |-> {}]
    /\ cb = [f \in Fds |-> [e \in Events |-> NoCall]]
    /\ sche = [f \in Fds |-> {}]
    /\ pending = 0
    /\ listed = {} /\ armed = {}
    /\ interest = [f \in Fds |-> {}]
    /\ cond = [f \in Fds |-> {}]
    /\ batch = [f \in Fds |-> {}]
    /\ crashed = FALSE /\ stray = FALSE
    /\ todo = Calls
    /\ ends = [c \in Calls |-> 0]

-----------------------------------------------------------------------------
(* epoll, edge-triggered *)

\* What epoll_wait would report of f, asked for the events of mask.
Report(f, mask) == cond[f] \cap (mask \cup {Hup})

\* epoll_ctl ADD or MOD: f is reported once more if it is ready now.
Ctl(f, mask) ==
    /\ listed' = listed \cup {f}
    /\ interest' = [interest EXCEPT ![f] = mask]
    /\ armed' = IF Report(f, mask) = {} THEN armed \ {f} ELSE armed \cup {f}

CtlDel(f) ==
    /\ listed' = listed \ {f}
    /\ interest' = [interest EXCEPT ![f] = {}]
    /\ armed' = armed \ {f}

\* EPOLL_CTL_ADD fails on a listed descriptor, the others on one that is not.
AddFails(f) == f \in listed
ModFails(f) == f \notin listed

Becomes(f, k) ==
    /\ cond' = [cond EXCEPT ![f] = @ \cup {k}]
    /\ armed' = IF f \in listed /\ k \in interest[f] \cup {Hup}
                THEN armed \cup {f} ELSE armed
    /\ UNCHANGED <<contexts, listed, interest, batch, todo, ends, stray>>

\* Somebody reads or writes.
Ceases(f, k) ==
    /\ k \in cond[f]
    /\ cond' = [cond EXCEPT ![f] = @ \ {k}]
    /\ UNCHANGED <<contexts, epoll, batch, todo, ends, stray>>

-----------------------------------------------------------------------------
(* The operations *)

\* Mutant: an event takes the other one's place in epoll's list.
MaskOfOne(f, e) == {e}
MaskWith(f, e) == events[f] \cup {e}

\* A second call for a registered event takes the first one's place.
AddEvent(f, e, c) ==
    /\ ~crashed /\ c \in todo
    /\ todo' = todo \ {c}
    /\ IF IF events[f] = {} THEN AddFails(f) ELSE ModFails(f)
       THEN UNCHANGED <<contexts, epoll, stray>>
       ELSE /\ Ctl(f, MaskWith(f, e))
            /\ pending' = (pending + 1) % Wrap
            /\ stray' = (stray \/ e \in events[f])
            /\ events' = [events EXCEPT ![f] = @ \cup {e}]
            /\ sche' = [sche EXCEPT ![f] = @ \cup {e}]
            /\ cb' = [cb EXCEPT ![f][e] = c]
            /\ UNCHANGED crashed
    /\ UNCHANGED <<cond, batch, ends>>

\* epoll is told of the events that are left, or to forget the descriptor.
Leaves(f, left) == IF left = {} THEN CtlDel(f) ELSE Ctl(f, left)

\* Mutants: the count does not wrap; it goes down once for all.
MinusUnwrapped(n) == pending - n
MinusOne(n) == (pending + Wrap - 1) % Wrap
Minus(n) == (pending + Wrap - n) % Wrap

\* Mutant: the event stays registered.
StillRegistered(f, set) == events[f]
Unregistered(f, set) == events[f] \ set

\* triggerEvent of every event in set: it is no longer registered, and its
\* callback is launched; cb_ and scheduler_ keep their values.
Trigger(f, set) ==
    /\ events' = [events EXCEPT ![f] = Unregistered(f, set)]
    /\ crashed' = (set \ sche[f] # {})
    /\ pending' = Minus(Cardinality(set))
    /\ ends' = [c \in Calls |-> ends[c] + Cardinality({e \in set : cb[f][e] = c})]
    /\ stray' = (stray \/ set \ events[f] # {})
    /\ UNCHANGED <<cb, sche>>

DelEvent(f, e) ==
    /\ ~crashed /\ e \in events[f] /\ ~ModFails(f)
    /\ Leaves(f, events[f] \ {e})
    /\ pending' = Minus(1)
    /\ events' = [events EXCEPT ![f] = @ \ {e}]
    /\ ends' = [c \in Calls |-> IF cb[f][e] = c THEN ends[c] + 1 ELSE ends[c]]
    /\ cb' = [cb EXCEPT ![f][e] = NoCall]
    /\ sche' = [sche EXCEPT ![f] = @ \ {e}]
    /\ UNCHANGED <<crashed, cond, batch, todo, stray>>

CancelEvent(f, e) ==
    /\ ~crashed /\ e \in events[f] /\ ~ModFails(f)
    /\ Leaves(f, events[f] \ {e})
    /\ Trigger(f, {e})
    /\ UNCHANGED <<cond, batch, todo>>

CancelAll(f) ==
    /\ ~crashed /\ ~ModFails(f)
    /\ CtlDel(f)
    /\ Trigger(f, events[f])
    /\ UNCHANGED <<cond, batch, todo>>

-----------------------------------------------------------------------------
(* Poller::networkPoller *)

Reported == [f \in Fds |-> IF f \in armed THEN Report(f, interest[f]) ELSE {}]

\* epoll_wait
Wait ==
    /\ ~crashed /\ batch = [f \in Fds |-> {}]
    /\ Reported # batch
    /\ batch' = Reported
    /\ armed' = {}
    /\ UNCHANGED <<contexts, listed, interest, cond, todo, ends, stray>>

\* Mutant: errors are not looked at.
RealOfReady(got) ==
    {e \in Events : (e = "READ" /\ "WRITE" \in got) \/ (e = "WRITE" /\ "READ" \in got)}

\* real_events: EPOLLOUT counts as READ and EPOLLIN as WRITE, an error as both.
RealEvents(got) ==
    {e \in Events : \/ Hup \in got
                    \/ e = "READ" /\ "WRITE" \in got
                    \/ e = "WRITE" /\ "READ" \in got}

\* One event of the batch.  Whatever is in real_events is triggered, provided
\* that something in it is registered.
Process(f) ==
    /\ ~crashed /\ batch[f] # {}
    /\ batch' = [batch EXCEPT ![f] = {}]
    /\ LET real == RealEvents(batch[f])
       IN IF events[f] \cap real = {} \/ ModFails(f)
          THEN UNCHANGED <<contexts, epoll, ends, stray>>
          ELSE Leaves(f, events[f] \ real) /\ Trigger(f, real)
    /\ UNCHANGED <<cond, todo>>

PollStep == Wait \/ \E f \in Fds : Process(f)

Call ==
    \E f \in Fds :
        \/ \E e \in Events :
              \/ \E c \in Calls : AddEvent(f, e, c)
              \/ DelEvent(f, e) \/ CancelEvent(f, e)
        \/ CancelAll(f)

Environment ==
    \E f \in Fds :
        \/ \E k \in Events \cup {Hup} : Becomes(f, k)
        \/ \E k \in Events : Ceases(f, k)

Next == PollStep \/ Call \/ Environment

Spec == Init /\ [][Next]_vars

\* The poller's thread is scheduled.  Nobody has to call anything, and no
\* descriptor has to become ready.
FairSpec == Spec /\ WF_vars(PollStep)

-----------------------------------------------------------------------------

\* epoll is interested in what is registered, and in nothing else, whatever
\* operations and stale events come in whatever order (poller.cc:86, 119, 157,
\* 295).
InterestMatches ==
    \A f \in Fds : interest[f] = events[f] /\ (f \in listed <=> events[f] # {})

\* m_pendingEventCount is the number of registered events, and a registration
\* ends once, by its callback or by its deletion: a stale event of the batch
\* does not end one that was cancelled and registered anew a second time.
Registered == {x \in Fds \X Events : x[2] \in events[x[1]]}
PendingMatches == ~stray => pending = Cardinality(Registered) % Wrap
EndsOnce == ~stray => \A c \in Calls : ends[c] <= 1

\* A registered event of a descriptor that has hung up is ended, whether the
\* hang-up came before the registration, after it, or between epoll_wait and
\* the poller's look at the context (EPOLLET reports it once).  An execution in
\* which the poller follows a scheduler_ that is not set ends there.
HangupEnds ==
    \A f \in Fds, e \in Events, c \in Calls :
        (Hup \in cond[f] /\ e \in events[f] /\ cb[f][e] = c)
            ~> (crashed \/ e \notin events[f] \/ cb[f][e] # c)
=============================================================================
