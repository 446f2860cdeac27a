--------------------------- MODULE EventPollerProofs ---------------------------
(***************************************************************************)
(* Theorems about EventPoller, for any number of descriptors and calls.    *)
(***************************************************************************)
EXTENDS EventPoller, FiniteSetTheorems, TLAPS

\* There are at most two events to trigger.
LEMMA FewEvents ==
    ASSUME NEW S \in SUBSET Events
    PROVE  IsFiniteSet(S) /\ Cardinality(S) \in Nat
<1>1. IsFiniteSet(Events)
    <2>1. Events = {"READ"} \cup {"WRITE"}
        BY DEF Events
    <2> QED BY <2>1, FS_Singleton, FS_Union
<1> QED BY <1>1, FS_Subset, FS_CardinalityType

\* A count that wraps stays a count.
LEMMA MinusType ==
    ASSUME NEW n \in Nat, pending \in 0..(Wrap - 1)
    PROVE  Minus(n) \in 0..(Wrap - 1)
BY WrapAssumption DEF Minus

\* A callback that is set or reset leaves a table of callbacks.
LEMMA TableType ==
    ASSUME NEW V, NEW W, NEW T, NEW g \in [V -> [W -> T]],
           NEW v \in V, NEW w \in W, NEW x \in T
    PROVE  [g EXCEPT ![v][w] = x] \in [V -> [W -> T]]
<1>1. [g[v] EXCEPT ![w] = x] \in [W -> T]
    OBVIOUS
<1> QED BY <1>1

-----------------------------------------------------------------------------
(* Types *)

\* What Trigger leaves behind is well typed.
LEMMA TriggerType ==
    ASSUME TypeOK, NEW f \in Fds, NEW S \in SUBSET Events, Trigger(f, S)
    PROVE  /\ events' \in [Fds -> SUBSET Events]
           /\ cb' \in [Fds -> [Events -> Calls \cup {NoCall}]]
           /\ sche' \in [Fds -> SUBSET Events]
           /\ pending' \in 0..(Wrap - 1)
           /\ crashed' \in BOOLEAN /\ stray' \in BOOLEAN
           /\ ends' \in [Calls -> Nat]
<1>1. events' \in [Fds -> SUBSET Events]
    BY DEF TypeOK, Trigger, Unregistered
<1>2. pending' \in 0..(Wrap - 1)
    BY FewEvents, MinusType DEF TypeOK, Trigger
<1>3. ends' \in [Calls -> Nat]
    <2>1. \A c \in Calls : Cardinality({e \in S : cb[f][e] = c}) \in Nat
        BY FewEvents
    <2> QED BY <2>1 DEF TypeOK, Trigger
<1>4. stray' \in BOOLEAN /\ crashed' \in BOOLEAN
    BY DEF TypeOK, Trigger
<1> QED BY <1>1, <1>2, <1>3, <1>4 DEF TypeOK, Trigger

\* What epoll_ctl leaves behind is well typed.
LEMMA LeavesType ==
    ASSUME TypeOK, NEW f \in Fds, NEW S \in SUBSET Events,
           Leaves(f, S) \/ Ctl(f, S) \/ CtlDel(f)
    PROVE  /\ listed' \in SUBSET Fds /\ armed' \in SUBSET listed'
           /\ interest' \in [Fds -> SUBSET Events]
BY DEF TypeOK, Leaves, Ctl, CtlDel

\* Every table, count and flag of the poller keeps its type, the wrapping count
\* of pending events among them.
LEMMA TypeStep == TypeOK /\ [Next]_vars => TypeOK'
<1> SUFFICES ASSUME TypeOK, [Next]_vars PROVE TypeOK'
    OBVIOUS
<1>1. ASSUME Wait PROVE TypeOK'
    BY <1>1 DEF TypeOK, Wait, Reported, Report, contexts
<1>2. ASSUME NEW f \in Fds, Process(f) PROVE TypeOK'
    <2> DEFINE real == RealEvents(batch[f])
    <2>1. real \in SUBSET Events /\ events[f] \ real \in SUBSET Events
        BY DEF RealEvents, TypeOK
    <2>2. CASE events[f] \cap real = {} \/ ModFails(f)
        BY <1>2, <2>2 DEF Process, TypeOK, contexts, epoll
    <2>3. CASE ~(events[f] \cap real = {} \/ ModFails(f))
        <3> HIDE DEF real
        <3>1. Leaves(f, events[f] \ real) /\ Trigger(f, real)
            BY <1>2, <2>3 DEF Process, real
        <3> QED BY <1>2, <2>1, <3>1, LeavesType, TriggerType DEF Process, TypeOK
    <2> QED BY <2>2, <2>3
<1>3. ASSUME NEW f \in Fds, NEW e \in Events, NEW c \in Calls, AddEvent(f, e, c)
      PROVE  TypeOK'
    <2>1. CASE IF events[f] = {} THEN AddFails(f) ELSE ModFails(f)
        BY <1>3, <2>1 DEF AddEvent, TypeOK, contexts, epoll
    <2>2. CASE ~IF events[f] = {} THEN AddFails(f) ELSE ModFails(f)
        <3>1. MaskWith(f, e) \in SUBSET Events
            BY DEF MaskWith, TypeOK
        <3>2. pending' \in 0..(Wrap - 1)
            BY <1>3, <2>2, WrapAssumption DEF AddEvent, TypeOK
        <3>3. cb' \in [Fds -> [Events -> Calls \cup {NoCall}]]
            <4>1. cb' = [cb EXCEPT ![f][e] = c] /\ c \in Calls \cup {NoCall}
                BY <1>3, <2>2 DEF AddEvent
            <4>2. cb \in [Fds -> [Events -> Calls \cup {NoCall}]]
                BY DEF TypeOK
            <4> QED BY <4>1, <4>2, TableType
        <3>4. /\ listed' \in SUBSET Fds /\ armed' \in SUBSET listed'
              /\ interest' \in [Fds -> SUBSET Events]
            BY <1>3, <2>2, <3>1, LeavesType DEF AddEvent
        <3>5. events' \in [Fds -> SUBSET Events]
            BY <1>3, <2>2 DEF AddEvent, TypeOK
        <3>6. sche' \in [Fds -> SUBSET Events]
            BY <1>3, <2>2 DEF AddEvent, TypeOK
        <3>7. stray' \in BOOLEAN /\ crashed' \in BOOLEAN
            <4>1. stray' = (stray \/ e \in events[f]) /\ crashed' = crashed
                BY <1>3, <2>2 DEF AddEvent
            <4> QED BY <4>1 DEF TypeOK
        <3> QED BY <1>3, <3>2, <3>3, <3>4, <3>5, <3>6, <3>7 DEF AddEvent, TypeOK
    <2> QED BY <2>1, <2>2
<1>4. ASSUME NEW f \in Fds, NEW e \in Events, DelEvent(f, e) PROVE TypeOK'
    <2>1. events[f] \ {e} \in SUBSET Events
        BY DEF TypeOK
    <2>2. pending' \in 0..(Wrap - 1)
        BY <1>4, MinusType DEF DelEvent, TypeOK
    <2>3. ends' \in [Calls -> Nat]
        BY <1>4 DEF DelEvent, TypeOK
    <2>4. cb' \in [Fds -> [Events -> Calls \cup {NoCall}]]
        <3>1. cb' = [cb EXCEPT ![f][e] = NoCall] /\ NoCall \in Calls \cup {NoCall}
            BY <1>4 DEF DelEvent
        <3>2. cb \in [Fds -> [Events -> Calls \cup {NoCall}]]
            BY DEF TypeOK
        <3> QED BY <3>1, <3>2, TableType
    <2> QED BY <1>4, <2>1, <2>2, <2>3, <2>4, LeavesType DEF DelEvent, TypeOK
<1>5. ASSUME NEW f \in Fds, NEW e \in Events, CancelEvent(f, e) PROVE TypeOK'
    <2>1. events[f] \ {e} \in SUBSET Events /\ {e} \in SUBSET Events
        BY DEF TypeOK
    <2> QED BY <1>5, <2>1, LeavesType, TriggerType DEF CancelEvent, TypeOK
<1>6. ASSUME NEW f \in Fds, CancelAll(f) PROVE TypeOK'
    <2>1. events[f] \in SUBSET Events
        BY DEF TypeOK
    <2> QED BY <1>6, <2>1, LeavesType, TriggerType DEF CancelAll, TypeOK
<1>7. ASSUME NEW f \in Fds, NEW k \in Events \cup {Hup}, Becomes(f, k)
      PROVE  TypeOK'
    BY <1>7 DEF Becomes, TypeOK, contexts
<1>8. ASSUME NEW f \in Fds, NEW k \in Events, Ceases(f, k) PROVE TypeOK'
    BY <1>8 DEF Ceases, TypeOK, contexts, epoll
<1>9. CASE UNCHANGED vars
    BY <1>9 DEF vars, contexts, epoll, TypeOK
<1> QED BY <1>1, <1>2, <1>3, <1>4, <1>5, <1>6, <1>7, <1>8, <1>9
       DEF Next, PollStep, Call, Environment

\* At the start everything has its type.
LEMMA TypeInit == Init => TypeOK
<1> SUFFICES ASSUME Init PROVE TypeOK
    OBVIOUS
<1>1. pending \in 0..(Wrap - 1)
    BY WrapAssumption DEF Init
<1>2. cb \in [Fds -> [Events -> Calls \cup {NoCall}]]
    BY DEF Init
<1>3. ends \in [Calls -> Nat]
    BY DEF Init
<1> QED BY <1>1, <1>2, <1>3 DEF Init, TypeOK

\* For any descriptors, calls and width of the count, every table of the poller
\* keeps its type through registration, cancellation and delivery.
THEOREM EventTypes == Spec => []TypeOK
BY TypeInit, TypeStep, PTL DEF Spec

-----------------------------------------------------------------------------
(* epoll's interest list *)

\* Every operation leaves epoll with the events the context has registered.
LEMMA InterestStep == TypeOK /\ InterestMatches /\ [Next]_vars => InterestMatches'
<1> SUFFICES ASSUME TypeOK, InterestMatches, [Next]_vars
             PROVE  InterestMatches'
    OBVIOUS
<1>1. ASSUME UNCHANGED <<listed, interest, events>> PROVE InterestMatches'
    BY <1>1 DEF InterestMatches
\* epoll is told what events_ becomes.
<1>2. ASSUME NEW f \in Fds, NEW S, Ctl(f, S), S # {},
             events' = [events EXCEPT ![f] = S]
      PROVE  InterestMatches'
    BY <1>2 DEF InterestMatches, Ctl, TypeOK
<1>3. ASSUME NEW f \in Fds, CtlDel(f), events' = [events EXCEPT ![f] = {}]
      PROVE  InterestMatches'
    BY <1>3 DEF InterestMatches, CtlDel, TypeOK
<1>4. ASSUME NEW f \in Fds, NEW S, Leaves(f, S), events' = [events EXCEPT ![f] = S]
      PROVE  InterestMatches'
    BY <1>2, <1>3, <1>4 DEF Leaves
<1>5. ASSUME Wait PROVE InterestMatches'
    BY <1>1, <1>5 DEF Wait, contexts
<1>6. ASSUME NEW f \in Fds, Process(f) PROVE InterestMatches'
    <2> DEFINE real == RealEvents(batch[f])
    <2>1. CASE events[f] \cap real = {} \/ ModFails(f)
        BY <1>1, <1>6, <2>1 DEF Process, contexts, epoll
    <2>2. CASE ~(events[f] \cap real = {} \/ ModFails(f))
        <3> HIDE DEF real
        <3>1. Leaves(f, events[f] \ real) /\ Trigger(f, real)
            BY <1>6, <2>2 DEF Process, real
        <3> QED BY <1>4, <3>1 DEF Trigger, Unregistered
    <2> QED BY <2>1, <2>2
<1>7. ASSUME NEW f \in Fds, NEW e \in Events, NEW c \in Calls, AddEvent(f, e, c)
      PROVE  InterestMatches'
    <2>1. CASE IF events[f] = {} THEN AddFails(f) ELSE ModFails(f)
        BY <1>1, <1>7, <2>1 DEF AddEvent, contexts, epoll
    <2>2. CASE ~IF events[f] = {} THEN AddFails(f) ELSE ModFails(f)
        <3>1. /\ Ctl(f, events[f] \cup {e})
              /\ events' = [events EXCEPT ![f] = events[f] \cup {e}]
            BY <1>7, <2>2 DEF AddEvent, MaskWith
        <3> QED BY <1>2, <3>1
    <2> QED BY <2>1, <2>2
<1>8. ASSUME NEW f \in Fds, NEW e \in Events, DelEvent(f, e) PROVE InterestMatches'
    BY <1>4, <1>8 DEF DelEvent
<1>9. ASSUME NEW f \in Fds, NEW e \in Events, CancelEvent(f, e)
      PROVE  InterestMatches'
    BY <1>4, <1>9 DEF CancelEvent, Trigger, Unregistered
<1>10. ASSUME NEW f \in Fds, CancelAll(f) PROVE InterestMatches'
    <2>1. events[f] \ events[f] = {}
        OBVIOUS
    <2> QED BY <1>3, <1>10, <2>1 DEF CancelAll, Trigger, Unregistered
<1>11. ASSUME NEW f \in Fds, NEW k \in Events \cup {Hup}, Becomes(f, k)
       PROVE  InterestMatches'
    BY <1>1, <1>11 DEF Becomes, contexts
<1>12. ASSUME NEW f \in Fds, NEW k \in Events, Ceases(f, k) PROVE InterestMatches'
    BY <1>1, <1>12 DEF Ceases, contexts, epoll
<1>13. CASE UNCHANGED vars
    BY <1>1, <1>13 DEF vars, contexts, epoll
<1> QED BY <1>5, <1>6, <1>7, <1>8, <1>9, <1>10, <1>11, <1>12, <1>13
       DEF Next, PollStep, Call, Environment

\* However many descriptors there are, and in whatever order threads register
\* and cancel and the poller works off what epoll_wait returned earlier, epoll
\* waits for the registered events and for nothing else.
THEOREM InterestAlwaysMatches == Spec => []InterestMatches
<1>1. Init => InterestMatches
    BY DEF Init, InterestMatches
<1> QED BY <1>1, InterestStep, EventTypes, PTL DEF Spec

-----------------------------------------------------------------------------
(* Each registration ends once *)

\* What makes EndsOnce inductive: a call that was not made has no callback
\* registered and no end; a registered callback is that of one call, at one
\* place, and has not ended.
Fresh == \A c \in todo :
    ends[c] = 0 /\ \A f \in Fds : \A e \in events[f] : cb[f][e] # c
Unended == \A f \in Fds : \A e \in events[f] :
    cb[f][e] \in Calls /\ ends[cb[f][e]] = 0
Single == \A f, g \in Fds : \A e \in events[f], d \in events[g] :
    cb[f][e] = cb[g][d] => (f = g /\ e = d)
AtMostOnce == \A c \in Calls : ends[c] <= 1

EndsGood == Fresh /\ Unended /\ Single /\ AtMostOnce
EndsInv == ~stray => EndsGood

\* The counts of a registration that ends go from 0 to 1, and no others change.
LEMMA EndsCount ==
    ASSUME TypeOK, EndsGood, NEW f \in Fds, NEW S \in SUBSET events[f],
           NEW c \in Calls
    PROVE  Cardinality({e \in S : cb[f][e] = c}) =
               IF \E e \in S : cb[f][e] = c THEN 1 ELSE 0
<1>1. CASE \E e \in S : cb[f][e] = c
    <2>1. PICK e \in S : cb[f][e] = c
        BY <1>1
    <2>2. {d \in S : cb[f][d] = c} = {e}
        BY <2>1 DEF EndsGood, Single
    <2> QED BY <1>1, <2>2, FS_Singleton
<1>2. CASE ~\E e \in S : cb[f][e] = c
    <2>1. {d \in S : cb[f][d] = c} = {}
        BY <1>2
    <2> QED BY <1>2, <2>1, FS_EmptySet
<1> QED BY <1>1, <1>2

\* Registrations that end, by callback or by deletion.
LEMMA EndsOf ==
    ASSUME TypeOK, EndsGood, NEW f \in Fds, NEW S \in SUBSET events[f],
           events' = [events EXCEPT ![f] = events[f] \ S],
           \A g \in Fds : \A d \in events'[g] : cb'[g][d] = cb[g][d],
           ends' = [c \in Calls |-> ends[c] +
                        IF \E e \in S : cb[f][e] = c THEN 1 ELSE 0],
           todo' = todo
    PROVE  EndsGood'
<1> USE DEF EndsGood
<1>1. \A g \in Fds : \A d \in events'[g] :
          d \in events[g] /\ (g = f => d \notin S)
    BY DEF TypeOK
<1>2. \A c \in Calls : ends'[c] = IF \E e \in S : cb[f][e] = c THEN 1 ELSE ends[c]
    <2> SUFFICES ASSUME NEW c \in Calls
                 PROVE  ends'[c] = IF \E e \in S : cb[f][e] = c THEN 1 ELSE ends[c]
        OBVIOUS
    <2>1. ends[c] \in Nat
        BY DEF TypeOK
    <2>2. (\E e \in S : cb[f][e] = c) => ends[c] = 0
        BY DEF Unended
    <2> QED BY <2>1, <2>2
<1>3. Fresh'
    <2> SUFFICES ASSUME NEW c \in todo
                 PROVE  ends'[c] = 0 /\ \A g \in Fds : \A d \in events'[g] :
                                            cb'[g][d] # c
        BY DEF Fresh
    <2>1. c \in Calls /\ ends[c] = 0
        BY DEF Fresh, TypeOK
    <2>2. ~\E e \in S : cb[f][e] = c
        BY DEF Fresh
    <2>3. \A g \in Fds : \A d \in events[g] : cb[g][d] # c
        BY DEF Fresh
    <2> QED BY <1>1, <1>2, <2>1, <2>2, <2>3
<1>4. Single'
    BY <1>1 DEF Single
<1>5. Unended'
    <2> SUFFICES ASSUME NEW g \in Fds, NEW d \in events'[g]
                 PROVE  cb'[g][d] \in Calls /\ ends'[cb'[g][d]] = 0
        BY DEF Unended
    <2>1. /\ d \in events[g] /\ (g = f => d \notin S) /\ cb'[g][d] = cb[g][d]
          /\ cb[g][d] \in Calls /\ ends[cb[g][d]] = 0
        BY <1>1 DEF Unended
    <2>2. ~\E e \in S : cb[f][e] = cb[g][d]
        BY <2>1 DEF Single
    <2> QED BY <1>2, <2>1, <2>2
<1>6. AtMostOnce'
    BY <1>2 DEF AtMostOnce
<1> QED BY <1>3, <1>4, <1>5, <1>6

\* triggerEvent of registered events.
LEMMA EndsTrigger ==
    ASSUME TypeOK, EndsInv, NEW f \in Fds, NEW S \in SUBSET Events,
           Trigger(f, S), todo' = todo
    PROVE  EndsInv'
<1> SUFFICES ASSUME ~stray' PROVE EndsGood'
    BY DEF EndsInv
<1>1. ~stray /\ S \in SUBSET events[f]
    BY DEF Trigger
<1>2. EndsGood
    BY <1>1 DEF EndsInv
<1>3. ends' = [c \in Calls |-> ends[c] +
                   IF \E e \in S : cb[f][e] = c THEN 1 ELSE 0]
    BY <1>1, <1>2, EndsCount DEF Trigger
<1>4. events' = [events EXCEPT ![f] = events[f] \ S] /\ cb' = cb
    BY DEF Trigger, Unregistered
<1> QED BY <1>1, <1>2, <1>3, <1>4, EndsOf

\* Every operation keeps each call's callback in one place or ended once.
LEMMA EndsStep == TypeOK /\ EndsInv /\ [Next]_vars => EndsInv'
<1> SUFFICES ASSUME TypeOK, EndsInv, [Next]_vars PROVE EndsInv'
    OBVIOUS
<1>1. ASSUME UNCHANGED <<stray, todo, ends, events, cb>> PROVE EndsInv'
    BY <1>1 DEF EndsInv, EndsGood, Fresh, Unended, Single, AtMostOnce
<1>2. ASSUME Wait PROVE EndsInv'
    BY <1>1, <1>2 DEF Wait, contexts
<1>3. ASSUME NEW f \in Fds, Process(f) PROVE EndsInv'
    <2> DEFINE real == RealEvents(batch[f])
    <2>1. CASE events[f] \cap real = {} \/ ModFails(f)
        BY <1>1, <1>3, <2>1 DEF Process, contexts
    <2>2. CASE ~(events[f] \cap real = {} \/ ModFails(f))
        <3>1. real \in SUBSET Events
            BY DEF RealEvents
        <3> HIDE DEF real
        <3>2. Trigger(f, real) /\ todo' = todo
            BY <1>3, <2>2 DEF Process, real
        <3> QED BY <3>1, <3>2, EndsTrigger
    <2> QED BY <2>1, <2>2
<1>4. ASSUME NEW f \in Fds, NEW e \in Events, NEW c \in Calls, AddEvent(f, e, c)
      PROVE  EndsInv'
    <2> SUFFICES ASSUME ~stray' PROVE EndsGood'
        BY DEF EndsInv
    <2>1. c \in todo /\ todo' = todo \ {c} /\ ends' = ends
        BY <1>4 DEF AddEvent
    <2>2. CASE IF events[f] = {} THEN AddFails(f) ELSE ModFails(f)
        <3>1. UNCHANGED <<events, cb, stray>>
            BY <1>4, <2>2 DEF AddEvent, contexts
        <3> QED BY <2>1, <3>1 DEF EndsInv, EndsGood, Fresh, Unended, Single, AtMostOnce
    <2>3. CASE ~IF events[f] = {} THEN AddFails(f) ELSE ModFails(f)
        <3>1. /\ ~stray /\ e \notin events[f]
              /\ events' = [events EXCEPT ![f] = events[f] \cup {e}]
              /\ cb' = [cb EXCEPT ![f][e] = c]
            BY <1>4, <2>3 DEF AddEvent
        <3>2. EndsGood
            BY <3>1 DEF EndsInv
        <3>3. \A g \in Fds : \A d \in events'[g] :
                  \/ g = f /\ d = e /\ cb'[g][d] = c
                  \/ d \in events[g] /\ cb'[g][d] = cb[g][d]
            BY <3>1 DEF TypeOK
        <3>4. /\ c \in Calls /\ ends[c] = 0
              /\ \A g \in Fds : \A d \in events[g] : cb[g][d] # c
            BY <2>1, <3>2 DEF EndsGood, Fresh, TypeOK
        <3>5. Fresh'
            BY <2>1, <3>2, <3>3 DEF EndsGood, Fresh
        <3>6. Unended'
            BY <2>1, <3>2, <3>3, <3>4 DEF EndsGood, Unended
        <3>7. Single'
            BY <3>2, <3>3, <3>4 DEF EndsGood, Single
        <3>8. AtMostOnce'
            BY <2>1, <3>2 DEF EndsGood, AtMostOnce
        <3> QED BY <3>5, <3>6, <3>7, <3>8 DEF EndsGood
    <2> QED BY <2>2, <2>3
<1>5. ASSUME NEW f \in Fds, NEW e \in Events, DelEvent(f, e) PROVE EndsInv'
    <2> SUFFICES ASSUME ~stray PROVE EndsGood'
        BY <1>5 DEF EndsInv, DelEvent
    <2>1. EndsGood
        BY DEF EndsInv
    <2>2. /\ e \in events[f] /\ todo' = todo
          /\ events' = [events EXCEPT ![f] = events[f] \ {e}]
        BY <1>5 DEF DelEvent
    <2>3. \A g \in Fds : \A d \in events'[g] : cb'[g][d] = cb[g][d]
        <3>1. cb' = [cb EXCEPT ![f][e] = NoCall]
            BY <1>5 DEF DelEvent
        <3> QED BY <2>2, <3>1 DEF TypeOK
    <2>4. ends' = [c \in Calls |-> ends[c] +
                       IF \E d \in {e} : cb[f][d] = c THEN 1 ELSE 0]
        <3>1. ends' = [c \in Calls |-> IF cb[f][e] = c THEN ends[c] + 1 ELSE ends[c]]
            BY <1>5 DEF DelEvent
        <3>2. \A c \in Calls : ends[c] \in Nat
            BY DEF TypeOK
        <3>3. \A c \in Calls :
                  (IF cb[f][e] = c THEN ends[c] + 1 ELSE ends[c])
                  = ends[c] + IF \E d \in {e} : cb[f][d] = c THEN 1 ELSE 0
            BY <3>2
        <3> QED BY <3>1, <3>3
    <2>5. {e} \in SUBSET events[f]
        BY <2>2
    <2> QED BY <2>1, <2>2, <2>3, <2>4, <2>5, EndsOf
<1>6. ASSUME NEW f \in Fds, NEW e \in Events, CancelEvent(f, e) PROVE EndsInv'
    <2>1. Trigger(f, {e}) /\ todo' = todo
        BY <1>6 DEF CancelEvent
    <2> QED BY <2>1, EndsTrigger
<1>7. ASSUME NEW f \in Fds, CancelAll(f) PROVE EndsInv'
    <2>1. Trigger(f, events[f]) /\ todo' = todo /\ events[f] \in SUBSET Events
        BY <1>7 DEF CancelAll, TypeOK
    <2> QED BY <2>1, EndsTrigger
<1>8. ASSUME NEW f \in Fds, NEW k \in Events \cup {Hup}, Becomes(f, k)
      PROVE  EndsInv'
    BY <1>1, <1>8 DEF Becomes, contexts
<1>9. ASSUME NEW f \in Fds, NEW k \in Events, Ceases(f, k) PROVE EndsInv'
    BY <1>1, <1>9 DEF Ceases, contexts
<1>10. CASE UNCHANGED vars
    BY <1>1, <1>10 DEF vars, contexts
<1> QED BY <1>2, <1>3, <1>4, <1>5, <1>6, <1>7, <1>8, <1>9, <1>10
       DEF Next, PollStep, Call, Environment

\* For any descriptors and calls: while no event was triggered that was not
\* registered, and none registered twice, every registration ends at most once,
\* by its callback or its deletion, stale events of the batch or not.
THEOREM EndsAtMostOnce == Spec => []EndsOnce
<1>1. Init => EndsInv
    BY DEF Init, EndsInv, EndsGood, Fresh, Unended, Single, AtMostOnce
<1>2. EndsInv => EndsOnce
    BY DEF EndsInv, EndsGood, AtMostOnce, EndsOnce
<1> QED BY <1>1, <1>2, EndsStep, EventTypes, PTL DEF Spec

-----------------------------------------------------------------------------
(* The count of registered events *)

\* Adding a multiple of the modulus changes no remainder.
LEMMA SameRest ==
    ASSUME NEW w \in Nat \ {0}, NEW a \in Int, NEW k \in Int
    PROVE  (a + w * k) % w = a % w
<1> DEFINE q == a \div w
           r == a % w
<1>1. q \in Int /\ r \in 0..(w - 1) /\ r = a - w * q
    OBVIOUS
<1>2. a + w * k = w * (q + k) + r
    BY <1>1
<1>3. (w * (q + k) + r) % w = r
    <2>1. q + k \in Int
        BY <1>1
    <2> HIDE DEF q, r
    <2> QED BY <1>1, <2>1
<1> QED BY <1>2, <1>3

\* A count that wraps goes on counting.
LEMMA WrappedCount ==
    ASSUME NEW n \in Nat, pending = n % Wrap
    PROVE  /\ (pending + 1) % Wrap = (n + 1) % Wrap
           /\ \A m \in 0..n : Minus(m) = (n - m) % Wrap
<1> USE WrapAssumption
<1> DEFINE q == n \div Wrap
<1>1. q \in Int /\ pending \in 0..(Wrap - 1) /\ pending = n - Wrap * q
    OBVIOUS
<1> HIDE DEF q
<1>2. (pending + 1) % Wrap = (n + 1) % Wrap
    <2>1. n + 1 = (pending + 1) + Wrap * q /\ pending + 1 \in Int
        BY <1>1
    <2>2. ((pending + 1) + Wrap * q) % Wrap = (pending + 1) % Wrap
        BY <1>1, <2>1, SameRest
    <2> QED BY <2>1, <2>2
<1>3. ASSUME NEW m \in 0..n PROVE Minus(m) = (n - m) % Wrap
    <2>1. n - m = (pending + Wrap - m) + Wrap * (q - 1)
        BY <1>1
    <2>2. pending + Wrap - m \in Int /\ q - 1 \in Int
        BY <1>1
    <2>3. ((pending + Wrap - m) + Wrap * (q - 1)) % Wrap = (pending + Wrap - m) % Wrap
        BY <2>2, SameRest
    <2> QED BY <2>1, <2>3 DEF Minus
<1> QED BY <1>2, <1>3

CountInv == IsFiniteSet(Registered) /\ PendingMatches

\* Registrations that end together go down in the count together.
LEMMA CountTrigger ==
    ASSUME TypeOK, CountInv, NEW f \in Fds, NEW S \in SUBSET Events,
           events' = [events EXCEPT ![f] = events[f] \ S],
           pending' = Minus(Cardinality(S)), ~stray' => ~stray /\ S \ events[f] = {}
    PROVE  CountInv'
<1> DEFINE gone == {f} \X S
<1>1. Registered' = Registered \ gone
    BY DEF Registered, TypeOK
<1>2. IsFiniteSet(Registered')
    BY <1>1, FS_Difference DEF CountInv
<1>3. ASSUME ~stray' PROVE pending' = Cardinality(Registered') % Wrap
    <2>1. ~stray /\ S \subseteq events[f]
        BY <1>3
    <2>2. gone \subseteq Registered
        BY <2>1 DEF Registered, TypeOK
    <2>3. IsFiniteSet(S) /\ Cardinality(gone) = Cardinality(S) /\ Cardinality(S) \in Nat
        <3>1. IsFiniteSet(S) /\ Cardinality(S) \in Nat
            BY FewEvents
        <3>2. IsFiniteSet({f}) /\ Cardinality({f}) = 1
            BY FS_Singleton
        <3>3. Cardinality(gone) = Cardinality({f}) * Cardinality(S)
            BY <3>1, <3>2, FS_Product
        <3> QED BY <3>1, <3>2, <3>3
    <2>4. /\ Cardinality(Registered') = Cardinality(Registered) - Cardinality(S)
          /\ Cardinality(Registered) \in Nat /\ Cardinality(Registered') \in Nat
        <3>1. Registered \cap gone = gone
            BY <2>2
        <3>2. Cardinality(Registered \ gone)
                = Cardinality(Registered) - Cardinality(Registered \cap gone)
            BY FS_Difference DEF CountInv
        <3>3. Cardinality(Registered) \in Nat /\ Cardinality(Registered') \in Nat
            BY <1>2, FS_CardinalityType DEF CountInv
        <3> QED BY <1>1, <2>3, <3>1, <3>2, <3>3
    <2>5. pending = Cardinality(Registered) % Wrap
        BY <2>1 DEF CountInv, PendingMatches
    <2>6. PICK n \in Nat, m \in Nat : n = Cardinality(Registered) /\ m = Cardinality(S)
        BY <2>3, <2>4
    <2>7. m \in 0..n /\ Cardinality(Registered') = n - m
        BY <2>4, <2>6
    <2> QED BY <2>5, <2>6, <2>7, WrappedCount
<1> QED BY <1>2, <1>3 DEF CountInv, PendingMatches

\* Every operation changes m_pendingEventCount by what it registers or ends.
LEMMA CountStep == TypeOK /\ CountInv /\ [Next]_vars => CountInv'
<1> SUFFICES ASSUME TypeOK, CountInv, [Next]_vars PROVE CountInv'
    OBVIOUS
<1>1. ASSUME UNCHANGED <<stray, events, pending>> PROVE CountInv'
    BY <1>1 DEF CountInv, PendingMatches, Registered
<1>2. ASSUME NEW f \in Fds, NEW S \in SUBSET Events, Trigger(f, S) PROVE CountInv'
    BY <1>2, CountTrigger DEF Trigger, Unregistered
<1>3. ASSUME Wait PROVE CountInv'
    BY <1>1, <1>3 DEF Wait, contexts
<1>4. ASSUME NEW f \in Fds, Process(f) PROVE CountInv'
    <2> DEFINE real == RealEvents(batch[f])
    <2>1. CASE events[f] \cap real = {} \/ ModFails(f)
        BY <1>1, <1>4, <2>1 DEF Process, contexts
    <2>2. CASE ~(events[f] \cap real = {} \/ ModFails(f))
        <3>1. real \in SUBSET Events
            BY DEF RealEvents
        <3> HIDE DEF real
        <3>2. Trigger(f, real)
            BY <1>4, <2>2 DEF Process, real
        <3> QED BY <1>2, <3>1, <3>2
    <2> QED BY <2>1, <2>2
<1>5. ASSUME NEW f \in Fds, NEW e \in Events, NEW c \in Calls, AddEvent(f, e, c)
      PROVE  CountInv'
    <2>1. CASE IF events[f] = {} THEN AddFails(f) ELSE ModFails(f)
        BY <1>1, <1>5, <2>1 DEF AddEvent, contexts
    <2>2. CASE ~IF events[f] = {} THEN AddFails(f) ELSE ModFails(f)
        <3>1. /\ pending' = (pending + 1) % Wrap
              /\ stray' = (stray \/ e \in events[f])
              /\ events' = [events EXCEPT ![f] = @ \cup {e}]
            BY <1>5, <2>2 DEF AddEvent
        <3>2. Registered' = Registered \cup {<<f, e>>}
            BY <3>1 DEF Registered, TypeOK
        <3>3. IsFiniteSet(Registered')
            BY <3>2, FS_AddElement DEF CountInv
        <3>4. ASSUME ~stray' PROVE pending' = Cardinality(Registered') % Wrap
            <4>1. ~stray /\ <<f, e>> \notin Registered
                BY <3>1, <3>4 DEF Registered
            <4>2. Cardinality(Registered') = Cardinality(Registered) + 1
                BY <3>2, <4>1, FS_AddElement DEF CountInv
            <4>3. Cardinality(Registered) \in Nat
                BY FS_CardinalityType DEF CountInv
            <4>4. pending = Cardinality(Registered) % Wrap
                BY <4>1 DEF CountInv, PendingMatches
            <4> QED BY <3>1, <4>2, <4>3, <4>4, WrappedCount
        <3> QED BY <3>3, <3>4 DEF CountInv, PendingMatches
    <2> QED BY <2>1, <2>2
<1>6. ASSUME NEW f \in Fds, NEW e \in Events, DelEvent(f, e) PROVE CountInv'
    <2>1. Cardinality({e}) = 1
        BY FS_Singleton
    <2>2. /\ events' = [events EXCEPT ![f] = events[f] \ {e}]
          /\ pending' = Minus(Cardinality({e}))
          /\ stray' = stray /\ {e} \ events[f] = {}
        BY <1>6, <2>1 DEF DelEvent
    <2> QED BY <2>2, CountTrigger
<1>7. ASSUME NEW f \in Fds, NEW e \in Events, CancelEvent(f, e) PROVE CountInv'
    BY <1>2, <1>7 DEF CancelEvent
<1>8. ASSUME NEW f \in Fds, CancelAll(f) PROVE CountInv'
    BY <1>2, <1>8 DEF CancelAll, TypeOK
<1>9. ASSUME NEW f \in Fds, NEW k, Becomes(f, k) \/ Ceases(f, k) PROVE CountInv'
    BY <1>1, <1>9 DEF Becomes, Ceases, contexts
<1>10. CASE UNCHANGED vars
    BY <1>1, <1>10 DEF vars, contexts
<1> QED BY <1>3, <1>4, <1>5, <1>6, <1>7, <1>8, <1>9, <1>10
       DEF Next, PollStep, Call, Environment

\* m_pendingEventCount is the number of registered events, modulo its width, for any
\* width: deletions, cancellations and triggers of several events at once count each
\* event once (poller.cc:95, 136, 174, 202, 309).
THEOREM CountMatchesEvents == Spec => []PendingMatches
<1>1. Init => CountInv
    <2> SUFFICES ASSUME Init PROVE CountInv
        OBVIOUS
    <2>1. Registered = {}
        BY DEF Init, Registered
    <2>2. 0 % Wrap = 0
        <3>1. (Wrap * 0 + 0) % Wrap = 0
            BY WrapAssumption
        <3> QED BY <3>1, WrapAssumption
    <2> QED BY <2>1, <2>2, FS_EmptySet DEF Init, CountInv, PendingMatches
<1>2. CountInv => PendingMatches
    BY DEF CountInv
<1> QED BY <1>1, <1>2, CountStep, EventTypes, PTL DEF Spec
=============================================================================
