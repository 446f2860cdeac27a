---------------------------- MODULE NewQueueProofs ----------------------------
(***************************************************************************)
(* Proofs about NewQueue, for any set of producers, any fibers and any     *)
(* capacity: as long as no two pushes overlap, the ring is a queue, and    *)
(* the counter accounts for what is in it.                                 *)
(***************************************************************************)
EXTENDS NewQueue, FiniteSetTheorems, SequenceTheorems, TLAPS

-----------------------------------------------------------------------------
(* The inductive invariant *)

\* Who is inside addFiber has a fiber to add.
HasFiber == \A a \in Producers : pc[a] # "idle" => fiber[a] \in Fibers

\* A pop that has read its slot was owed.
Owed == taken => left > 0

\* The single producer inside push has loaded the present index, found room behind
\* it and, before it stores, written its fiber there.
OnePush == \A a, b \in Producers : pc[a] \in InPush /\ pc[b] \in InPush => a = b
PushOf(a) ==
    /\ pc[a] \in {"test", "write", "store"} => at[a] = w
    /\ pc[a] \in {"write", "store"} => ~Full(w)
    /\ pc[a] = "store" => buf[w] = fiber[a]
Pushing == \A a \in Producers : PushOf(a)

\* What was pushed, place by place: first what was taken, then what is unread.
At(x, n) == (x + n) % Size
InOrder ==
    /\ Len(pushed) = Len(runable) + Unread
    /\ \A i \in 1..Len(runable) : pushed[i] = runable[i]
    /\ \A i \in 1..Unread : pushed[Len(runable) + i] = buf[At(FirstUnread, i - 1)]

\* Every used slot is owed a pop, or counted, or about to be counted.
Counted ==
    /\ ~missed
    /\ IsFiniteSet(Uncounted)
    /\ left + newCount + Cardinality(Uncounted) = Used

RingInv == OnePush /\ Pushing /\ (taken => r # w) /\ InOrder /\ Counted

\* All of it is claimed of executions without an overlap only.
RingKept == ~overlapped => RingInv
QueueInv == TypeOK /\ HasFiber /\ Owed /\ RingKept

-----------------------------------------------------------------------------
(* Indices *)

\* NextIndex goes around, and the distance of two indices is that around the ring.
Around(x, y) == IF x <= y THEN y - x ELSE y + Size - x
IndexForm ==
    /\ Size \in Nat \ {0} /\ Slots = 0..Capacity
    /\ \A x \in Slots : /\ NextIndex(x) \in Slots
                        /\ NextIndex(x) = IF x = Capacity THEN 0 ELSE x + 1
    /\ \A x, y \in Slots : (y + Size - x) % Size = Around(x, y)
    /\ \A x \in Slots : \A n \in 0..Capacity :
         (x + n) % Size = IF x + n <= Capacity THEN x + n ELSE x + n - Size
LEMMA Indices == IndexForm
<1>1. Capacity \in Nat /\ Size = Capacity + 1 /\ Size \in Nat \ {0}
  BY CapacityAssumption DEF Size
<1>2. \A z \in Nat : z < Size + Size => z % Size = IF z < Size THEN z ELSE z - Size
  <2> SUFFICES ASSUME NEW z \in Nat, z < Size + Size
               PROVE  z % Size = IF z < Size THEN z ELSE z - Size
    OBVIOUS
  <2>1. CASE z < Size
    BY <1>1, <2>1
  <2>2. CASE ~(z < Size)
    <3>1. z - Size \in 0..(Size - 1) /\ z = Size * 1 + (z - Size)
      BY <1>1, <2>2
    <3> QED BY <1>1, <2>2, <3>1
  <2> QED BY <2>1, <2>2
<1>3. ASSUME NEW x \in Slots
      PROVE  /\ NextIndex(x) \in Slots
             /\ NextIndex(x) = IF x = Capacity THEN 0 ELSE x + 1
  <2>1. x \in 0..Capacity /\ x + 1 \in Nat /\ x + 1 < Size + Size
    BY <1>1 DEF Slots
  <2>2. NextIndex(x) = IF x + 1 < Size THEN x + 1 ELSE x + 1 - Size
    <3>1. PICK z \in Nat : z = x + 1
      BY <2>1
    <3>2. z % Size = IF z < Size THEN z ELSE z - Size
      BY <1>2, <2>1, <3>1
    <3>3. NextIndex(x) = z % Size
      BY <3>1 DEF NextIndex
    <3> QED BY <1>1, <2>1, <3>1, <3>2, <3>3
  <2>3. NextIndex(x) = IF x = Capacity THEN 0 ELSE x + 1
    BY <1>1, <2>1, <2>2
  <2> QED BY <1>1, <2>1, <2>3 DEF Slots
<1>4. ASSUME NEW x \in Slots, NEW y \in Slots
      PROVE  (y + Size - x) % Size = Around(x, y)
  <2>1. x \in 0..Capacity /\ y \in 0..Capacity
    BY DEF Slots
  <2>2. y + Size - x \in Nat /\ y + Size - x < Size + Size
    BY <1>1, <2>1
  <2>3. (y + Size - x) % Size = IF y + Size - x < Size THEN y + Size - x
                                                      ELSE y + Size - x - Size
    <3>1. PICK z \in Nat : z = y + Size - x
      BY <2>2
    <3>2. z % Size = IF z < Size THEN z ELSE z - Size
      BY <1>2, <2>2, <3>1
    <3> QED BY <1>1, <2>1, <3>1, <3>2
  <2>4. CASE x <= y
    <3>1. ~(y + Size - x < Size) /\ y + Size - x - Size = y - x
      BY <1>1, <2>1, <2>4
    <3> QED BY <2>3, <2>4, <3>1 DEF Around
  <2>5. CASE ~(x <= y)
    <3>1. y + Size - x < Size
      BY <1>1, <2>1, <2>5
    <3> QED BY <2>3, <2>5, <3>1 DEF Around
  <2> QED BY <2>4, <2>5
<1>5. ASSUME NEW x \in Slots, NEW n \in 0..Capacity
      PROVE  (x + n) % Size = IF x + n <= Capacity THEN x + n ELSE x + n - Size
  <2>1. x \in 0..Capacity /\ x + n \in Nat /\ x + n < Size + Size
    BY <1>1 DEF Slots
  <2>2. (x + n) % Size = IF x + n < Size THEN x + n ELSE x + n - Size
    <3>1. PICK z \in Nat : z = x + n
      BY <2>1
    <3>2. z % Size = IF z < Size THEN z ELSE z - Size
      BY <1>2, <2>1, <3>1
    <3> QED BY <1>1, <2>1, <3>1, <3>2
  <2> QED BY <1>1, <2>1, <2>2
<1> QED BY <1>1, <1>3, <1>4, <1>5 DEF IndexForm, Slots

-----------------------------------------------------------------------------
(* Types *)

\* No step breaks a type; what is pushed is a fiber, and what is popped was owed.
LEMMA TypeStep ==
    ASSUME TypeOK, HasFiber, Owed, [Next]_vars
    PROVE  TypeOK' /\ HasFiber' /\ Owed'
<1> USE DEF TypeOK, HasFiber, Owed, ringVars, prodVars, consVars, Goto, InPush
<1>1. ASSUME NEW a \in Producers, NEW f \in Fibers, Call(a, f)
      PROVE  TypeOK' /\ HasFiber' /\ Owed'
  <2>1. overlapped' \in BOOLEAN
    BY <1>1 DEF Call
  <2> QED BY <1>1, <2>1 DEF Call
<1>2. ASSUME NEW a \in Producers, PushLoad(a)
      PROVE  TypeOK' /\ HasFiber' /\ Owed'
  BY <1>2 DEF PushLoad
<1>3. ASSUME NEW a \in Producers, PushTest(a)
      PROVE  TypeOK' /\ HasFiber' /\ Owed'
  BY <1>3 DEF PushTest
<1>4. ASSUME NEW a \in Producers, PushWrite(a)
      PROVE  TypeOK' /\ HasFiber' /\ Owed'
  BY <1>4 DEF PushWrite
<1>5. ASSUME NEW a \in Producers, PushStore(a)
      PROVE  TypeOK' /\ HasFiber' /\ Owed'
  <2>1. w' \in Slots
    BY <1>5, Indices DEF PushStore, IndexForm
  <2>2. pushed' \in Seq(Fibers)
    BY <1>5 DEF PushStore
  <2> QED BY <1>5, <2>1, <2>2 DEF PushStore
<1>6. ASSUME NEW a \in Producers, CountAdd(a)
      PROVE  TypeOK' /\ HasFiber' /\ Owed'
  BY <1>6, CapacityAssumption DEF CountAdd, Slots
<1>7. ASSUME Exchange PROVE TypeOK' /\ HasFiber' /\ Owed'
  BY <1>7 DEF Exchange
<1>8. ASSUME PopTake PROVE TypeOK' /\ HasFiber' /\ Owed'
  <2>1. CASE r = w
    BY <1>8, <2>1 DEF PopTake
  <2>2. CASE r # w
    <3>1. runable' \in Seq(Fibers \cup {Empty})
      <4>1. runable' = Append(runable, buf[r])
        BY <1>8, <2>2 DEF PopTake
      <4>2. buf[r] \in Fibers \cup {Empty} /\ runable \in Seq(Fibers \cup {Empty})
        OBVIOUS
      <4> QED BY <4>1, <4>2
    <3>2. buf' \in [Slots -> Fibers \cup {Empty}]
      BY <1>8, <2>2 DEF PopTake
    <3>3. /\ taken' = TRUE
          /\ UNCHANGED <<left, missed, w, r, newCount, pc, fiber, at, todo, pushed,
                         overlapped>>
      BY <1>8, <2>2 DEF PopTake
    <3> QED BY <1>8, <3>1, <3>2, <3>3 DEF PopTake
  <2> QED BY <2>1, <2>2
<1>9. ASSUME PopRelease PROVE TypeOK' /\ HasFiber' /\ Owed'
  <2>1. r' \in Slots
    BY <1>9, Indices DEF PopRelease, IndexForm
  <2>2. left' \in Nat
    BY <1>9 DEF PopRelease
  <2>3. /\ taken' = FALSE
        /\ UNCHANGED <<buf, w, newCount, pc, fiber, at, todo, runable, missed, pushed,
                       overlapped>>
    BY <1>9 DEF PopRelease
  <2> QED BY <2>1, <2>2, <2>3
<1>10. CASE UNCHANGED vars
  BY <1>10 DEF vars
<1> QED
  BY <1>1, <1>2, <1>3, <1>4, <1>5, <1>6, <1>7, <1>8, <1>9, <1>10 DEF Next, AddFiber, Consumer
-----------------------------------------------------------------------------
(* The ring *)

\* The distance of two indices, when one of them moves on.
DistanceForm ==
    \A x, y \in Slots :
        /\ Around(x, y) \in 0..Capacity
        /\ Around(x, y) = 0 <=> x = y
        /\ x # y => Around(NextIndex(x), y) = Around(x, y) - 1
        /\ NextIndex(y) # x => Around(x, NextIndex(y)) = Around(x, y) + 1
LEMMA Distances == DistanceForm
<1> SUFFICES ASSUME NEW x \in Slots, NEW y \in Slots
             PROVE  /\ Around(x, y) \in 0..Capacity
                    /\ Around(x, y) = 0 <=> x = y
                    /\ x # y => Around(NextIndex(x), y) = Around(x, y) - 1
                    /\ NextIndex(y) # x => Around(x, NextIndex(y)) = Around(x, y) + 1
  BY DEF DistanceForm
<1>1. /\ Capacity \in Nat \ {0} /\ Size = Capacity + 1
      /\ x \in 0..Capacity /\ y \in 0..Capacity
      /\ NextIndex(x) = IF x = Capacity THEN 0 ELSE x + 1
      /\ NextIndex(y) = IF y = Capacity THEN 0 ELSE y + 1
  BY CapacityAssumption, Indices DEF Size, IndexForm
<1> QED BY <1>1 DEF Around

\* The slot n places after x: it is before y while n is less than y's distance.
PlaceForm ==
    \A x \in Slots : \A n \in 0..Capacity :
        /\ At(x, n) \in Slots
        /\ n = 0 => At(x, n) = x
        /\ n > 0 => At(NextIndex(x), n - 1) = At(x, n)
        /\ \A y \in Slots : At(x, n) = y <=> n = Around(x, y)
LEMMA Places == PlaceForm
<1> SUFFICES ASSUME NEW x \in Slots, NEW n \in 0..Capacity
             PROVE  /\ At(x, n) \in Slots
                    /\ n = 0 => At(x, n) = x
                    /\ n > 0 => At(NextIndex(x), n - 1) = At(x, n)
                    /\ \A y \in Slots : At(x, n) = y <=> n = Around(x, y)
  BY DEF PlaceForm
<1>1. /\ Capacity \in Nat \ {0} /\ Size = Capacity + 1 /\ Slots = 0..Capacity
      /\ x \in 0..Capacity
      /\ NextIndex(x) = IF x = Capacity THEN 0 ELSE x + 1
      /\ NextIndex(x) \in Slots
  BY CapacityAssumption, Indices DEF Size, IndexForm
<1>2. At(x, n) = IF x + n <= Capacity THEN x + n ELSE x + n - Size
  BY Indices DEF IndexForm, At
<1>3. ASSUME n > 0
      PROVE  At(NextIndex(x), n - 1) = IF NextIndex(x) + (n - 1) <= Capacity
                                       THEN NextIndex(x) + (n - 1)
                                       ELSE NextIndex(x) + (n - 1) - Size
  <2>1. n - 1 \in 0..Capacity
    BY <1>1, <1>3
  <2> QED BY <1>1, <2>1, Indices DEF IndexForm, At
<1>4. n > 0 => At(NextIndex(x), n - 1) = At(x, n)
  BY <1>1, <1>2, <1>3
<1>5. ASSUME NEW y \in Slots PROVE At(x, n) = y <=> n = Around(x, y)
  <2>1. y \in 0..Capacity
    BY <1>1
  <2> QED BY <1>1, <1>2, <2>1 DEF Around
<1> QED BY <1>1, <1>2, <1>4, <1>5

\* What is used and what is unread are distances to the write index.
UnreadForm ==
    /\ Used = Around(r, w)
    /\ FirstUnread \in Slots
    /\ Unread = Around(FirstUnread, w)
    /\ Unread \in 0..Capacity
LEMMA UnreadNow ==
    ASSUME TypeOK, taken => r # w
    PROVE  UnreadForm
<1>1. r \in Slots /\ w \in Slots /\ taken \in BOOLEAN
  BY DEF TypeOK
<1>2. Used = Around(r, w) /\ NextIndex(r) \in Slots
  BY <1>1, Indices DEF Used, IndexForm
<1>3. CASE taken
  <2>1. FirstUnread = NextIndex(r) /\ Unread = Used - 1
    BY <1>3 DEF FirstUnread, Unread
  <2>2. Around(NextIndex(r), w) = Around(r, w) - 1
    BY <1>1, <1>3, Distances DEF DistanceForm
  <2>3. Around(NextIndex(r), w) \in 0..Capacity
    BY <1>1, <1>2, Distances DEF DistanceForm
  <2> QED BY <1>2, <2>1, <2>2, <2>3 DEF UnreadForm
<1>4. CASE ~taken
  <2>1. FirstUnread = r /\ Unread = Used - 0
    BY <1>4 DEF FirstUnread, Unread
  <2>2. Around(r, w) \in 0..Capacity
    BY <1>1, Distances DEF DistanceForm
  <2> QED BY <1>1, <1>2, <2>1, <2>2 DEF UnreadForm
<1> QED BY <1>3, <1>4

\* The same after a step.
LEMMA UnreadNext ==
    ASSUME TypeOK', taken' => r' # w'
    PROVE  UnreadForm'
<1>1. r' \in Slots /\ w' \in Slots /\ taken' \in BOOLEAN
  BY DEF TypeOK
<1>2. Used' = Around(r', w') /\ NextIndex(r') \in Slots
  BY <1>1, Indices DEF Used, IndexForm
<1>3. CASE taken'
  <2>1. FirstUnread' = NextIndex(r') /\ Unread' = Used' - 1
    BY <1>3 DEF FirstUnread, Unread
  <2>2. Around(NextIndex(r'), w') = Around(r', w') - 1
    BY <1>1, <1>3, Distances DEF DistanceForm
  <2>3. Around(NextIndex(r'), w') \in 0..Capacity
    BY <1>1, <1>2, Distances DEF DistanceForm
  <2> QED BY <1>2, <2>1, <2>2, <2>3 DEF UnreadForm
<1>4. CASE ~taken'
  <2>1. FirstUnread' = r' /\ Unread' = Used' - 0
    BY <1>4 DEF FirstUnread, Unread
  <2>2. Around(r', w') \in 0..Capacity
    BY <1>1, Distances DEF DistanceForm
  <2> QED BY <1>1, <1>2, <2>1, <2>2 DEF UnreadForm
<1> QED BY <1>3, <1>4
-----------------------------------------------------------------------------
(* What a push does *)

\* The producers inside push after a step of a alone.
LEMMA OnePushStep ==
    ASSUME TypeOK, OnePush, NEW a \in Producers, NEW l, pc' = [pc EXCEPT ![a] = l],
           pc[a] \in InPush \/ l \notin InPush
    PROVE  OnePush'
BY DEF TypeOK, OnePush

\* A step of a producer that has nobody beside it in push.
LEMMA Alone ==
    ASSUME TypeOK, OnePush, NEW a \in Producers, pc[a] \in InPush
    PROVE  \A b \in Producers \ {a} : pc[b] \notin InPush
BY DEF OnePush

\* A step that leaves the ring and the sequences alone keeps them in order.
LEMMA SameOrder ==
    ASSUME InOrder, UNCHANGED <<buf, w, r, taken, pushed, runable>>
    PROVE  InOrder'
BY DEF InOrder, Unread, Used, FirstUnread, At

\* A step that moves no producer to or from its count changes nobody's claim.
LEMMA SameCount ==
    ASSUME Counted, UNCHANGED <<w, r, left, newCount, missed>>,
           \A b \in Producers : pc'[b] = "count" <=> pc[b] = "count"
    PROVE  Counted'
<1>1. Uncounted' = Uncounted
  BY DEF Uncounted
<1> QED BY <1>1 DEF Counted, Used

\* Entering push keeps the ring, as long as nobody else is inside.
LEMMA CallStep ==
    ASSUME TypeOK, RingKept, NEW a \in Producers, NEW f \in Fibers, Call(a, f), ~overlapped'
    PROVE  RingInv'
<1> USE DEF Goto, ringVars, consVars
<1>1. ~overlapped /\ \A b \in Producers : pc[b] \notin InPush
  BY DEF Call
<1>2. RingInv
  BY <1>1 DEF RingKept
<1>3. OnePush'
  BY <1>1 DEF Call, OnePush, TypeOK
<1>4. Pushing'
  BY <1>1 DEF Call, Pushing, PushOf, TypeOK, InPush
<1>5. InOrder' /\ (taken' => r' # w')
  BY <1>2, SameOrder DEF Call, RingInv
<1>6. Counted'
  BY <1>2, SameCount DEF Call, RingInv, TypeOK
<1> QED BY <1>3, <1>4, <1>5, <1>6 DEF RingInv

\* Loading the index and looking for room keep the ring.
LEMMA LoadStep ==
    ASSUME TypeOK, RingInv, NEW a \in Producers, PushLoad(a) \/ PushTest(a)
    PROVE  RingInv'
<1> USE DEF Goto, ringVars, consVars
<1>0. PICK l \in InPush : pc' = [pc EXCEPT ![a] = l]
  BY DEF PushLoad, PushTest, InPush
<1>1. /\ pc[a] \in {"load", "test"}
      /\ UNCHANGED <<buf, w, r, newCount, fiber, left, taken, runable, missed, pushed>>
  BY DEF PushLoad, PushTest
<1>2. OnePush'
  BY <1>0, <1>1, OnePushStep DEF RingInv, InPush
<1>3. ASSUME NEW b \in Producers PROVE PushOf(b)'
  <2>1. CASE b # a
    <3>1. pc'[b] = pc[b] /\ pc[b] \notin InPush
      BY <1>0, <1>1, <2>1, Alone DEF RingInv, TypeOK, InPush
    <3> QED BY <3>1 DEF PushOf, InPush
  <2>2. CASE b = a /\ PushLoad(a)
    BY <2>2 DEF PushLoad, PushOf, TypeOK
  <2>3. CASE b = a /\ PushTest(a)
    <3>1. at[a] = w /\ at' = at
      BY <2>3 DEF PushTest, RingInv, Pushing, PushOf
    <3>2. pc'[a] = IF Full(w) THEN "load" ELSE "write"
      BY <2>3, <3>1 DEF PushTest, TypeOK
    <3>3. Full(w)' <=> Full(w)
      BY <1>1 DEF Full, NextIndex
    <3> QED BY <1>1, <2>3, <3>1, <3>2, <3>3 DEF PushOf
  <2> QED BY <2>1, <2>2, <2>3
<1>4. InOrder' /\ (taken' => r' # w')
  BY <1>1, SameOrder DEF RingInv
<1>5. Counted'
  BY <1>0, <1>1, SameCount DEF RingInv, TypeOK, InPush
<1> QED BY <1>2, <1>3, <1>4, <1>5 DEF RingInv, Pushing

\* A push writes its fiber behind what is unread.
LEMMA WriteStep ==
    ASSUME TypeOK, RingInv, NEW a \in Producers, PushWrite(a)
    PROVE  RingInv'
<1> USE DEF Goto, ringVars, consVars
<1>1. /\ pc[a] = "write" /\ pc' = [pc EXCEPT ![a] = "store"]
      /\ UNCHANGED <<w, r, newCount, fiber, at, left, taken, runable, missed, pushed>>
      /\ at[a] = w /\ ~Full(w)
      /\ buf' = [buf EXCEPT ![w] = fiber[a]]
  BY DEF PushWrite, RingInv, Pushing, PushOf
<1>2. OnePush'
  BY <1>1, OnePushStep DEF RingInv, InPush
<1>3. ASSUME NEW b \in Producers PROVE PushOf(b)'
  <2>1. CASE b # a
    <3>1. pc'[b] = pc[b] /\ pc[b] \notin InPush
      BY <1>1, <2>1, Alone DEF RingInv, TypeOK, InPush
    <3> QED BY <3>1 DEF PushOf, InPush
  <2>2. CASE b = a
    <3>1. buf'[w] = fiber[a]
      BY <1>1 DEF TypeOK
    <3>2. ~Full(w)'
      BY <1>1 DEF Full, NextIndex
    <3> QED BY <1>1, <2>2, <3>1, <3>2 DEF PushOf
  <2> QED BY <2>1, <2>2
<1>4. InOrder'
  <2>1. UnreadForm
    BY UnreadNow DEF RingInv
  <2>2. Unread' = Unread /\ FirstUnread' = FirstUnread
    BY <1>1 DEF Unread, Used, FirstUnread
  <2>3. ASSUME NEW i \in 1..Unread
        PROVE  buf'[At(FirstUnread, i - 1)] = buf[At(FirstUnread, i - 1)]
    <3>1. i - 1 \in 0..Capacity /\ i - 1 # Around(FirstUnread, w)
      BY <2>1, CapacityAssumption DEF UnreadForm
    <3>2. At(FirstUnread, i - 1) \in Slots /\ At(FirstUnread, i - 1) # w
      BY <2>1, <3>1, Places DEF PlaceForm, UnreadForm, TypeOK
    <3> QED BY <1>1, <3>2 DEF TypeOK
  <2> QED BY <1>1, <2>2, <2>3 DEF RingInv, InOrder, At
<1>5. Counted'
  BY <1>1, SameCount DEF RingInv, TypeOK
<1> QED BY <1>1, <1>2, <1>3, <1>4, <1>5 DEF RingInv, Pushing
\* A push publishes its fiber as the last unread one, and owes its count.
LEMMA StoreStep ==
    ASSUME TypeOK, TypeOK', HasFiber, RingInv, NEW a \in Producers, PushStore(a)
    PROVE  RingInv'
<1> USE DEF Goto, consVars
<1>1. /\ pc[a] = "store" /\ pc' = [pc EXCEPT ![a] = "count"]
      /\ UNCHANGED <<buf, r, newCount, fiber, at, left, taken, runable, missed>>
      /\ w' = NextIndex(w) /\ NextIndex(w) # r /\ buf[w] = fiber[a]
      /\ pushed' = Append(pushed, fiber[a])
  BY DEF PushStore, RingInv, Pushing, PushOf, Full
<1>2. /\ UnreadForm /\ r \in Slots /\ w \in Slots /\ taken \in BOOLEAN
      /\ Len(runable) \in Nat /\ Len(pushed) \in Nat /\ left \in Nat /\ newCount \in Nat
  BY UnreadNow DEF RingInv, TypeOK
<1>3. OnePush'
  BY <1>1, OnePushStep DEF RingInv, InPush
<1>4. ASSUME NEW b \in Producers PROVE PushOf(b)'
  <2>1. pc'[b] \notin InPush
    <3>1. CASE b = a
      BY <1>1, <3>1 DEF TypeOK, InPush
    <3>2. CASE b # a
      BY <1>1, <3>2, Alone DEF RingInv, TypeOK, InPush
    <3> QED BY <3>1, <3>2
  <2> QED BY <2>1 DEF PushOf, InPush
<1>5. Used' = Used + 1
  <2>1. w' \in Slots
    BY DEF TypeOK
  <2>2. Used' = Around(r, w')
    BY <1>1, <1>2, <2>1, Indices DEF Used, IndexForm
  <2>3. Around(r, NextIndex(w)) = Around(r, w) + 1
    BY <1>1, <1>2, Distances DEF DistanceForm
  <2> QED BY <1>1, <1>2, <2>2, <2>3 DEF UnreadForm
<1>6. taken' => r' # w'
  BY <1>1
<1>7. InOrder'
  <2>1. FirstUnread' = FirstUnread
    BY <1>1 DEF FirstUnread
  <2>2. Unread \in Nat /\ Unread' = Unread + 1
    <3>1. Used \in Nat
      BY <1>2, Distances, CapacityAssumption DEF UnreadForm, DistanceForm
    <3>2. Unread \in Nat
      BY <1>2, CapacityAssumption DEF UnreadForm
    <3> QED BY <1>1, <1>5, <3>1, <3>2 DEF Unread
  <2>3. At(FirstUnread, Unread) = w
    BY <1>2, Places DEF UnreadForm, PlaceForm
  <2>4. Len(pushed') = Len(pushed) + 1 /\ pushed'[Len(pushed) + 1] = fiber[a]
        /\ \A i \in 1..Len(pushed) : pushed'[i] = pushed[i]
    <3>1. pushed \in Seq(Fibers) /\ fiber[a] \in Fibers
      BY <1>1 DEF TypeOK, HasFiber
    <3> QED BY <1>1, <3>1
  <2>5. Len(pushed') = Len(runable') + Unread'
    BY <1>1, <1>2, <2>2, <2>4 DEF RingInv, InOrder
  <2>6. \A i \in 1..Len(runable') : pushed'[i] = runable'[i]
    BY <1>1, <1>2, <2>2, <2>4 DEF RingInv, InOrder
  <2>7. ASSUME NEW i \in 1..Unread'
        PROVE  pushed'[Len(runable') + i] = buf'[At(FirstUnread', i - 1)]
    <3>1. CASE i = Unread + 1
      <4>1. Len(runable') + i = Len(pushed) + 1 /\ i - 1 = Unread
        BY <1>1, <1>2, <2>2, <3>1 DEF RingInv, InOrder
      <4> QED BY <1>1, <2>1, <2>3, <2>4, <4>1
    <3>2. CASE i # Unread + 1
      <4>1. i \in 1..Unread /\ Len(runable) + i \in 1..Len(pushed)
        BY <1>2, <2>2, <3>2 DEF RingInv, InOrder
      <4> QED BY <1>1, <2>1, <2>4, <4>1 DEF RingInv, InOrder
    <3> QED BY <3>1, <3>2
  <2> QED BY <2>5, <2>6, <2>7 DEF InOrder, At
<1>8. Counted'
  <2>1. Uncounted' = Uncounted \cup {a} /\ a \notin Uncounted
    BY <1>1 DEF Uncounted, TypeOK
  <2>2. IsFiniteSet(Uncounted)
    BY DEF RingInv, Counted
  <2>3. /\ IsFiniteSet(Uncounted') /\ Cardinality(Uncounted') = Cardinality(Uncounted) + 1
        /\ Cardinality(Uncounted) \in Nat
    BY <2>1, <2>2, FS_AddElement, FS_CardinalityType
  <2>4. ~missed' /\ left + newCount + Cardinality(Uncounted) = Used
    BY <1>1 DEF RingInv, Counted
  <2>5. left' + newCount' + Cardinality(Uncounted') = Used'
    BY <1>1, <1>2, <1>5, <2>3, <2>4
  <2> QED BY <2>3, <2>4, <2>5 DEF Counted
<1> QED BY <1>3, <1>4, <1>6, <1>7, <1>8 DEF RingInv, Pushing

\* A count settles its producer's debt.
LEMMA CountStep ==
    ASSUME TypeOK, RingInv, NEW a \in Producers, CountAdd(a)
    PROVE  RingInv'
<1> USE DEF Goto, ringVars, consVars
<1>1. /\ pc[a] = "count" /\ pc' = [pc EXCEPT ![a] = "idle"]
      /\ UNCHANGED <<buf, w, r, left, taken, runable, missed, pushed>>
      /\ newCount' = newCount + 1
      /\ \A b \in Producers \ {a} : fiber'[b] = fiber[b] /\ at'[b] = at[b]
  BY DEF CountAdd, TypeOK
<1>2. OnePush'
  BY <1>1, OnePushStep DEF RingInv, InPush
<1>3. ASSUME NEW b \in Producers PROVE PushOf(b)'
  <2>1. CASE b # a
    <3>1. pc'[b] = pc[b]
      BY <1>1, <2>1 DEF TypeOK
    <3>2. Full(w)' <=> Full(w)
      BY <1>1 DEF Full, NextIndex
    <3> QED BY <1>1, <2>1, <3>1, <3>2 DEF PushOf, RingInv, Pushing
  <2>2. CASE b = a
    BY <1>1, <2>2 DEF PushOf, TypeOK
  <2> QED BY <2>1, <2>2
<1>4. InOrder' /\ (taken' => r' # w')
  BY <1>1, SameOrder DEF RingInv
<1>5. Counted'
  <2>1. Uncounted' = Uncounted \ {a} /\ a \in Uncounted
    BY <1>1 DEF Uncounted, TypeOK
  <2>2. IsFiniteSet(Uncounted)
    BY DEF RingInv, Counted
  <2>3. /\ IsFiniteSet(Uncounted') /\ Cardinality(Uncounted') = Cardinality(Uncounted) - 1
        /\ Cardinality(Uncounted) \in Nat
    BY <2>1, <2>2, FS_RemoveElement, FS_CardinalityType
  <2>4. ~missed' /\ left + newCount + Cardinality(Uncounted) = Used /\ Used' = Used
    BY <1>1 DEF RingInv, Counted, Used
  <2>5. left \in Nat /\ newCount \in Nat
    BY DEF TypeOK
  <2>6. left' + newCount' + Cardinality(Uncounted') = Used'
    BY <1>1, <2>3, <2>4, <2>5
  <2> QED BY <2>3, <2>4, <2>6 DEF Counted
<1> QED BY <1>2, <1>3, <1>4, <1>5 DEF RingInv, Pushing
-----------------------------------------------------------------------------
(* What the consumer does *)

\* A step of the consumer that writes no slot a push has written leaves the push
\* where it is: read_index_ moves away from it.
LEMMA PushesStay ==
    ASSUME TypeOK, RingInv, UNCHANGED <<w, pc, fiber, at>>, buf'[w] = buf[w],
           r' = r \/ (r # w /\ r' = NextIndex(r))
    PROVE  OnePush' /\ Pushing'
<1>1. OnePush'
  BY DEF RingInv, OnePush
<1>2. ASSUME NEW a \in Producers PROVE PushOf(a)'
  <2>1. w \in Slots /\ r \in Slots
    BY DEF TypeOK
  <2>2. NextIndex(w) # r => NextIndex(w) # r'
    <3>1. CASE r' = r
      BY <3>1
    <3>2. CASE r # w /\ r' = NextIndex(r)
      <4>1. w \in 0..Capacity /\ r \in 0..Capacity /\ Capacity \in Nat
            /\ NextIndex(w) = (IF w = Capacity THEN 0 ELSE w + 1)
            /\ NextIndex(r) = (IF r = Capacity THEN 0 ELSE r + 1)
        BY <2>1, Indices, CapacityAssumption DEF IndexForm
      <4> QED BY <3>2, <4>1
    <3> QED BY <3>1, <3>2
  <2>3. PushOf(a) /\ NextIndex(w)' = NextIndex(w)
    BY DEF RingInv, Pushing, NextIndex
  <2> QED BY <2>2, <2>3 DEF PushOf, Full
<1> QED BY <1>1, <1>2 DEF Pushing

\* Exchanging the counter moves what it counts to what is owed.
LEMMA ExchangeStep ==
    ASSUME TypeOK, RingInv, Exchange
    PROVE  RingInv'
<1> USE DEF ringVars, prodVars
<1>1. /\ left = 0 /\ left' = newCount /\ newCount' = 0
      /\ UNCHANGED <<buf, w, r, pc, fiber, at, taken, runable, missed, pushed>>
  BY DEF Exchange
<1>2. OnePush' /\ Pushing'
  BY <1>1, PushesStay
<1>3. InOrder' /\ (taken' => r' # w')
  BY <1>1, SameOrder DEF RingInv
<1>4. Counted'
  <2>1. Uncounted' = Uncounted /\ Used' = Used
    BY <1>1 DEF Uncounted, Used
  <2>2. left' + newCount' = left + newCount
    BY <1>1 DEF TypeOK
  <2>3. left + newCount + Cardinality(Uncounted) = Used
    BY DEF RingInv, Counted
  <2>4. left' + newCount' + Cardinality(Uncounted') = Used'
    BY <2>1, <2>2, <2>3
  <2> QED BY <1>1, <2>1, <2>4 DEF RingInv, Counted
<1> QED BY <1>2, <1>3, <1>4 DEF RingInv

\* A pop that is owed finds a fiber: the first unread one.
LEMMA TakeStep ==
    ASSUME TypeOK, RingInv, PopTake
    PROVE  RingInv'
<1> USE DEF ringVars, prodVars
<1>1. UnreadForm /\ r \in Slots /\ w \in Slots /\ Capacity \in Nat
  BY UnreadNow, CapacityAssumption DEF RingInv, TypeOK
<1>2. left > 0 /\ ~taken /\ UNCHANGED <<w, r, newCount, pc, fiber, at, pushed>>
  BY DEF PopTake
<1>3. r # w
  <2>1. left + newCount + Cardinality(Uncounted) = Used /\ Cardinality(Uncounted) \in Nat
        /\ left \in Nat /\ newCount \in Nat
    BY FS_CardinalityType DEF RingInv, Counted, TypeOK
  <2>2. Used # 0
    BY <1>2, <2>1
  <2> QED BY <1>1, <2>2, Distances DEF DistanceForm, UnreadForm
<1>4. /\ runable' = Append(runable, buf[r]) /\ buf' = [buf EXCEPT ![r] = Empty]
      /\ taken' = TRUE /\ UNCHANGED <<left, missed>>
  BY <1>3 DEF PopTake
<1>5. OnePush' /\ Pushing'
  <2>1. buf'[w] = buf[w]
    BY <1>1, <1>3, <1>4 DEF TypeOK
  <2> QED BY <1>2, <2>1, PushesStay
<1>6. InOrder'
  <2>1. FirstUnread = r /\ FirstUnread' = NextIndex(r)
    BY <1>2, <1>4 DEF FirstUnread, NextIndex
  <2>2. Unread \in 1..Capacity /\ Unread' = Unread - 1
    <3>1. Used' = Used /\ Unread = Used - 0 /\ Unread' = Used' - 1
      BY <1>2, <1>4 DEF Unread, Used
    <3>2. Around(r, w) \in 1..Capacity
      BY <1>1, <1>3, Distances DEF DistanceForm
    <3> QED BY <1>1, <3>1, <3>2 DEF UnreadForm
  <2>3. Len(runable) \in Nat /\ Len(runable') = Len(runable) + 1
        /\ runable'[Len(runable) + 1] = buf[r]
        /\ \A i \in 1..Len(runable) : runable'[i] = runable[i]
    <3>1. runable \in Seq(Fibers \cup {Empty}) /\ buf[r] \in Fibers \cup {Empty}
      BY <1>1 DEF TypeOK
    <3> QED BY <1>4, <3>1
  <2>4. Len(pushed') = Len(runable') + Unread'
    BY <1>2, <2>2, <2>3 DEF RingInv, InOrder
  <2>5. ASSUME NEW i \in 1..Len(runable') PROVE pushed'[i] = runable'[i]
    <3>1. CASE i = Len(runable) + 1
      <4>1. At(FirstUnread, 0) = r
        BY <1>1, <2>1, Places DEF PlaceForm
      <4>2. 1 \in 1..Unread /\ 1 - 1 = 0
        BY <2>2
      <4>3. pushed[Len(runable) + 1] = buf[At(FirstUnread, 0)]
        BY <4>2 DEF RingInv, InOrder
      <4> QED BY <1>2, <2>3, <3>1, <4>1, <4>3
    <3>2. CASE i # Len(runable) + 1
      <4>1. i \in 1..Len(runable)
        BY <2>3, <3>2
      <4> QED BY <1>2, <2>3, <4>1 DEF RingInv, InOrder
    <3> QED BY <3>1, <3>2
  <2>6. ASSUME NEW i \in 1..Unread'
        PROVE  pushed'[Len(runable') + i] = buf'[At(FirstUnread', i - 1)]
    <3>1. i + 1 \in 1..Unread /\ i \in 1..Capacity /\ i \in 0..Capacity /\ i > 0
          /\ Len(runable') + i = Len(runable) + (i + 1) /\ (i + 1) - 1 = i
      BY <1>1, <2>2, <2>3
    <3>2. pushed[Len(runable) + (i + 1)] = buf[At(r, i)]
      BY <2>1, <3>1 DEF RingInv, InOrder
    <3>3. At(NextIndex(r), i - 1) = At(r, i) /\ At(r, i) \in Slots /\ At(r, i) # r
      <4>1. Around(r, r) = 0
        BY <1>1, Distances DEF DistanceForm
      <4> QED BY <1>1, <3>1, <4>1, Places DEF PlaceForm
    <3>4. buf'[At(r, i)] = buf[At(r, i)]
      BY <1>1, <1>4, <3>3 DEF TypeOK
    <3> QED BY <1>2, <2>1, <3>1, <3>2, <3>3, <3>4
  <2> QED BY <2>4, <2>5, <2>6 DEF InOrder, At
<1>7. Counted'
  BY <1>2, <1>4, SameCount DEF RingInv
<1> QED BY <1>2, <1>3, <1>4, <1>5, <1>6, <1>7 DEF RingInv

\* Releasing the slot makes room and settles what was owed.
LEMMA ReleaseStep ==
    ASSUME TypeOK, Owed, RingInv, PopRelease
    PROVE  RingInv'
<1> USE DEF ringVars, prodVars
<1>1. UnreadForm /\ r \in Slots /\ w \in Slots /\ Capacity \in Nat /\ NextIndex(r) \in Slots
  BY UnreadNow, CapacityAssumption, Indices DEF RingInv, TypeOK, IndexForm
<1>2. /\ taken /\ taken' = FALSE /\ r # w /\ r' = NextIndex(r) /\ left' = left - 1
      /\ UNCHANGED <<buf, w, newCount, pc, fiber, at, runable, missed, pushed>>
  BY DEF PopRelease, RingInv
<1>3. OnePush' /\ Pushing'
  BY <1>2, PushesStay
<1>4. Used' = Used - 1 /\ Used \in Nat
  <2>1. Used' = Around(NextIndex(r), w)
    BY <1>1, <1>2, Indices DEF Used, IndexForm
  <2>2. Around(NextIndex(r), w) = Around(r, w) - 1 /\ Around(r, w) \in Nat
    BY <1>1, <1>2, Distances DEF DistanceForm
  <2> QED BY <1>1, <2>1, <2>2 DEF UnreadForm
<1>5. InOrder'
  <2>1. FirstUnread' = FirstUnread
    BY <1>2 DEF FirstUnread, NextIndex
  <2>2. Unread' = Unread
    BY <1>2, <1>4 DEF Unread
  <2> QED BY <1>2, <2>1, <2>2 DEF RingInv, InOrder, At
<1>6. Counted'
  <2>1. Uncounted' = Uncounted
    BY <1>2 DEF Uncounted
  <2>2. left + newCount + Cardinality(Uncounted) = Used /\ Cardinality(Uncounted) \in Nat
    BY FS_CardinalityType DEF RingInv, Counted
  <2>3. left \in Nat /\ newCount \in Nat
    BY DEF TypeOK
  <2>4. left' + newCount' + Cardinality(Uncounted') = Used'
    BY <1>2, <1>4, <2>1, <2>2, <2>3
  <2> QED BY <1>2, <2>1, <2>4 DEF RingInv, Counted
<1> QED BY <1>2, <1>3, <1>5, <1>6 DEF RingInv

-----------------------------------------------------------------------------
(* The theorems *)

\* The invariant holds at the start.
LEMMA QueueInitial == Init => QueueInv
<1> SUFFICES ASSUME Init PROVE QueueInv
  OBVIOUS
<1>1. Capacity \in Nat \ {0} /\ 0 \in Slots
  BY CapacityAssumption DEF Slots
<1>2. TypeOK /\ HasFiber /\ Owed
  <2>1. runable \in Seq(Fibers \cup {Empty}) /\ pushed \in Seq(Fibers)
    BY DEF Init
  <2> QED BY <1>1, <2>1 DEF Init, TypeOK, HasFiber, Owed
<1>3. OnePush /\ Pushing /\ (taken => r # w)
  BY DEF Init, OnePush, Pushing, PushOf, InPush
<1>4. Used = 0 /\ Unread = 0
  <2>1. Used = Around(0, 0) /\ Around(0, 0) = 0
    BY <1>1, Indices, Distances DEF Init, Used, IndexForm, DistanceForm
  <2>2. Unread = Used - 0
    BY DEF Init, Unread
  <2> QED BY <2>1, <2>2
<1>5. InOrder
  BY <1>4 DEF Init, InOrder
<1>6. Counted
  <2>1. Uncounted = {}
    BY DEF Init, Uncounted
  <2> QED BY <1>4, <2>1, FS_EmptySet DEF Init, Counted
<1> QED BY <1>2, <1>3, <1>5, <1>6 DEF QueueInv, RingKept, RingInv

\* Every step keeps the invariant; an overlap is for ever.
LEMMA QueueStep == QueueInv /\ [Next]_vars => QueueInv'
<1> SUFFICES ASSUME QueueInv, [Next]_vars PROVE QueueInv'
  OBVIOUS
<1>1. TypeOK /\ HasFiber /\ Owed /\ RingKept
  BY DEF QueueInv, RingKept
<1>2. TypeOK' /\ HasFiber' /\ Owed'
  BY <1>1, TypeStep
<1>3. ASSUME ~overlapped' PROVE RingInv'
  <2>1. ASSUME NEW a \in Producers, NEW f \in Fibers, Call(a, f) PROVE RingInv'
    BY <1>1, <1>3, <2>1, CallStep
  <2>2. ASSUME overlapped' = overlapped PROVE RingInv
    BY <1>1, <1>3, <2>2 DEF RingKept
  <2>3. ASSUME NEW a \in Producers, AddFiber(a) PROVE RingInv'
    <3>1. RingInv
      BY <2>2, <2>3 DEF AddFiber, PushLoad, PushTest, PushWrite, PushStore, CountAdd
    <3> QED BY <1>1, <1>2, <2>3, <3>1, LoadStep, WriteStep, StoreStep, CountStep DEF AddFiber
  <2>4. ASSUME Consumer PROVE RingInv'
    <3>1. RingInv
      BY <2>2, <2>4 DEF Consumer, Exchange, PopTake, PopRelease
    <3> QED BY <1>1, <2>4, <3>1, ExchangeStep, TakeStep, ReleaseStep DEF Consumer
  <2>5. ASSUME UNCHANGED vars PROVE RingInv'
    <3>1. RingInv
      BY <2>2, <2>5 DEF vars
    <3>2. UNCHANGED <<buf, w, r, newCount, pc, fiber, at, left, taken, runable, missed, pushed>>
      BY <2>5 DEF vars, ringVars, prodVars, consVars
    <3>3. OnePush' /\ Pushing'
      BY <1>1, <3>1, <3>2, PushesStay
    <3>4. InOrder' /\ (taken' => r' # w') /\ Counted'
      BY <3>1, <3>2, SameOrder, SameCount DEF RingInv
    <3> QED BY <3>3, <3>4 DEF RingInv
  <2> QED BY <2>1, <2>3, <2>4, <2>5 DEF Next
<1> QED BY <1>2, <1>3 DEF QueueInv, RingKept

\* The invariant holds always.
LEMMA QueueHolds == Spec => []QueueInv
BY QueueInitial, QueueStep, PTL DEF Spec

\* What is in order place by place is in order as a sequence.
LEMMA InSequence ==
    ASSUME TypeOK, RingInv
    PROVE  runable \o Contents = pushed
<1>1. /\ UnreadForm /\ Capacity \in Nat /\ Unread \in Nat
      /\ runable \in Seq(Fibers \cup {Empty}) /\ pushed \in Seq(Fibers)
      /\ Len(runable) \in Nat
  BY UnreadNow, CapacityAssumption DEF RingInv, TypeOK, UnreadForm
<1>2. ASSUME NEW i \in 1..Unread
      PROVE  /\ buf[(FirstUnread + i - 1) % Size] \in Fibers \cup {Empty}
             /\ pushed[Len(runable) + i] = buf[(FirstUnread + i - 1) % Size]
  <2>1. FirstUnread \in 0..Capacity /\ i - 1 \in 0..Capacity
    BY <1>1, Indices DEF UnreadForm, IndexForm
  <2>2. FirstUnread + i - 1 = FirstUnread + (i - 1)
    BY <1>1, <2>1
  <2>3. (FirstUnread + i - 1) % Size = At(FirstUnread, i - 1)
    BY <2>2 DEF At
  <2>4. At(FirstUnread, i - 1) \in Slots
    BY <1>1, <2>1, Places DEF PlaceForm, UnreadForm
  <2> QED BY <2>3, <2>4 DEF RingInv, InOrder, TypeOK
<1>3. /\ Contents \in Seq(Fibers \cup {Empty}) /\ Len(Contents) = Unread
      /\ \A i \in 1..Unread : Contents[i] = pushed[Len(runable) + i]
  BY <1>1, <1>2 DEF Contents
<1> DEFINE s == runable \o Contents
<1>4. s \in Seq(Fibers \cup {Empty}) /\ Len(s) = Len(pushed)
  <2>1. Len(s) = Len(runable) + Len(Contents)
    BY <1>1, <1>3
  <2>2. Len(pushed) = Len(runable) + Unread
    BY DEF RingInv, InOrder
  <2>3. s \in Seq(Fibers \cup {Empty})
    BY <1>1, <1>3
  <2> QED BY <1>3, <2>1, <2>2, <2>3
<1>5. ASSUME NEW i \in 1..Len(s) PROVE s[i] = pushed[i]
  <2>1. CASE i \in 1..Len(runable)
    BY <1>1, <1>3, <2>1 DEF RingInv, InOrder
  <2>2. CASE i \notin 1..Len(runable)
    <3>1. i - Len(runable) \in 1..Unread /\ Len(runable) + (i - Len(runable)) = i
      BY <1>1, <1>3, <2>2
    <3>2. s[i] = Contents[i - Len(runable)]
      BY <1>1, <1>3, <2>2, <3>1
    <3> QED BY <1>3, <3>1, <3>2
  <2> QED BY <2>1, <2>2
<1>6. s = pushed
  <2>1. pushed \in Seq(Fibers \cup {Empty})
    BY <1>1
  <2> QED BY <1>4, <1>5, <2>1, SeqEqual
<1> QED BY <1>6

\* For any producers, fibers and capacity, the indices stay in the ring, what is pushed
\* is a fiber and nothing is popped that was not owed (processer.cc:70, 188-195).
THEOREM QueueTypes == Spec => []TypeOK
BY QueueHolds, PTL DEF QueueInv

\* As long as no two pushes overlap, the processer takes fibers from its newQueue in the
\* order in which they were published, through every wrap of the ring (processer.cc:70).
THEOREM FirstInFirstOut == Spec => []FifoUnlessOverlap
<1>1. QueueInv => FifoUnlessOverlap
  BY InSequence DEF QueueInv, RingKept, FifoUnlessOverlap
<1> QED BY <1>1, QueueHolds, PTL

\* As long as no two pushes overlap, m_newfiberCount and the pops still owed account for
\* every fiber in the ring but those still to be counted, and no counted pop finds the
\* ring empty (processer.cc:188-195).
THEOREM CountsAreMet == Spec => []CountedUnlessOverlap
<1>1. QueueInv => CountedUnlessOverlap
  BY DEF QueueInv, RingKept, RingInv, Counted, CountedUnlessOverlap
<1> QED BY <1>1, QueueHolds, PTL
=============================================================================
