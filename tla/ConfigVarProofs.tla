---------------------------- MODULE ConfigVarProofs ----------------------------
(***************************************************************************)
(* Proofs about ConfigVar, for any number of threads, variables, values    *)
(* and listeners.                                                          *)
(***************************************************************************)
EXTENDS ConfigVar, FiniteSetTheorems, TLAPS

-----------------------------------------------------------------------------
(* The inductive invariant *)

Telling(n) == {t \in Threads : pc[t] = "tell" /\ set[t][1] = n}
AddsTo(t, n) == pc[t] \in {"count", "insert"} /\ set[t][1] = n

\* The lock of a variable counts the threads that tell its listeners, and names
\* the one that adds a listener; it is never both.
LockOf(n) ==
    /\ m_mutex[n].readers = Cardinality(Telling(n))
    /\ \A t \in Threads : m_mutex[n].writer = t <=> AddsTo(t, n)
    /\ m_mutex[n].writer # NoThread => Telling(n) = {}
LocksHeld == \A n \in Names : LockOf(n)

\* A thread has listeners left to call only while it holds their lock.
LeftHeld ==
    \A t \in Threads : /\ left[t] # {} => pc[t] = "tell"
                       /\ left[t] \subseteq m_cbs[set[t][1]]

\* No identifier is beyond the calls of addListener there were.
Counted ==
    /\ s_fun_id <= adds
    /\ \A t \in Threads : /\ pc[t] = "count" => fun_id[t] < adds
                          /\ pc[t] = "insert" => s_fun_id # 0

\* What a listener knows while one setValue is on its way: those already told
\* know the new value, and nobody else is setting.
Knows(n) ==
    \A t \in Setting(n) :
        /\ \A u \in Setting(n) : u = t
        /\ \A i \in m_cbs[n] \ left[t] : known[<<n, i>>] = set[t][2]
Informed ==
    \A n \in Names \ overlapped :
        /\ Knows(n)
        /\ Setting(n) = {} => \A i \in m_cbs[n] : known[<<n, i>>] = m_val[n]

\* As long as no two threads met in addListener, the counter is beyond every
\* identifier given, and the one that is about to be given is new.
Fresh ==
    ~crossed =>
        /\ ~replaced
        /\ \A t, u \in Adding : t = u
        /\ \A n \in Names : \A i \in m_cbs[n] : i <= s_fun_id
        /\ \A t \in Threads :
             /\ pc[t] = "count" => fun_id[t] = s_fun_id
             /\ pc[t] = "insert" => \A n \in Names : s_fun_id \notin m_cbs[n]

ConfigInv == TypeOK /\ LocksHeld /\ LeftHeld /\ Counted /\ Informed /\ Fresh

-----------------------------------------------------------------------------
(* Locks *)

\* glibc's counter of readers neither overflows nor underflows in balanced use.
LEMMA ReaderCount ==
    ASSUME NEW m \in Nat
    PROVE  /\ \A r \in Nat : r % (m + 1) \in 0..m
           /\ \A r \in 0..m : r % (m + 1) = r
           /\ \A r \in 1..m : (r + m) % (m + 1) = r - 1
<1>1. ASSUME NEW r \in Nat PROVE r % (m + 1) \in 0..m
  OBVIOUS
<1>2. ASSUME NEW r \in 0..m PROVE r % (m + 1) = r
  OBVIOUS
<1>3. ASSUME NEW r \in 1..m PROVE (r + m) % (m + 1) = r - 1
  <2>1. r + m = (m + 1) * 1 + (r - 1) /\ r - 1 \in 0..m
    OBVIOUS
  <2> QED BY <2>1
<1> QED BY <1>1, <1>2, <1>3

\* Locking and unlocking a lock of RWMutex gives a lock.
LEMMA LockTypes ==
    ASSUME NEW lk \in Locks, NEW t \in Threads
    PROVE  /\ ReadLocked(lk, t) \in Locks
           /\ WriteLocked(lk, t) \in Locks
           /\ ThenUnlocked(lk, t) \in Locks
<1>1. /\ (lk.readers + 1) % (MaxReaders + 1) \in 0..MaxReaders
      /\ (lk.readers + MaxReaders) % (MaxReaders + 1) \in 0..MaxReaders
  BY ReaderCount, MaxReadersAssumption DEF Locks
<1> QED BY <1>1 DEF Locks, ReadLocked, WriteLocked, ThenUnlocked

\* The threads that tell the listeners of a variable can be counted.
LEMMA TellingCount ==
    ASSUME NEW n
    PROVE  /\ IsFiniteSet(Telling(n)) /\ Cardinality(Telling(n)) \in 0..MaxReaders
           /\ IsFiniteSet(Telling(n)') /\ Cardinality(Telling(n)') \in 0..MaxReaders
<1>1. \A S : S \subseteq Threads =>
             IsFiniteSet(S) /\ Cardinality(S) \in 0..MaxReaders
  BY FS_Subset, FS_CardinalityType, ReadersAssumption, MaxReadersAssumption
<1>2. Telling(n) \subseteq Threads /\ Telling(n)' \subseteq Threads
  BY DEF Telling
<1> QED BY <1>1, <1>2

-----------------------------------------------------------------------------
(* Types *)

\* At the start everything has its type.
LEMMA ConfigTypesInit == Init => TypeOK
<1> SUFFICES ASSUME Init PROVE TypeOK
  OBVIOUS
<1>1. (CHOOSE n \in Names : TRUE) \in Names
  BY NamesAssumption
<1>2. Unlocked \in Locks
  BY MaxReadersAssumption DEF Unlocked, Locks
<1>3. set \in [Threads -> Settings]
  BY <1>1, ValuesAssumption DEF Init, Settings
<1>4. m_mutex \in [Names -> Locks]
  BY <1>2 DEF Init
<1>5. known \in [Names \X Ids -> Values]
  BY ValuesAssumption DEF Init
<1>6. /\ m_val \in [Names -> Values] /\ m_cbs \in [Names -> SUBSET Ids]
      /\ fun_id \in [Threads -> 0..MaxAdds] /\ plan \in [Threads -> SUBSET Settings]
      /\ left \in [Threads -> SUBSET Ids]
      /\ pc \in [Threads -> {"out", "tell", "write", "count", "insert"}]
  BY ValuesAssumption, LoadsAssumption DEF Init
<1>7. /\ made \in SUBSET Names /\ overlapped \in SUBSET Names
      /\ s_fun_id \in 0..MaxAdds /\ loads \in 0..MaxLoads /\ adds \in 0..MaxAdds
  BY LoadsAssumption DEF Init
<1>8. replaced \in BOOLEAN /\ crossed \in BOOLEAN
  BY Zenon DEF Init
<1> QED BY <1>3, <1>4, <1>5, <1>6, <1>7, <1>8, Zenon DEF TypeOK

\* No operation on a variable breaks a type.
LEMMA ConfigTypesStep == TypeOK /\ Counted /\ [Next]_vars => TypeOK'
<1> SUFFICES ASSUME TypeOK, Counted, [Next]_vars PROVE TypeOK'
  OBVIOUS
<1> USE LoadsAssumption DEF TypeOK
<1>1. CASE UNCHANGED vars
  BY <1>1 DEF vars, data, locals, history
<1>2. ASSUME NEW t \in Threads, Load(t) PROVE TypeOK'
  <2> PICK ns \in SUBSET Names : \E v \in [ns -> Values] :
             plan' = [plan EXCEPT ![t] = {<<n, v[n]>> : n \in ns}]
    BY <1>2 DEF Load
  <2> PICK v \in [ns -> Values] : plan' = [plan EXCEPT ![t] = {<<n, v[n]>> : n \in ns}]
    OBVIOUS
  <2>1. {<<n, v[n]>> : n \in ns} \in SUBSET Settings
    BY DEF Settings
  <2> QED BY <1>2, <2>1 DEF Load, data, history
<1>3. ASSUME NEW t \in Threads, SetStart(t) PROVE TypeOK'
  <2> PICK p \in plan[t] : p = CHOOSE q \in plan[t] : TRUE
    BY <1>3 DEF SetStart
  <2>1. p \in Settings /\ p[1] \in Names
    BY DEF Settings
  <2>2. /\ plan' = [plan EXCEPT ![t] = @ \ {p}]
        /\ \/ UNCHANGED <<m_mutex, pc, set, left, overlapped>>
           \/ /\ m_mutex' = [m_mutex EXCEPT ![p[1]] = ReadLocked(m_mutex[p[1]], t)]
              /\ pc' = [pc EXCEPT ![t] = "tell"]
              /\ set' = [set EXCEPT ![t] = p]
              /\ left' = [left EXCEPT ![t] = m_cbs[p[1]]]
              /\ overlapped' = overlapped \cup {m \in {p[1]} : Setting(p[1]) # {}}
        /\ UNCHANGED <<made, m_val, m_cbs, s_fun_id, fun_id, loads, adds, known, replaced,
                       crossed>>
    BY <1>3 DEF SetStart, Locked
  <2>3. ReadLocked(m_mutex[p[1]], t) \in Locks
    BY <2>1, LockTypes
  <2> QED BY <2>1, <2>2, <2>3
<1>4. ASSUME NEW t \in Threads, Tell(t) PROVE TypeOK'
  <2>1. set[t][2] \in Values
    BY DEF Settings
  <2> QED BY <1>4, <2>1 DEF Tell, Told, data
<1>5. ASSUME NEW t \in Threads, Release(t) PROVE TypeOK'
  <2>1. ThenUnlocked(m_mutex[set[t][1]], t) \in Locks
    BY LockTypes DEF Settings
  <2> QED BY <1>5, <2>1 DEF Release, Locked, history
<1>6. ASSUME NEW t \in Threads, Write(t) PROVE TypeOK'
  <2>1. set[t][2] \in Values
    BY DEF Settings
  <2> QED BY <1>6, <2>1 DEF Write, history
<1>7. ASSUME NEW t \in Threads, NEW n \in Names, AddStart(t, n) PROVE TypeOK'
  <2>1. WriteLocked(m_mutex[n], t) \in Locks /\ <<n, Default>> \in Settings
    BY LockTypes, ValuesAssumption DEF Settings
  <2> QED BY <1>7, <2>1 DEF AddStart, Locked
<1>8. ASSUME NEW t \in Threads, AddCount(t) PROVE TypeOK'
  <2>1. CountUp(t) \in 0..MaxAdds
    BY <1>8 DEF AddCount, CountUp, Counted
  <2> QED BY <1>8, <2>1 DEF AddCount, data, history
<1>9. ASSUME NEW t \in Threads, AddInsert(t) PROVE TypeOK'
  <2>1. /\ set[t][1] \in Names /\ m_val[set[t][1]] \in Values
        /\ ThenUnlocked(m_mutex[set[t][1]], t) \in Locks
    BY LockTypes DEF Settings
  <2>2. s_fun_id \in Ids
    BY <1>9 DEF AddInsert, Counted, Ids
  <2> QED BY <1>9, <2>1, <2>2 DEF AddInsert, Locked
<1>10. ASSUME NEW t \in Threads, NEW n \in Names, Erase(t, n) PROVE TypeOK'
  BY <1>10 DEF Erase, locals, history
<1>11. ASSUME NEW n \in Names, Lookup(n) PROVE TypeOK'
  BY <1>11 DEF Lookup, data, locals, history
<1> QED BY <1>1, <1>2, <1>3, <1>4, <1>5, <1>6, <1>7, <1>8, <1>9, <1>10, <1>11
    DEF Next, Step

-----------------------------------------------------------------------------
(* The locks *)

\* A step that leaves a variable's lock and its holders alone keeps them in step.
LEMMA LockKept ==
    ASSUME NEW n, LockOf(n), m_mutex'[n] = m_mutex[n],
           \A t \in Threads : /\ pc'[t] = "tell" /\ set'[t][1] = n
                                   <=> pc[t] = "tell" /\ set[t][1] = n
                              /\ AddsTo(t, n)' <=> AddsTo(t, n)
    PROVE  LockOf(n)'
<1>1. Telling(n)' = Telling(n)
  BY DEF Telling
<1> QED BY <1>1 DEF LockOf

\* setValue takes the read lock: the thread joins the readers.
LEMMA LockRead ==
    ASSUME TypeOK, NEW n \in Names, LockOf(n), NEW t \in Threads, pc[t] = "out",
           CanRead(m_mutex[n], t), m_mutex'[n] = ReadLocked(m_mutex[n], t),
           pc' = [pc EXCEPT ![t] = "tell"], set'[t][1] = n,
           \A u \in Threads : u # t => set'[u] = set[u]
    PROVE  LockOf(n)'
<1> USE DEF TypeOK
<1>1. Telling(n)' = Telling(n) \cup {t} /\ t \notin Telling(n)
  BY DEF Telling
<1>2. Cardinality(Telling(n)') = Cardinality(Telling(n)) + 1
  <2>1. IsFiniteSet(Telling(n))
    BY TellingCount
  <2>2. Cardinality(Telling(n) \cup {t}) = Cardinality(Telling(n)) + 1
    BY <1>1, <2>1, FS_AddElement, Zenon
  <2> QED BY <1>1, <2>2
<1>3. m_mutex[n].writer = NoThread
  BY DEF LockOf, AddsTo, CanRead
<1>4. m_mutex[n] \in Locks /\ m_mutex[n].readers = Cardinality(Telling(n))
  BY DEF LockOf
<1>5. (m_mutex[n].readers + 1) % (MaxReaders + 1) = Cardinality(Telling(n)')
  BY <1>2, <1>4, TellingCount, ReaderCount, MaxReadersAssumption
<1>6. /\ m_mutex'[n].readers = Cardinality(Telling(n)')
      /\ m_mutex'[n].writer = NoThread
  BY <1>3, <1>4, <1>5, NoThreadAssumption DEF ReadLocked, Locks
<1>7. \A u \in Threads : ~AddsTo(u, n)'
  BY <1>3, NoThreadAssumption DEF LockOf, AddsTo
<1> QED BY <1>6, <1>7, NoThreadAssumption DEF LockOf

\* setValue gives the read lock back after the listeners: the thread leaves the readers.
LEMMA LockReleased ==
    ASSUME TypeOK, NEW n \in Names, LockOf(n), NEW t \in Threads, pc[t] = "tell",
           set[t][1] = n, m_mutex'[n] = ThenUnlocked(m_mutex[n], t),
           pc' = [pc EXCEPT ![t] = "write"], set' = set
    PROVE  LockOf(n)'
<1> USE DEF TypeOK
<1>1. Telling(n)' = Telling(n) \ {t} /\ t \in Telling(n)
  BY DEF Telling
<1>2. /\ Cardinality(Telling(n)') = Cardinality(Telling(n)) - 1
      /\ Cardinality(Telling(n)) # 0
  <2>1. IsFiniteSet(Telling(n))
    BY TellingCount
  <2>2. Cardinality(Telling(n) \ {t}) = Cardinality(Telling(n)) - 1
    BY <1>1, <2>1, FS_RemoveElement
  <2>3. Cardinality(Telling(n)) # 0
    BY <1>1, <2>1, FS_EmptySet
  <2> QED BY <1>1, <2>2, <2>3
<1>3. m_mutex[n].writer = NoThread
  BY <1>1 DEF LockOf
<1>4. m_mutex[n] \in Locks /\ m_mutex[n].readers = Cardinality(Telling(n))
  BY DEF LockOf
<1>5. (m_mutex[n].readers + MaxReaders) % (MaxReaders + 1) = Cardinality(Telling(n)')
  BY <1>2, <1>4, TellingCount, ReaderCount, MaxReadersAssumption
<1>6. /\ m_mutex'[n].readers = Cardinality(Telling(n)')
      /\ m_mutex'[n].writer = NoThread
  BY <1>3, <1>4, <1>5, NoThreadAssumption DEF ThenUnlocked, Locks
<1>7. \A u \in Threads : ~AddsTo(u, n)'
  BY <1>3, NoThreadAssumption DEF LockOf, AddsTo
<1> QED BY <1>6, <1>7, NoThreadAssumption DEF LockOf

\* A thread that may write finds nobody at the variable's listeners.
LEMMA NobodyTells ==
    ASSUME TypeOK, NEW n \in Names, LockOf(n), NEW t \in Threads,
           CanWrite(m_mutex[n], t), ~AddsTo(t, n)
    PROVE  /\ m_mutex[n].writer = NoThread /\ m_mutex[n].readers = 0
           /\ Telling(n) = {} /\ \A u \in Threads : ~AddsTo(u, n)
<1>1. m_mutex[n].writer = NoThread /\ m_mutex[n].readers = 0
  BY DEF CanWrite, LockOf
<1>2. Telling(n) = {}
  BY <1>1, TellingCount, FS_EmptySet DEF LockOf
<1> QED BY <1>1, <1>2, NoThreadAssumption DEF LockOf

\* addListener takes the write lock: the thread becomes the writer.
LEMMA LockWrite ==
    ASSUME TypeOK, NEW n \in Names, LockOf(n), NEW t \in Threads, pc[t] = "out",
           CanWrite(m_mutex[n], t), m_mutex'[n] = WriteLocked(m_mutex[n], t),
           pc' = [pc EXCEPT ![t] = "count"], set'[t][1] = n,
           \A u \in Threads : u # t => set'[u] = set[u]
    PROVE  LockOf(n)'
<1> USE DEF TypeOK
<1>1. /\ m_mutex[n].readers = 0
      /\ Telling(n) = {} /\ \A u \in Threads : ~AddsTo(u, n)
  BY NobodyTells DEF AddsTo
<1>2. Telling(n)' = {}
  BY <1>1 DEF Telling
<1>3. m_mutex'[n].readers = 0 /\ m_mutex'[n].writer = t
  BY <1>1 DEF WriteLocked, Locks
<1>4. \A u \in Threads : AddsTo(u, n)' <=> u = t
  BY <1>1 DEF AddsTo
<1> QED BY <1>2, <1>3, <1>4, FS_EmptySet DEF LockOf

\* addListener gives the write lock back: there is no writer.
LEMMA LockWritten ==
    ASSUME TypeOK, NEW n \in Names, LockOf(n), NEW t \in Threads, AddsTo(t, n),
           m_mutex'[n] = ThenUnlocked(m_mutex[n], t),
           pc' = [pc EXCEPT ![t] = "out"], set' = set
    PROVE  LockOf(n)'
<1> USE DEF TypeOK
<1>1. /\ m_mutex[n].writer = t /\ Telling(n) = {} /\ m_mutex[n].readers = 0
      /\ \A u \in Threads : AddsTo(u, n) => u = t
  BY NoThreadAssumption, FS_EmptySet DEF LockOf
<1>2. Telling(n)' = {}
  BY <1>1 DEF Telling
<1>3. m_mutex'[n].readers = 0 /\ m_mutex'[n].writer = NoThread
  BY <1>1 DEF ThenUnlocked, Locks
<1>4. \A u \in Threads : ~AddsTo(u, n)'
  BY <1>1 DEF AddsTo
<1> QED BY <1>2, <1>3, <1>4, FS_EmptySet, NoThreadAssumption DEF LockOf

\* What setValue does at its start: it passes over the name, or takes the lock and
\* all listeners.
Apart == <<made, m_val, m_cbs, s_fun_id, fun_id, adds, known, replaced, crossed>>
Passes == UNCHANGED <<Apart, m_mutex, pc, set, left, overlapped>>
Takes(t, p) ==
    /\ UNCHANGED Apart
    /\ pc[t] = "out" /\ pc' = [pc EXCEPT ![t] = "tell"]
    /\ CanRead(m_mutex[p[1]], t)
    /\ m_mutex' = [m_mutex EXCEPT ![p[1]] = ReadLocked(m_mutex[p[1]], t)]
    /\ set' = [set EXCEPT ![t] = p]
    /\ left' = [left EXCEPT ![t] = m_cbs[p[1]]]
    /\ overlapped' = overlapped \cup {m \in {p[1]} : Setting(p[1]) # {}}

\* setValue takes the next setting of the plan, or passes over those whose value is set already.
LEMMA SetStartForm ==
    ASSUME TypeOK, NEW t \in Threads, SetStart(t)
    PROVE  Passes \/ \E p \in Settings : Takes(t, p)
<1> PICK p \in plan[t] : p = CHOOSE q \in plan[t] : TRUE
  BY DEF SetStart
<1>1. p \in Settings
  BY DEF TypeOK
<1>2. Passes \/ Takes(t, p)
  BY DEF SetStart, Locked, Passes, Takes, Apart
<1> QED BY <1>1, <1>2

\* Every step keeps each lock held by exactly the threads inside its sections.
LEMMA LocksStep ==
    ASSUME TypeOK, LocksHeld, Next
    PROVE  LocksHeld'
<1> USE DEF TypeOK
<1> SUFFICES ASSUME NEW n \in Names PROVE LockOf(n)'
  BY DEF LocksHeld
<1>0. LockOf(n)
  BY DEF LocksHeld
<1>1. ASSUME NEW t \in Threads, Load(t) \/ Tell(t) PROVE LockOf(n)'
  BY <1>0, <1>1, LockKept DEF Load, Tell, data, AddsTo
<1>2. ASSUME NEW t \in Threads, Write(t) PROVE LockOf(n)'
  BY <1>0, <1>2, LockKept DEF Write, AddsTo
<1>3. ASSUME NEW t \in Threads, AddCount(t) PROVE LockOf(n)'
  BY <1>0, <1>3, LockKept DEF AddCount, data, AddsTo
<1>4. ASSUME NEW t \in Threads, NEW m \in Names, Erase(t, m) PROVE LockOf(n)'
  BY <1>0, <1>4, LockKept DEF Erase, locals, AddsTo
<1>5. ASSUME NEW m \in Names, Lookup(m) PROVE LockOf(n)'
  BY <1>0, <1>5, LockKept DEF Lookup, data, locals, AddsTo
<1>6. ASSUME NEW t \in Threads, SetStart(t) PROVE LockOf(n)'
  <2>1. CASE Passes
    BY <1>0, <2>1, LockKept DEF Passes, AddsTo
  <2>2. ASSUME NEW p \in Settings, Takes(t, p) PROVE LockOf(n)'
    <3>1. p[1] \in Names
      BY DEF Settings
    <3>2. CASE p[1] = n
      BY <1>0, <2>2, <3>2, LockRead DEF Takes
    <3>3. CASE p[1] # n
      BY <1>0, <2>2, <3>1, <3>3, LockKept DEF Takes, AddsTo
    <3> QED BY <3>2, <3>3
  <2> QED BY <1>6, <2>1, <2>2, SetStartForm
<1>7. ASSUME NEW t \in Threads, Release(t) PROVE LockOf(n)'
  <2>1. set[t][1] \in Names
    BY DEF Settings
  <2>2. CASE set[t][1] = n
    BY <1>0, <1>7, <2>2, LockReleased DEF Release, Locked
  <2>3. CASE set[t][1] # n
    BY <1>0, <1>7, <2>1, <2>3, LockKept DEF Release, Locked, AddsTo
  <2> QED BY <2>2, <2>3
<1>8. ASSUME NEW t \in Threads, NEW m \in Names, AddStart(t, m) PROVE LockOf(n)'
  <2>1. CASE m = n
    BY <1>0, <1>8, <2>1, LockWrite DEF AddStart, Locked, Idle
  <2>2. CASE m # n
    BY <1>0, <1>8, <2>2, LockKept DEF AddStart, Locked, Idle, AddsTo
  <2> QED BY <2>1, <2>2
<1>9. ASSUME NEW t \in Threads, AddInsert(t) PROVE LockOf(n)'
  <2>1. set[t][1] \in Names
    BY DEF Settings
  <2>2. CASE set[t][1] = n
    BY <1>0, <1>9, <2>2, LockWritten DEF AddInsert, Locked, AddsTo
  <2>3. CASE set[t][1] # n
    BY <1>0, <1>9, <2>1, <2>3, LockKept DEF AddInsert, Locked, AddsTo
  <2> QED BY <2>2, <2>3
<1> QED BY <1>1, <1>2, <1>3, <1>4, <1>5, <1>6, <1>7, <1>8, <1>9 DEF Next, Step

-----------------------------------------------------------------------------
(* Listeners *)

\* The listeners a thread has yet to tell stay registered: deleting one takes the write lock.
LEMMA LeftStep ==
    ASSUME TypeOK, LocksHeld, LeftHeld, Next
    PROVE  LeftHeld'
<1> USE DEF TypeOK
<1> SUFFICES ASSUME NEW u \in Threads
             PROVE  /\ left'[u] # {} => pc'[u] = "tell"
                    /\ left'[u] \subseteq m_cbs'[set'[u][1]]
  BY DEF LeftHeld
<1>0. /\ left[u] # {} => pc[u] = "tell"
      /\ left[u] \subseteq m_cbs[set[u][1]]
      /\ set[u][1] \in Names
  BY DEF LeftHeld, Settings
<1> DEFINE Fine == /\ left'[u] # {} => pc'[u] = "tell"
                   /\ left'[u] \subseteq m_cbs'[set'[u][1]]
<1>1. ASSUME NEW t \in Threads, Load(t) \/ Tell(t) PROVE Fine
  BY <1>0, <1>1 DEF Load, Tell, data
<1>2. ASSUME NEW t \in Threads, Release(t) PROVE Fine
  BY <1>0, <1>2 DEF Release
<1>3. ASSUME NEW t \in Threads, Write(t) \/ AddCount(t) PROVE Fine
  BY <1>0, <1>3 DEF Write, AddCount, data
<1>4. ASSUME NEW t \in Threads, NEW n \in Names, AddStart(t, n) PROVE Fine
  BY <1>0, <1>4 DEF AddStart, Idle
<1>5. ASSUME NEW t \in Threads, AddInsert(t) PROVE Fine
  BY <1>0, <1>5 DEF AddInsert
<1>6. ASSUME NEW t \in Threads, NEW n \in Names, Erase(t, n) PROVE Fine
  <2>1. Telling(n) = {}
    BY <1>6, NobodyTells DEF LocksHeld, Erase, MayErase, Idle, AddsTo
  <2>2. set[u][1] = n => left[u] = {}
    BY <1>0, <2>1 DEF Telling
  <2>3. UNCHANGED <<left, pc, set>> /\ \A m \in Names : m # n => m_cbs'[m] = m_cbs[m]
    BY <1>6 DEF Erase, locals
  <2> QED BY <1>0, <2>2, <2>3
<1>7. ASSUME NEW n \in Names, Lookup(n) PROVE Fine
  BY <1>0, <1>7 DEF Lookup, data, locals
<1>8. ASSUME NEW t \in Threads, SetStart(t) PROVE Fine
  <2>1. CASE Passes
    BY <1>0, <2>1 DEF Passes, Apart
  <2>2. ASSUME NEW p \in Settings, Takes(t, p) PROVE Fine
    BY <1>0, <2>2 DEF Takes, Apart, Settings
  <2> QED BY <1>8, <2>1, <2>2, SetStartForm
<1> QED BY <1>1, <1>2, <1>3, <1>4, <1>5, <1>6, <1>7, <1>8 DEF Next, Step

\* The static counter never runs ahead of the calls of addListener.
LEMMA CountedStep ==
    ASSUME TypeOK, Counted, Next
    PROVE  Counted'
<1> USE DEF TypeOK, Counted
<1>1. ASSUME NEW t \in Threads, Load(t) \/ Tell(t) \/ Release(t) \/ Write(t)
      PROVE  Counted'
  BY <1>1 DEF Load, Tell, Release, Write
<1>2. ASSUME NEW t \in Threads, SetStart(t) PROVE Counted'
  BY <1>2, SetStartForm DEF Passes, Takes, Apart
<1>3. ASSUME NEW t \in Threads, NEW n \in Names, AddStart(t, n) PROVE Counted'
  BY <1>3, LoadsAssumption DEF AddStart
<1>4. ASSUME NEW t \in Threads, AddCount(t) PROVE Counted'
  BY <1>4, LoadsAssumption DEF AddCount, CountUp
<1>5. ASSUME NEW t \in Threads, AddInsert(t) PROVE Counted'
  BY <1>5 DEF AddInsert
<1>6. ASSUME NEW t \in Threads, NEW n \in Names, Erase(t, n) PROVE Counted'
  BY <1>6 DEF Erase, locals
<1>7. ASSUME NEW n \in Names, Lookup(n) PROVE Counted'
  BY <1>7 DEF Lookup, locals
<1> QED BY <1>1, <1>2, <1>3, <1>4, <1>5, <1>6, <1>7 DEF Next, Step

\* What Informed says of one variable.
InformedOf(n) ==
    n \notin overlapped =>
        /\ Knows(n)
        /\ Setting(n) = {} => \A i \in m_cbs[n] : known[<<n, i>>] = m_val[n]

\* A step that leaves a variable, its listeners and its setters alone keeps its listeners informed.
LEMMA InformedKept ==
    ASSUME NEW n, InformedOf(n), overlapped \subseteq overlapped',
           m_val'[n] = m_val[n], m_cbs'[n] \subseteq m_cbs[n],
           \A i \in m_cbs[n] : known'[<<n, i>>] = known[<<n, i>>],
           \A t \in Threads : /\ t \in Setting(n)' <=> t \in Setting(n)
                              /\ t \in Setting(n) => set'[t] = set[t] /\ left'[t] = left[t]
    PROVE  InformedOf(n)'
<1>1. Setting(n)' = Setting(n)
  BY DEF Setting
<1>2. Setting(n) \subseteq Threads
  BY DEF Setting
<1> QED BY <1>1, <1>2 DEF InformedOf, Knows

\* Every step keeps the listeners of each variable informed, unless a write overlaps.
LEMMA InformedStep ==
    ASSUME TypeOK, LeftHeld, Counted, Informed, Next
    PROVE  Informed'
<1> USE DEF TypeOK
<1> SUFFICES ASSUME NEW n \in Names PROVE InformedOf(n)'
  BY DEF Informed, InformedOf
<1>0. InformedOf(n)
  BY DEF Informed, InformedOf
<1>1. ASSUME NEW t \in Threads, Load(t) \/ Release(t) PROVE InformedOf(n)'
  BY <1>0, <1>1, InformedKept DEF Load, Release, data, history, Setting
<1>2. ASSUME NEW t \in Threads, AddCount(t) PROVE InformedOf(n)'
  BY <1>0, <1>2, InformedKept DEF AddCount, data, history, Setting
<1>3. ASSUME NEW t \in Threads, NEW m \in Names, AddStart(t, m) PROVE InformedOf(n)'
  BY <1>0, <1>3, InformedKept DEF AddStart, Idle, Setting
<1>4. ASSUME NEW t \in Threads, NEW m \in Names, Erase(t, m) PROVE InformedOf(n)'
  <2>1. m_cbs'[n] \subseteq m_cbs[n]
    BY <1>4 DEF Erase
  <2> QED BY <1>0, <1>4, <2>1, InformedKept DEF Erase, locals, history, Setting
<1>5. ASSUME NEW m \in Names, Lookup(m) PROVE InformedOf(n)'
  BY <1>0, <1>5, InformedKept DEF Lookup, data, locals, history, Setting
<1>6. ASSUME NEW t \in Threads, SetStart(t) PROVE InformedOf(n)'
  <2>1. CASE Passes
    BY <1>0, <2>1, InformedKept DEF Passes, Apart, Setting
  <2>2. ASSUME NEW p \in Settings, Takes(t, p) PROVE InformedOf(n)'
    <3>1. CASE p[1] # n
      BY <1>0, <2>2, <3>1, InformedKept DEF Takes, Apart, Setting
    <3>2. CASE p[1] = n
      <4> SUFFICES ASSUME n \notin overlapped' PROVE InformedOf(n)'
        BY DEF InformedOf
      <4>1. Setting(n) = {} /\ Setting(n)' = {t}
        BY <2>2, <3>2 DEF Takes, Setting
      <4>2. left'[t] = m_cbs'[n]
        BY <2>2, <3>2 DEF Takes, Apart
      <4> QED BY <4>1, <4>2 DEF InformedOf, Knows
    <3> QED BY <3>1, <3>2
  <2> QED BY <1>6, <2>1, <2>2, SetStartForm
<1>7. ASSUME NEW t \in Threads, Tell(t) PROVE InformedOf(n)'
  <2>1. PICK i : /\ left' = [left EXCEPT ![t] = @ \ {i}]
                 /\ known' = [known EXCEPT ![<<set[t][1], i>>] = Told(t)]
    BY <1>7 DEF Tell
  <2>2. pc[t] = "tell" /\ UNCHANGED <<m_val, m_cbs, pc, set, overlapped>>
    BY <1>7 DEF Tell, data
  <2>3. \A j \in m_cbs[n] : <<n, j>> \in Names \X Ids
    OBVIOUS
  <2>4. CASE set[t][1] # n
    <3>1. \A j \in m_cbs[n] : known'[<<n, j>>] = known[<<n, j>>]
      BY <2>1, <2>3, <2>4
    <3> QED BY <1>0, <2>1, <2>2, <2>4, <3>1, InformedKept DEF Setting
  <2>5. CASE set[t][1] = n
    <3> SUFFICES ASSUME n \notin overlapped PROVE InformedOf(n)'
      BY <2>2 DEF InformedOf
    <3>1. t \in Setting(n) /\ Setting(n)' = Setting(n) /\ \A u \in Setting(n) : u = t
      BY <1>0, <2>2, <2>5 DEF Setting, InformedOf, Knows
    <3>2. \A j \in m_cbs[n] \ left[t] : known[<<n, j>>] = set[t][2]
      BY <1>0, <3>1 DEF InformedOf, Knows
    <3>3. \A j \in m_cbs[n] \ left'[t] : known'[<<n, j>>] = set[t][2]
      BY <2>1, <2>3, <2>5, <3>2 DEF Told
    <3> QED BY <2>2, <3>1, <3>3 DEF InformedOf, Knows
  <2> QED BY <2>4, <2>5
<1>8. ASSUME NEW t \in Threads, Write(t) PROVE InformedOf(n)'
  <2>1. /\ pc[t] = "write" /\ pc' = [pc EXCEPT ![t] = "out"]
        /\ m_val' = [m_val EXCEPT ![set[t][1]] = set[t][2]]
        /\ UNCHANGED <<m_cbs, set, left, known, overlapped>>
    BY <1>8 DEF Write, history
  <2>2. CASE set[t][1] # n
    BY <1>0, <2>1, <2>2, InformedKept DEF Setting
  <2>3. CASE set[t][1] = n
    <3> SUFFICES ASSUME n \notin overlapped PROVE InformedOf(n)'
      BY <2>1 DEF InformedOf
    <3>1. t \in Setting(n) /\ \A u \in Setting(n) : u = t
      BY <1>0, <2>1, <2>3 DEF Setting, InformedOf, Knows
    <3>2. left[t] = {}
      BY <2>1 DEF LeftHeld
    <3>3. \A j \in m_cbs[n] : known[<<n, j>>] = set[t][2]
      BY <1>0, <3>1, <3>2 DEF InformedOf, Knows
    <3>4. Setting(n)' = {} /\ m_val'[n] = set[t][2]
      BY <2>1, <2>3, <3>1 DEF Setting
    <3> QED BY <2>1, <3>3, <3>4 DEF InformedOf, Knows
  <2> QED BY <2>2, <2>3
<1>9. ASSUME NEW t \in Threads, AddInsert(t) PROVE InformedOf(n)'
  <2>1. /\ pc[t] = "insert" /\ pc' = [pc EXCEPT ![t] = "out"]
        /\ m_cbs' = [m_cbs EXCEPT ![set[t][1]] = @ \cup {s_fun_id}]
        /\ known' = [known EXCEPT ![<<set[t][1], s_fun_id>>] = m_val[set[t][1]]]
        /\ overlapped' = overlapped \cup {m \in {set[t][1]} : Setting(set[t][1]) # {}}
        /\ UNCHANGED <<m_val, set, left>>
    BY <1>9 DEF AddInsert
  <2>2. \A i \in m_cbs'[n] : <<n, i>> \in Names \X Ids \/ i = s_fun_id
    BY <2>1
  <2>3. CASE set[t][1] # n
    BY <1>0, <2>1, <2>2, <2>3, InformedKept DEF Setting
  <2>4. CASE set[t][1] = n
    <3> SUFFICES ASSUME n \notin overlapped' PROVE InformedOf(n)'
      BY DEF InformedOf
    <3>1. n \notin overlapped /\ Setting(n) = {}
      BY <2>1, <2>4
    <3>2. Setting(n)' = {}
      BY <2>1, <3>1 DEF Setting
    <3>3. \A i \in m_cbs'[n] : known'[<<n, i>>] = m_val[n]
      <4>1. \A i \in m_cbs[n] : known[<<n, i>>] = m_val[n]
        BY <1>0, <3>1 DEF InformedOf
      <4>2. s_fun_id \in Ids
        BY <2>1 DEF Counted, Ids
      <4> QED BY <2>1, <2>4, <4>1, <4>2
    <3> QED BY <2>1, <3>2, <3>3 DEF InformedOf, Knows
  <2> QED BY <2>3, <2>4
<1> QED BY <1>1, <1>2, <1>3, <1>4, <1>5, <1>6, <1>7, <1>8, <1>9 DEF Next, Step

-----------------------------------------------------------------------------
(* Identifiers *)

\* The keys of addListener stay below the counter, unless two additions cross.
LEMMA FreshStep ==
    ASSUME TypeOK, Counted, Fresh, Next
    PROVE  Fresh'
<1> USE DEF TypeOK
<1>1. ASSUME NEW t \in Threads, Load(t) \/ Tell(t) \/ Release(t) \/ Write(t) PROVE Fresh'
  <2>1. /\ UNCHANGED <<m_cbs, s_fun_id, fun_id, replaced, crossed>>
        /\ \A u \in Threads : pc'[u] \in {"count", "insert"} \/ pc[u] \in {"count", "insert"}
                                 => pc'[u] = pc[u]
    BY <1>1 DEF Load, Tell, Release, Write, data, history
  <2> QED BY <2>1 DEF Fresh, Adding
<1>2. ASSUME NEW t \in Threads, SetStart(t) PROVE Fresh'
  <2>1. /\ UNCHANGED <<m_cbs, s_fun_id, fun_id, replaced, crossed>>
        /\ \A u \in Threads : pc'[u] \in {"count", "insert"} \/ pc[u] \in {"count", "insert"}
                                 => pc'[u] = pc[u]
    BY <1>2, SetStartForm DEF Passes, Takes, Apart
  <2> QED BY <2>1 DEF Fresh, Adding
<1>3. ASSUME NEW t \in Threads, NEW n \in Names, Erase(t, n) PROVE Fresh'
  <2>1. /\ UNCHANGED <<pc, s_fun_id, fun_id, replaced, crossed>>
        /\ \A m \in Names : m_cbs'[m] \subseteq m_cbs[m]
    BY <1>3 DEF Erase, locals, history
  <2> QED BY <2>1 DEF Fresh, Adding
<1>4. ASSUME NEW n \in Names, Lookup(n) PROVE Fresh'
  BY <1>4 DEF Lookup, data, locals, history, Fresh, Adding
<1>5. ASSUME NEW t \in Threads, NEW n \in Names, AddStart(t, n) PROVE Fresh'
  <2> SUFFICES ASSUME ~crossed' PROVE Fresh'
    BY DEF Fresh
  <2>1. ~crossed /\ Adding = {}
    BY <1>5 DEF AddStart
  <2>2. /\ pc' = [pc EXCEPT ![t] = "count"]
        /\ fun_id' = [fun_id EXCEPT ![t] = s_fun_id]
        /\ UNCHANGED <<m_cbs, s_fun_id, replaced>>
    BY <1>5 DEF AddStart
  <2>3. \A u \in Threads : pc'[u] \in {"count", "insert"} <=> u = t
    BY <2>1, <2>2 DEF Adding
  <2> QED BY <2>1, <2>2, <2>3 DEF Fresh, Adding
<1>6. ASSUME NEW t \in Threads, AddCount(t) PROVE Fresh'
  <2> SUFFICES ASSUME ~crossed' PROVE Fresh'
    BY DEF Fresh
  <2>1. /\ pc[t] = "count" /\ pc' = [pc EXCEPT ![t] = "insert"]
        /\ s_fun_id' = fun_id[t] + 1
        /\ ~crossed /\ UNCHANGED <<m_cbs, replaced>>
    BY <1>6 DEF AddCount, CountUp, data, history
  <2>2. fun_id[t] = s_fun_id /\ \A u \in Adding : u = t
    BY <2>1 DEF Fresh, Adding
  <2>3. \A u \in Threads : pc'[u] \in {"count", "insert"} <=> u = t
    BY <2>1, <2>2 DEF Adding
  <2>4. \A m \in Names : \A i \in m_cbs[m] : i \in Nat /\ i <= s_fun_id
    BY <2>1 DEF Fresh, Ids
  <2> QED BY <2>1, <2>2, <2>3, <2>4 DEF Fresh, Adding
<1>7. ASSUME NEW t \in Threads, AddInsert(t) PROVE Fresh'
  <2> SUFFICES ASSUME ~crossed' PROVE Fresh'
    BY DEF Fresh
  <2>1. /\ pc[t] = "insert" /\ pc' = [pc EXCEPT ![t] = "out"]
        /\ m_cbs' = [m_cbs EXCEPT ![set[t][1]] = @ \cup {s_fun_id}]
        /\ replaced' = (replaced \/ s_fun_id \in m_cbs[set[t][1]])
        /\ ~crossed /\ s_fun_id' = s_fun_id
    BY <1>7 DEF AddInsert
  <2>2. set[t][1] \in Names
    BY DEF Settings
  <2>3. ~replaced'
    BY <2>1, <2>2 DEF Fresh
  <2>4. \A u \in Threads : pc'[u] \notin {"count", "insert"}
    BY <2>1 DEF Fresh, Adding
  <2>5. \A m \in Names : \A i \in m_cbs'[m] : i <= s_fun_id
    BY <2>1 DEF Fresh, Ids
  <2> QED BY <2>1, <2>3, <2>4, <2>5 DEF Fresh, Adding
<1> QED BY <1>1, <1>2, <1>3, <1>4, <1>5, <1>6, <1>7 DEF Next, Step

-----------------------------------------------------------------------------
(* The theorems *)

\* The invariant holds at the start.
LEMMA ConfigInit == Init => ConfigInv
<1> SUFFICES ASSUME Init PROVE ConfigInv
  OBVIOUS
<1>1. TypeOK
  BY ConfigTypesInit
<1>2. LocksHeld
  <2>1. ASSUME NEW n \in Names PROVE LockOf(n)
    <3>1. Telling(n) = {}
      BY DEF Init, Telling
    <3>2. m_mutex[n].readers = 0 /\ m_mutex[n].writer = NoThread
      BY DEF Init, Unlocked
    <3>3. \A t \in Threads : ~AddsTo(t, n)
      BY DEF Init, AddsTo
    <3> QED BY <3>1, <3>2, <3>3, FS_EmptySet, NoThreadAssumption DEF LockOf
  <2> QED BY <2>1 DEF LocksHeld
<1>3. LeftHeld /\ Counted
  BY DEF Init, LeftHeld, Counted
<1>4. Informed
  BY DEF Init, Informed, Knows, Setting
<1>5. Fresh
  BY DEF Init, Fresh, Adding
<1> QED BY <1>1, <1>2, <1>3, <1>4, <1>5 DEF ConfigInv

\* Every step keeps the invariant.
LEMMA ConfigStep == ConfigInv /\ [Next]_vars => ConfigInv'
<1> SUFFICES ASSUME ConfigInv, [Next]_vars PROVE ConfigInv'
  OBVIOUS
<1>1. CASE Next
  BY <1>1, ConfigTypesStep, LocksStep, LeftStep, CountedStep, InformedStep, FreshStep
  DEF ConfigInv
<1>2. CASE UNCHANGED vars
  <2>1. TypeOK' /\ Counted' /\ LeftHeld'
    BY <1>2 DEF ConfigInv, TypeOK, Counted, LeftHeld, vars, data, locals, history
  <2>2. LocksHeld'
    BY <1>2 DEF ConfigInv, LocksHeld, LockOf, Telling, AddsTo, vars, data, locals
  <2>3. Informed'
    BY <1>2 DEF ConfigInv, Informed, Knows, Setting, vars, data, locals, history
  <2>4. Fresh'
    BY <1>2 DEF ConfigInv, Fresh, Adding, vars, data, locals, history
  <2> QED BY <2>1, <2>2, <2>3, <2>4 DEF ConfigInv
<1> QED BY <1>1, <1>2

\* The invariant holds always.
LEMMA ConfigHolds == Spec => []ConfigInv
BY ConfigInit, ConfigStep, PTL DEF Spec

\* Every state of the configuration has its types: no identifier of a listener is
\* beyond the calls of addListener there were, and no lock counts more readers than
\* threads.
THEOREM ConfigTypes == Spec => []TypeOK
<1>1. ConfigInv => TypeOK
  BY DEF ConfigInv
<1> QED BY <1>1, ConfigHolds, PTL

\* When no setValue is on its way, every listener knows the value, unless two
\* operations overlapped on its variable (configVar.h:97-108).
THEOREM ListenersAreTold == Spec => []ListenersKnow
<1>1. ConfigInv => ListenersKnow
  BY DEF ConfigInv, Informed, ListenersKnow
<1> QED BY <1>1, ConfigHolds, PTL

\* No listener is called after delListener or clearListener took it away: they wait
\* for the readers of the lock, and setValue calls under it (configVar.h:98, 123, 136).
THEOREM ErasedIsNotCalled == Spec => []ErasedNotCalled
<1>1. ConfigInv => ErasedNotCalled
  BY DEF ConfigInv, LeftHeld, ErasedNotCalled
<1> QED BY <1>1, ConfigHolds, PTL

\* As long as no two threads met in addListener, no listener takes the place of
\* another (configVar.h:113-117).
THEOREM NoListenerReplaced == Spec => []NoneReplaced
<1>1. ConfigInv => NoneReplaced
  BY DEF ConfigInv, Fresh, NoneReplaced
<1> QED BY <1>1, ConfigHolds, PTL
===============================================================================
