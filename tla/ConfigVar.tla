------------------------------- MODULE ConfigVar -------------------------------
(***************************************************************************)
(* Configuration variables (config/configVar.h, config/config.h): threads  *)
(* look up variables by name, load values into them and listen to their    *)
(* changes.  setValue tells the listeners under the read lock, lets go of  *)
(* it, and stores the value under the write lock.                          *)
(***************************************************************************)
EXTENDS RWMutex, FiniteSets

CONSTANTS
    Names,
    Values,
    Default,    \* default_value of every Lookup
    MaxLoads,   \* bound: loads
    MaxAdds     \* bound: calls of addListener

ASSUME ValuesAssumption == Default \in Values
ASSUME NamesAssumption == Names # {}
ASSUME LoadsAssumption == MaxLoads \in Nat /\ MaxAdds \in Nat
\* glibc counts more readers (2^29 - 1) than a process has threads.
ASSUME ReadersAssumption == IsFiniteSet(Threads) /\ Cardinality(Threads) <= MaxReaders

Ids == 1..MaxAdds

VARIABLES
    made,       \* the variables there are (Config::GetDatas)
    m_val, m_cbs, m_mutex,
    s_fun_id,   \* one for all variables
    fun_id,     \* what a thread in addListener has read of it
    plan,       \* what each thread has left to load: pairs of a name and a value
    pc,         \* where it is in setValue or addListener
    set,        \* the pair it is setting, or the variable it adds to
    left,       \* listeners it has yet to call
    loads, adds,\* number of loads and of calls of addListener
    known,      \* history: the value each listener of a variable was told last, or
                \* the variable had when it was added
    replaced,   \* history: whether a listener took the place of another
    crossed,    \* history: whether two threads were in addListener at a time
    overlapped  \* history: variables that changed while a setValue of another thread
                \* was on its way, or got a listener then

data == <<m_val, m_cbs, m_mutex>>
locals == <<fun_id, plan, pc, set, left>>
history == <<known, replaced, crossed, overlapped>>
vars == <<made, data, s_fun_id, locals, loads, adds, history>>

Settings == Names \X Values

TypeOK ==
    /\ made \in SUBSET Names
    /\ m_val \in [Names -> Values]
    /\ m_cbs \in [Names -> SUBSET Ids]
    /\ m_mutex \in [Names -> Locks]
    /\ s_fun_id \in 0..MaxAdds /\ fun_id \in [Threads -> 0..MaxAdds]
    /\ loads \in 0..MaxLoads /\ adds \in 0..MaxAdds
    /\ plan \in [Threads -> SUBSET Settings]
    /\ pc \in [Threads -> {"out", "tell", "write", "count", "insert"}]
    /\ set \in [Threads -> Settings]
    /\ left \in [Threads -> SUBSET Ids]
    /\ known \in [Names \X Ids -> Values]
    /\ replaced \in BOOLEAN /\ crossed \in BOOLEAN
    /\ overlapped \in SUBSET Names

Init ==
    /\ made = {}
    /\ m_val = [n \in Names |-> Default]
    /\ m_cbs = [n \in Names |-> {}]
    /\ m_mutex = [n \in Names |-> Unlocked]
    /\ s_fun_id = 0 /\ loads = 0 /\ adds = 0
    /\ fun_id = [t \in Threads |-> 0]
    /\ plan = [t \in Threads |-> {}]
    /\ pc = [t \in Threads |-> "out"]
    /\ set = [t \in Threads |-> <<CHOOSE n \in Names : TRUE, Default>>]
    /\ left = [t \in Threads |-> {}]
    /\ known = [x \in Names \X Ids |-> Default]
    /\ replaced = FALSE /\ crossed = FALSE
    /\ overlapped = {}

Setting(n) == {t \in Threads : pc[t] \in {"tell", "write"} /\ set[t][1] = n}
Adding == {t \in Threads : pc[t] \in {"count", "insert"}}
Idle(t) == pc[t] = "out" /\ plan[t] = {}

\* Config::Lookup makes a variable at its first call, and gives it to all others.
Lookup(n) ==
    /\ made' = made \cup {n}
    /\ UNCHANGED <<data, s_fun_id, locals, loads, adds, history>>

\* LoadFromYaml: one value for some names.
Load(t) ==
    /\ Idle(t) /\ loads < MaxLoads
    /\ \E ns \in SUBSET Names : \E v \in [ns -> Values] :
          plan' = [plan EXCEPT ![t] = {<<n, v[n]>> : n \in ns}]
    /\ loads' = loads + 1
    /\ UNCHANGED <<made, data, s_fun_id, fun_id, pc, set, left, adds, history>>

\* A name without a variable and a value that is there already are passed over.
Skips(p) == p[1] \notin made \/ m_val[p[1]] = p[2]

\* The lock is that of one thread's own variable.
Locked(n, lk) == m_mutex' = [m_mutex EXCEPT ![n] = lk]

SetStart(t) ==
    /\ pc[t] = "out" /\ plan[t] # {}
    /\ LET p == CHOOSE p \in plan[t] : TRUE
           n == p[1]
       IN /\ CanRead(m_mutex[n], t)
          /\ plan' = [plan EXCEPT ![t] = @ \ {p}]
          /\ IF Skips(p)
             THEN UNCHANGED <<m_mutex, pc, set, left, overlapped>>
             ELSE /\ Locked(n, ReadLocked(m_mutex[n], t))
                  /\ pc' = [pc EXCEPT ![t] = "tell"]
                  /\ set' = [set EXCEPT ![t] = p]
                  /\ left' = [left EXCEPT ![t] = m_cbs[n]]
                  /\ overlapped' = overlapped \cup {m \in {n} : Setting(n) # {}}
    /\ UNCHANGED <<made, m_val, m_cbs, s_fun_id, fun_id, loads, adds, known, replaced,
                   crossed>>

\* Mutant: the listener is called with the values exchanged.
ToldOld(t) == m_val[set[t][1]]
Told(t) == set[t][2]

\* std::map: in the order of the identifiers.
Tell(t) ==
    /\ pc[t] = "tell" /\ left[t] # {}
    /\ LET i == CHOOSE i \in left[t] : \A j \in left[t] : i <= j
       IN /\ left' = [left EXCEPT ![t] = @ \ {i}]
          /\ known' = [known EXCEPT ![<<set[t][1], i>>] = Told(t)]
    /\ UNCHANGED <<made, data, s_fun_id, fun_id, plan, pc, set, loads, adds, replaced,
                   crossed, overlapped>>

Release(t) ==
    /\ pc[t] = "tell" /\ left[t] = {}
    /\ Locked(set[t][1], ThenUnlocked(m_mutex[set[t][1]], t))
    /\ pc' = [pc EXCEPT ![t] = "write"]
    /\ UNCHANGED <<made, m_val, m_cbs, s_fun_id, fun_id, plan, set, left, loads, adds, history>>

Write(t) ==
    LET n == set[t][1]
    IN /\ pc[t] = "write" /\ CanWrite(m_mutex[n], t)
       /\ m_val' = [m_val EXCEPT ![n] = set[t][2]]
       /\ pc' = [pc EXCEPT ![t] = "out"]
       /\ UNCHANGED <<made, m_cbs, m_mutex, s_fun_id, fun_id, plan, set, left, loads, adds,
                      history>>

\* addListener holds the lock of its own variable, but the counter is static:
\* it may be counted up for another variable between two accesses.
AddStart(t, n) ==
    /\ Idle(t) /\ n \in made /\ adds < MaxAdds /\ CanWrite(m_mutex[n], t)
    /\ Locked(n, WriteLocked(m_mutex[n], t))
    /\ pc' = [pc EXCEPT ![t] = "count"]
    /\ set' = [set EXCEPT ![t] = <<n, Default>>]
    /\ fun_id' = [fun_id EXCEPT ![t] = s_fun_id]
    /\ adds' = adds + 1
    /\ crossed' = (crossed \/ Adding # {})
    /\ UNCHANGED <<made, m_val, m_cbs, s_fun_id, plan, left, loads, known, replaced, overlapped>>

\* Mutants: the counter is not static; it is counted up once more as subscript.
FromZero(t) == 1
CountTwice(t) == fun_id[t] + 2
CountUp(t) == fun_id[t] + 1

AddCount(t) ==
    /\ pc[t] = "count"
    /\ s_fun_id' = CountUp(t)
    /\ pc' = [pc EXCEPT ![t] = "insert"]
    /\ UNCHANGED <<made, data, fun_id, plan, set, left, loads, adds, history>>

AddInsert(t) ==
    /\ pc[t] = "insert"
    /\ LET n == set[t][1]
       IN /\ m_cbs' = [m_cbs EXCEPT ![n] = @ \cup {s_fun_id}]
          /\ Locked(n, ThenUnlocked(m_mutex[n], t))
          /\ known' = [known EXCEPT ![<<n, s_fun_id>>] = m_val[n]]
          /\ replaced' = (replaced \/ s_fun_id \in m_cbs[n])
          /\ overlapped' = overlapped \cup {m \in {n} : Setting(n) # {}}
    /\ pc' = [pc EXCEPT ![t] = "out"]
    /\ UNCHANGED <<made, m_val, s_fun_id, fun_id, plan, set, left, loads, adds, crossed>>

\* Mutant: no lock is taken.
MayEraseAnyTime(n, t) == TRUE
MayErase(n, t) == CanWrite(m_mutex[n], t)

\* delListener of one, clearListener of all.
Erase(t, n) ==
    /\ Idle(t) /\ m_cbs[n] # {} /\ MayErase(n, t)
    /\ \E gone \in {{i} : i \in m_cbs[n]} \cup {m_cbs[n]} :
          m_cbs' = [m_cbs EXCEPT ![n] = @ \ gone]
    /\ UNCHANGED <<made, m_val, m_mutex, s_fun_id, locals, loads, adds, history>>

Step(t) ==
    \/ SetStart(t) \/ Tell(t) \/ Release(t) \/ Write(t)
    \/ AddCount(t) \/ AddInsert(t)

Next ==
    \/ \E t \in Threads : Load(t) \/ Step(t) \/ \E n \in Names : AddStart(t, n) \/ Erase(t, n)
    \/ \E n \in Names : Lookup(n)

Spec == Init /\ [][Next]_vars

-----------------------------------------------------------------------------

\* When no setValue is on its way, every listener knows the value: it was told of
\* the last change, or was added after it, unless two of these operations ever
\* overlapped on that variable (configVar.h:97-108).
ListenersKnow ==
    \A n \in Names \ overlapped : Setting(n) = {} =>
        \A i \in m_cbs[n] : known[<<n, i>>] = m_val[n]

\* A listener that was deleted is not called any more: who erases waits for those
\* who call (configVar.h:98, 123, 136).
ErasedNotCalled == \A t \in Threads : left[t] \subseteq m_cbs[set[t][1]]

\* A listener takes the place of another only when two threads were in addListener
\* at a time, for two variables that share the counter (configVar.h:113-117).
NoneReplaced == ~crossed => ~replaced
=============================================================================
