------------------------------- MODULE FdManager -------------------------------
(***************************************************************************)
(* FdManager (fiber/fdcontext.cc): the contexts of hooked descriptors,     *)
(* under one read-write lock.  get makes a context under the write lock,   *)
(* and FdCtx's constructor calls fcntl twice, which is hooked itself and   *)
(* looks the descriptor up again.                                          *)
(***************************************************************************)
EXTENDS RWMutex, FiniteSets

CONSTANT Fds    \* descriptors, all below the 128 that m_datas has room for

VARIABLES
    open,       \* descriptors the kernel has given out
    m_datas,    \* descriptors that have a context
    m_mutex,
    pc,         \* where each thread is in get(fd, true) or del(fd)
    fd          \* with which descriptor

vars == <<open, m_datas, m_mutex, pc, fd>>

FdTypeOK ==
    /\ open \in SUBSET Fds /\ m_datas \in SUBSET Fds
    /\ m_mutex \in Locks
    /\ pc \in [Threads -> {"out", "look", "make", "getfl", "setfl", "store", "del"}]
    /\ fd \in [Threads -> Fds]

Init ==
    /\ open = {} /\ m_datas = {}
    /\ m_mutex = Unlocked
    /\ pc = [t \in Threads |-> "out"]
    /\ fd = [t \in Threads |-> CHOOSE f \in Fds : TRUE]

Goto(t, l) == pc' = [pc EXCEPT ![t] = l]

\* socket and accept: a number nobody has, then get(fd, true).
Socket(t, f) ==
    /\ pc[t] = "out" /\ f \notin open
    /\ open' = open \cup {f}
    /\ fd' = [fd EXCEPT ![t] = f]
    /\ Goto(t, "look")
    /\ UNCHANGED <<m_datas, m_mutex>>

\* The read lock is taken and let go: what it leaves is what it found, unless the
\* thread has the write lock, which is let go in its place.
LookUp(t) ==
    /\ CanRead(m_mutex, t)
    /\ m_mutex' = ThenUnlocked(ReadLocked(m_mutex, t), t)

Look(t) ==
    /\ pc[t] = "look" /\ LookUp(t)
    /\ Goto(t, IF fd[t] \in m_datas THEN "out" ELSE "make")
    /\ UNCHANGED <<open, m_datas, fd>>

Make(t) ==
    /\ pc[t] = "make" /\ CanWrite(m_mutex, t)
    /\ m_mutex' = WriteLocked(m_mutex, t)
    /\ Goto(t, "getfl")
    /\ UNCHANGED <<open, m_datas, fd>>

\* FdCtx::init: fcntl(F_GETFL), and fcntl(F_SETFL), as a new socket blocks.
GetFl(t) ==
    /\ pc[t] = "getfl" /\ LookUp(t) /\ Goto(t, "setfl")
    /\ UNCHANGED <<open, m_datas, fd>>
SetFl(t) ==
    /\ pc[t] = "setfl" /\ LookUp(t) /\ Goto(t, "store")
    /\ UNCHANGED <<open, m_datas, fd>>

Store(t) ==
    /\ pc[t] = "store"
    /\ m_datas' = m_datas \cup {fd[t]}
    /\ m_mutex' = ThenUnlocked(m_mutex, t)
    /\ Goto(t, "out")
    /\ UNCHANGED <<open, fd>>

\* close of a descriptor with a context: del, then close_f.
Close(t, f) ==
    /\ pc[t] = "out" /\ f \in open \cap m_datas /\ CanRead(m_mutex, t)
    /\ \A u \in Threads : pc[u] # "out" => fd[u] # f
    /\ fd' = [fd EXCEPT ![t] = f]
    /\ Goto(t, "del")
    /\ UNCHANGED <<open, m_datas, m_mutex>>

Del(t) ==
    /\ pc[t] = "del" /\ CanWrite(m_mutex, t)
    /\ m_datas' = m_datas \ {fd[t]}
    /\ open' = open \ {fd[t]}
    /\ m_mutex' = ThenUnlocked(WriteLocked(m_mutex, t), t)
    /\ Goto(t, "out")
    /\ UNCHANGED fd

Step(t) == Look(t) \/ Make(t) \/ GetFl(t) \/ SetFl(t) \/ Store(t) \/ Del(t)

Next == \E t \in Threads : Step(t) \/ \E f \in Fds : Socket(t, f) \/ Close(t, f)

Spec == Init /\ [][Next]_vars

-----------------------------------------------------------------------------

\* fdcontext.h calls m_mutex a read-write lock: two threads are not inside
\* get's write section, which resizes and assigns m_datas, at a time
\* (fdcontext.cc:77-83).
WritersExclude ==
    Cardinality({t \in Threads : pc[t] \in {"getfl", "setfl", "store"}}) <= 1
=============================================================================
