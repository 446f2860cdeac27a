-------------------------------- MODULE RWMutex --------------------------------
(***************************************************************************)
(* RWMutex (thread/rwmutex.cc) and its scoped locks (thread/scopedlock.h). *)
(* A failed pthread call is logged and the scoped lock goes on as if it    *)
(* had the lock, so it unlocks in the end whatever there is to unlock.     *)
(*                                                                         *)
(* A lock is a record; the operators give the value an operation leaves.   *)
(***************************************************************************)
EXTENDS Naturals

CONSTANTS
    Threads,
    NoThread,
    MaxReaders  \* bound: glibc's count of readers is a number modulo MaxReaders + 1

ASSUME NoThreadAssumption == NoThread \notin Threads
ASSUME MaxReadersAssumption == MaxReaders \in Nat \ {0}

Locks == [readers : 0..MaxReaders, writer : Threads \cup {NoThread}]
Unlocked == [readers |-> 0, writer |-> NoThread]

\* EDEADLK: a thread that has the lock for writing does not wait for itself.
CanRead(lk, t) == lk.writer \in {t, NoThread}
CanWrite(lk, t) == lk.writer = t \/ (lk.writer = NoThread /\ lk.readers = 0)

ReadLocked(lk, t) ==
    IF lk.writer = t THEN lk ELSE [lk EXCEPT !.readers = (@ + 1) % (MaxReaders + 1)]
WriteLocked(lk, t) == [lk EXCEPT !.writer = t]

\* glibc takes the unlock of a thread that is not the writer for a reader's.
ThenUnlocked(lk, t) ==
    IF lk.writer = t THEN [lk EXCEPT !.writer = NoThread]
    ELSE [lk EXCEPT !.readers = (@ + MaxReaders) % (MaxReaders + 1)]
=============================================================================
