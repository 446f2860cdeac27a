\* Two threads that each get a socket.
SPECIFICATION Spec
CONSTANTS
    Threads = {t1, t2}
    NoThread = NoThread
    MaxReaders = 7
    Fds = {f1, f2}
INVARIANT WritersExclude
CHECK_DEADLOCK FALSE
