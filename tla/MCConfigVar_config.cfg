\* Two threads, two variables, three listeners, two loads.
SPECIFICATION Spec
CONSTANTS
    Threads = {t1, t2}
    NoThread = NoThread
    MaxReaders = 3
    Names = {n1, n2}
    Values = {0, 1}
    Default = 0
    MaxLoads = 2
    MaxAdds = 3
INVARIANTS TypeOK ListenersKnow ErasedNotCalled NoneReplaced
CHECK_DEADLOCK FALSE
