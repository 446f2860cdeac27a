\* One processer and one task.
SPECIFICATION FairSpec
CONSTANTS
    N = 1
    Tasks = {t1}
    Wakers = {}
    NoFiber = NoFiber
    Capacity = 2
    NewMax = 0
    GcMax = 0
    MaxMoves = 0
    MayStop = FALSE
PROPERTY QueuedFiberRuns
CHECK_DEADLOCK FALSE
