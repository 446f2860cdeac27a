\* One processer whose newQueue fills up, and three tasks: two threads push at a time.
SPECIFICATION FairSpec
CONSTANTS
    N = 1
    Tasks = {t1, t2, t3}
    Wakers = {}
    NoFiber = NoFiber
    Capacity = 1
    NewMax = 0
    GcMax = 0
    MaxMoves = 1
    MayStop = TRUE
INVARIANTS  NothingLost CountMatches
PROPERTIES StopEndsProcessers AddFiberReturns
CHECK_DEADLOCK FALSE
