\* Two processers with full queues, one task and its waker, and a stop at any moment.
SPECIFICATION Spec
CONSTANTS
    N = 2
    Tasks = {t1}
    Wakers = {w1}
    NoFiber = NoFiber
    Capacity = 1
    NewMax = 0
    GcMax = 0
    MaxMoves = 2
    MayStop = TRUE
INVARIANTS TypeOK SingleTicket NothingLost OneRunner WorkIsFlagged
PROPERTY PoolSpec
CHECK_DEADLOCK FALSE
