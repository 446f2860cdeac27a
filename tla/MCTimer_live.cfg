\* One thread, two tasks, a clock that is set back, a stop.
SPECIFICATION FairSpec
CONSTANTS
    Users = {u1}
    Tasks = {1, 2}
    Delays = {1}
    MaxWait = 1
    Rollover = 0
    MaxTime = 1
    MaxBack = 1
    MaxSignals = 0
    MayStop = TRUE
PROPERTIES NeverEarly DueRuns
CHECK_DEADLOCK FALSE
