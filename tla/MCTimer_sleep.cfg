\* Two threads, two tasks, a signal.
SPECIFICATION Spec
CONSTANTS
    Users = {u1, u2}
    Tasks = {1, 2}
    Delays = {1, 2}
    MaxWait = 3
    Rollover = 1
    MaxTime = 1
    MaxBack = 0
    MaxSignals = 1
    MayStop = FALSE
SYMMETRY Symmetry
INVARIANTS TypeOK WakesForFirst CancelFinds RunsOnce
CHECK_DEADLOCK FALSE
