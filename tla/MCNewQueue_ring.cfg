\* Capacity 1 (two slots) and three fibers: full, empty, and past the wrap.
SPECIFICATION FairSpec
CONSTANTS
    Producers = {a, b}
    Fibers = {f1, f2, f3}
    Empty = Empty
    Capacity = 1
INVARIANTS TypeOK FifoUnlessOverlap CountedUnlessOverlap
PROPERTY AllRun
CHECK_DEADLOCK FALSE
