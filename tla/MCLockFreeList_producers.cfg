\* Two producers race for the tail and the free list, with a node to spare.
SPECIFICATION FairSpec
CONSTANTS
    Producers = {p1, p2}
    Consumers = {}
    Values = {v1, v2, v3}
    NoValue = NoValue
    Max = 5
INVARIANT NodesAccounted
PROPERTY CallsReturn
CHECK_DEADLOCK FALSE
