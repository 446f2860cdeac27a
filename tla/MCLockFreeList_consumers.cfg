\* Two consumers race for the head; four values through three nodes.
SPECIFICATION Spec
CONSTANTS
    Producers = {p1}
    Consumers = {c1, c2}
    Values = {v1, v2, v3, v4}
    NoValue = NoValue
    Max = 3
SYMMETRY Symmetry
INVARIANTS TypeOK NodesAccounted
PROPERTY FifoSpec
CHECK_DEADLOCK FALSE
