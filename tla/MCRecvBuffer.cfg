CONSTANTS
    a = a  n = n
    Byte = {a, n}
    Boundaries <- AllBoundaries
    FixedSize = 2
    RecvSize = 6
    FloodLimit = 6
    FloodGrain = 2
    MaxStream = 8
SPECIFICATION Spec
INVARIANTS Reassembled
CHECK_DEADLOCK FALSE
