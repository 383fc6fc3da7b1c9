CONSTANTS
    l1 = l1  s1 = s1  s2 = s2
    Sock = {l1, s1, s2}
    Listeners = {l1}
    NULL = NULL
    Setups <- MCSetups
    MaxSockets = 1
    ConnBound = 2
SPECIFICATION FairSpec
INVARIANTS PointersLive ChildrenKilled
PROPERTIES KilledFreed Terminates
CHECK_DEADLOCK FALSE
