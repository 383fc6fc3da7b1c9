CONSTANTS
    Peer = {"p", "q", "r"}
    Denied = {"r"}
    NULL = NULL
    Source = {"s1", "s2"}
    Target = {"t1", "t2"}
    Listener = "L"
    Modes <- MCModes
    MaxRecv = 2
    MaxSend = 1
SPECIFICATION Spec
INVARIANTS LinksLive Addressed
PROPERTIES EndsTogether
CHECK_DEADLOCK FALSE
