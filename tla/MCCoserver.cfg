CONSTANTS
    Cos = {c1, c2, c3}
    Sock = {s1, s2, s3}
    NULL = NULL
    Instances = 1
    SendSize = 1
    PipeSize = 1
    MaxRequests = 2
    MaxRestarts = 1
SPECIFICATION FairSpec
INVARIANTS BusyExact CallbackKnown
PROPERTIES KeptAlive Answered
CHECK_DEADLOCK FALSE
