CONSTANTS
    Transport = "tcp"
    SendSize = 4
    MaxWrite = 3
    MaxMsg = 9
    MaxBytes = 12
SPECIFICATION SendFairSpec
INVARIANTS InOrder FinalComplete OverflowMeansStalled
PROPERTIES FinalCloses
CHECK_DEADLOCK FALSE
