CONSTANTS
    Proc = {p1, p2}
    Udp = {u1}
    Cgi = {c1}
    Shuffle = {x1}
    None = None
    Invalid = Invalid
SPECIFICATION FairSpec
INVARIANTS WaitsForChild
PROPERTIES DeathsNoticed
CHECK_DEADLOCK FALSE
