CONSTANTS
    Sock = {s1, s2}
    Client = {c1, c2}
    Nick = {k1, k2}
    Chan = {n1, n2}
    NULL = NULL
    Coservers = {"dns"}
    ChannelModes = {"i", "l"}
    Limits = {1}
    channels_per_user = 1
    MaxList = 1
SPECIFICATION Spec
INVARIANTS Membership
PROPERTIES OpsFromOps
CHECK_DEADLOCK FALSE
SYMMETRY Symmetry
