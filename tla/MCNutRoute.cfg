CONSTANTS
    a = a
    b = b
    c = c
    Node = {a, b, c}
    NULL = NULL
    Link <- MCLink
    Hosts <- MCHosts
    Searchers = {a}
    Sharers = {c}
    connections <- MCConnections
    cfg_ttl = 4
    max_ttl = 3
    MaxId = 2
    MaxFaults = 2
SPECIFICATION RouteSpec
INVARIANTS RoutesLive NodesCounted
PROPERTIES AnswersReturn 
CHECK_DEADLOCK FALSE
