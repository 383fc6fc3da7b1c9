CONSTANTS
    Sock = {s1, s2}
    File = {f1, f2}
    Mutable = {f1}
    Entry = {e1}
    Pid = {p1}
    NULL = NULL
    Size <- MCSize
    Second <- MCSecond
    http_cache_entries = 1
    keepalive = 1
    Simple = {FALSE}
    Pipelining = FALSE
SPECIFICATION Spec
INVARIANTS CacheOK HitFresh CgiOwned
PROPERTIES Responded
CHECK_DEADLOCK FALSE
