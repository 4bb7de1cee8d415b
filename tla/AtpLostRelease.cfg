CONSTANTS
    s1 = s1
    s2 = s2
    None = None
    Sock = {s1}
    Trans = {t1}
    Req <- ReqsRelease
    TidMod = 3
    Infinite = 99
    MaxQueue = 1
    Congested = {}
    NoSpace = {"result"}
    Controls = {}
    Closing = FALSE
SPECIFICATION Spec
INVARIANT ReleaseQueued
CHECK_DEADLOCK FALSE
