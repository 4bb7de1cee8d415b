CONSTANTS
    s1 = s1
    s2 = s2
    None = None
    Sock = {s1, s2}
    Trans = {t1}
    Req <- ReqsPool
    TidMod = 2
    Infinite = 99
    MaxQueue = 1
    Congested = {s1, s2}
    NoSpace = {"copy"}
    Controls = {"EINVAL"}
    Closing = TRUE
SPECIFICATION Spec
INVARIANTS SendListExact TimersExact NoLostWakeup NoStall

CHECK_DEADLOCK FALSE
