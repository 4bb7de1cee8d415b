CONSTANTS
    s1 = s1
    s2 = s2
    None = None
    Sock = {s1}
    Trans = {t1, t2}
    Req <- ReqsMixed
    TidMod = 3
    Infinite = 99
    MaxQueue = 1
    Congested = {s1}
    NoSpace = {"result", "release", "copy", "dup"}
    Controls = {"SET_FINISH", "OTHER"}
    Closing = FALSE
SPECIFICATION Spec
INVARIANTS TypeOK SendListExact TimersExact UniqueTids WholeReply AsksForMissing FinishPending
SYMMETRY TransSymmetry
CHECK_DEADLOCK FALSE
