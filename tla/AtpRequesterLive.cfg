CONSTANTS
    s1 = s1
    s2 = s2
    None = None
    Sock = {s1}
    Trans = {t1}
    Req <- ReqsBlocking
    TidMod = 3
    Infinite = 99
    MaxQueue = 2
    Congested = {s1}
    NoSpace = {"copy", "release"}
    Controls = {}
    Closing = FALSE
SPECIFICATION FairSpec
PROPERTY Answered
CHECK_DEADLOCK FALSE
