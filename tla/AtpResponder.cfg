CONSTANTS
    s1 = s1
    s2 = s2
    None = None
    Sock = {s1}
    Rcb = {c1, c2}
    Txn <- TxnsXo
    MaxWait = 1
    MaxDrift = 1
    MaxTimer = 2
    MaxQueue = 1
    Congested = {}
    NoSpace = {}
    Commands = {"GET", "GET_NW"}
    Repeat = TRUE
    Closing = FALSE
SPECIFICATION Spec
INVARIANTS TypeOK NoTwins NoneOverlooked HeldUntilHeard TimersRun ReplyListExact
SYMMETRY RcbSymmetry
CHECK_DEADLOCK FALSE
