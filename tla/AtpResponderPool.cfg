CONSTANTS
    s1 = s1
    s2 = s2
    None = None
    Sock = {s1, s2}
    Rcb = {c1}
    Txn <- TxnsPool
    MaxWait = 1
    MaxDrift = 1
    MaxTimer = 2
    MaxQueue = 1
    Congested = {s1}
    NoSpace = {"copy"}
    Commands = {"GET_NOTE", "POLL", "SET_FINISH"}
    Repeat = FALSE
    Closing = TRUE
SPECIFICATION Spec
INVARIANTS NoLostWakeup NoStall FinishPending
CHECK_DEADLOCK FALSE
