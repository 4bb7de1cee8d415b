CONSTANTS
    Client = Client
    Server = Server
    Uses <- MCUses
    MaxQueue = 2
    Segs = 2
    MaxSeq = 2
    NRequests = 1
SPECIFICATION FairSpec
INVARIANTS TypeOK NoStall Primed FreshTaken TimerDies
CHECK_DEADLOCK FALSE
PROPERTIES Streams CommandEnds
