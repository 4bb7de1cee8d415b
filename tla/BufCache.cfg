CONSTANTS
    Proc = {p1, p2}
    Buf = {b1, b2, b3}
    raw = raw
    super = super
    data = data
    Block = {raw, super, data}
    Sector = {0, 1, 2}
    Covers <- MCCovers
    Ahead <- MCAhead
    Update = {super, raw}
    Fifo = {data}
    None = None
    Free = Free
SYMMETRY MCSymmetry
SPECIFICATION Spec
INVARIANTS TypeOK MappedOnce Current NoLostWakeup NoDeadlock
CHECK_DEADLOCK TRUE
