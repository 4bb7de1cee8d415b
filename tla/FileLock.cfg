CONSTANTS
    p1 = p1
    p2 = p2
    p3 = p3
    f1 = f1
    f2 = f2
    Proc = {p1, p2, p3}
    Readers = {p1}
    File = {f1, f2}
    MaxEnd = 3
    MaxFids = 1
    Left = {0, 1, 2}
    None = None
SPECIFICATION Spec
INVARIANTS TypeOK ListOrdered NoLostWakeup NoDeadlock ChainsEnd FidKept
PROPERTY ByteLocking
SYMMETRY LockSymmetry
CHECK_DEADLOCK FALSE
