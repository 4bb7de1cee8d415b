CONSTANTS
    p1 = p1
    p2 = p2
    p3 = p3
    f1 = f1
    f2 = f2
    Proc = {p1, p2}
    Readers = {p1, p2}
    File = {f1}
    MaxEnd = 3
    MaxFids = 1
    Left = {2}
    None = None
SPECIFICATION Spec
INVARIANT NoConflict
CHECK_DEADLOCK FALSE
