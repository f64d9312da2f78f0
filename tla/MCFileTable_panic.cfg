CONSTANTS
    Proc = {p1}
    Init1 = p1
    NFILE = 2
    NOFILE = 1
    NPIPE = 1
    Calls = {"open", "close"}
SPECIFICATION Spec
CHECK_DEADLOCK FALSE
INVARIANTS NoPanic
