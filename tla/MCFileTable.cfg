CONSTANTS
    Proc = {p1, p2, p3}
    Init1 = p1
    NFILE = 2
    NOFILE = 2
    NPIPE = 1
    Calls = {"open", "dup", "close", "pipe", "fork", "exit",
             "connect"}
SYMMETRY Sym
SPECIFICATION Spec
CHECK_DEADLOCK FALSE
INVARIANTS RefsExact EndsMatch InodeRefs
