CONSTANTS
    NPROC = 2
    NPAGE = 10
    PGSIZE = 2
    SPAN = 3
    VPAGES = 14
    SBRK <- MCSbrk
    SEGMENT <- MCSegment
    MAXSEG = 2
    MAXARG = 1
    lk1 = lk1
SPECIFICATION AllSpec
INVARIANTS PageOwners ImageWhole CopiesRight SwitchSafe FreeSlotIdle NoMissedExit SleeperHasWaker
PROPERTIES ImplementsMutex
