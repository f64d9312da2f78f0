SPECIFICATION AllSpec
CONSTANTS
    Proc = {p1, p2}
    Block = {b1, b2}
    MoreBlocks = {b3, b4, b5}
    Data = {d1, d2}
    NotCached = NotCached
    NoBlock = NoBlock
    MAXOPBLOCKS = 2
    OpBlocks = 1
    LOGSIZE = 4
    LogBlocks = 4
    MaxCrashes = 2
SYMMETRY Symmetry
INVARIANTS
    NoPanic
    CommitAlone
    PinsExact
    NobodyStranded
    DurableOnReturn
PROPERTIES
    ImplementsAtomicDisk
