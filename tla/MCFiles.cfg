CONSTANTS
    p1 = p1
    p2 = p2
    f1 = f1
    f2 = f2
    Nobody = Nobody
    Proc = {p1, p2}
    Name = {"a", "b"}
    Calls <- SomeCalls
    NINUM = 3
    NINODE = 4
SPECIFICATION AllSpec
SYMMETRY Symmetry
INVARIANTS SleepersServed CountsExact TableSound BlocksOwned ContentExact OpFits
PROPERTIES ConsoleQueues
