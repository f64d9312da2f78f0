CONSTANTS
    CPU = {c1}
    Lock = {l1, l2}
    Nobody = Nobody
    MaxNest = 2
    l1 = l1
    p1 = p1
    p2 = p2
    b1 = b1
    b2 = b2
    d1 = d1
    NotCached = NotCached
    NoBlock = NoBlock
SPECIFICATION AllFair
INVARIANTS IntrRestored
PROPERTIES SpinEnds SleeperWoken
