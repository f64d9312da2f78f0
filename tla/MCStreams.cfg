CONSTANTS
    Writer = {w1, w2}
    Reader = {r1, r2}
    Byte = {b1, b2}
    Nobody = Nobody
    PIPESIZE = 2
    Wrap = 4
    MaxCount = 2
SPECIFICATION AllSpec
SYMMETRY Symmetry
INVARIANTS FreedLast StreamSleepers StreamKept EofTrue
PROPERTIES PipeIsFifo
