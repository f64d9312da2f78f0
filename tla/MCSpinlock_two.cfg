CONSTANTS
    CPU = {c1, c2}
    Lock = {l1}
    Nobody = Nobody
    MaxNest = 1
SPECIFICATION Spec
SYMMETRY Symmetry
INVARIANTS MutualExclusion
