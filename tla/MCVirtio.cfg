CONSTANTS
    Proc = {p1, p2, p3}
    Data = {d1, d2}
    Nobody = Nobody
    NUM = 7
    Wrap = 14
SPECIFICATION Spec
SYMMETRY Symmetry
INVARIANTS TransferDone DescOwned NobodySleepsInVain
