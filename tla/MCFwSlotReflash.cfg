SPECIFICATION Spec
CONSTANTS
    p1 = p1
    p2 = p2
    ia = ia
    ib = ib
    none = none
    Procs = {p1}
    Images = {ia, ib}
    NoImage = none
    NBlocks = 4
    BodyLen <- MCBodyLen
    InitBad <- MCInitBad
    MaxSerial = 3
    Env = {"reflash"}
INVARIANTS
    BootSafe
