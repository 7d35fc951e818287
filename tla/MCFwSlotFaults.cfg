SPECIFICATION FairSpec
CONSTANTS
    p1 = p1
    p2 = p2
    ia = ia
    ib = ib
    none = none
    Procs = {p1, p2}
    Images = {ia}
    NoImage = none
    NBlocks = 3
    BodyLen <- MCBodyLen
    InitBad <- MCNoBad
    MaxSerial = 2
    Env = {"writeFails", "eraseFails", "markFails", "reflash", "concurrent"}
PROPERTIES
    RunningUntouched
    Terminates
CHECK_DEADLOCK FALSE
