SPECIFICATION Spec
CONSTANTS
    t1 = t1
    t2 = t2
    va = va
    Blank = Blank
    Junk = Junk
    Unknown = Unknown
    Threads = {t1}
    Values = {va}
    total_blks = 8
    pool_lba = 4
    Pages = 2
    bb_max = 1
    Range <- MCAll
    Weak = {1, 2}
    InitBad <- MCFactory
    MaxRetry = 1
    DebugBlocks = {}
    Env = {"markbad"}
INVARIANTS Faithful Persistent BadStaysOut
