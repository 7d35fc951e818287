SPECIFICATION Spec
CONSTANTS
    t1 = t1
    t2 = t2
    va = va
    Blank = Blank
    Junk = Junk
    Unknown = Unknown
    Threads = {t1}
    Values = {va}
    total_blks = 7
    pool_lba = 4
    Pages = 1
    bb_max = 1
    Range <- MCAll
    Weak = {0,1}
    InitBad <- MCOne
    MaxRetry = 1
    DebugBlocks = {0,1}
    Env = {"crash", "debugfs"}
INVARIANTS Persistent
