SPECIFICATION FairSpec
CONSTANTS
    t1 = t1
    t2 = t2
    va = va
    Blank = Blank
    Junk = Junk
    Unknown = Unknown
    Threads = {t1}
    Values = {va}
    total_blks = 7
    pool_lba = 4
    Pages = 1
    bb_max = 1
    Range <- MCAll
    Weak = {1, 4, 6}
    InitBad <- MCOne
    MaxRetry = 1
    DebugBlocks = {}
    Env = {"readFails", "crash"}
INVARIANTS TypeOK Disjoint
PROPERTIES Terminates
