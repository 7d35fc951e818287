SPECIFICATION Spec
CONSTANTS
    s1 = s1
    s2 = s2
    a = a
    b = b
    x0 = x0
    x9 = x9
    o9 = o9
    v1 = v1
    v2 = v2
    v7 = v7
    vj = vj
    Procs = {p1}
    Names <- MCNames
    Values <- MCValues
    Specials <- MCSpecials
    Len0 <- MCLen
    Words = {0, 9}
    Word <- MCWord
    Print0 <- MCPrint
    Default <- MCDefault
    Erased = 0
    Buckets = 2
    Hash <- MCHash
    Header = 20
    Part = 44
    Sets <- MCSets
    Unsets = {a, b}
    First <- MCFirst
    None = None
    Empty = Empty
    Blank = Blank
    p1 = p1
    p2 = p2
    Env = {}
INVARIANTS Reopens
