SPECIFICATION Spec
CONSTANTS
    Cpus = {c1, c2}
    Tuples = {t1}
    Devs = {w1}
    NoDev = NoDev
    MaxCts = 2
    MaxConns = 2
    OffloadAt = 2
    Env = {"unreg"}
INVARIANTS TypeOK OneConn RefsAccounted
PROPERTIES DeviceGoes
CHECK_DEADLOCK FALSE
