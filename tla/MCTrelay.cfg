SPECIFICATION Spec
CONSTANTS
    d1 = d1
    d2 = d2
    d3 = d3
    d4 = d4
    n1 = n1
    n2 = n2
    Devs <- MCDevs
    Lines <- MCLines
    NoDev = NoDev
    Names = {n1, n2}
    Hotplug = {d1}
    OtherDevs = {d2}
    MaxRelays = 2
    Files = {f1, f2}
    Cpus = {c1}
    PreemptRcu = FALSE
INVARIANTS TypeOK PeerAlive FileAlive Consistent Unloadable
PROPERTIES DeviceGoes ClosedGoes
