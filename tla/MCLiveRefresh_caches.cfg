SPECIFICATION Spec
CONSTANTS
    Proc = {api1, api2}
    Slot = {s1, s2}
    Pushed = {"pools"}
    Polled = {}
    Loaded = {}
    L1Ttl = 1
    L2Ttl = 2
    MaxAge = 1
    MaxWrites = 1
    MaxOthers = 1
    MaxFaults = 1
SYMMETRY Symmetry
INVARIANTS
    TypeOK
    StalenessIsBounded
CHECK_DEADLOCK FALSE
