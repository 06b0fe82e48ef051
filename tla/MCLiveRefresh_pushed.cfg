SPECIFICATION Spec
CONSTANTS
    Proc = {"api"}
    Slot = {"s1"}
    Pushed = {"ladder"}
    Polled = {}
    Loaded = {"ladder"}
    L1Ttl = 2
    L2Ttl = 3
    MaxAge = 0
    MaxWrites = 1
    MaxOthers = 1
    MaxFaults = 0
PROPERTY
    PushedPagesCatchUp
CHECK_DEADLOCK FALSE
