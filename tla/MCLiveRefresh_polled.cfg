SPECIFICATION Spec
CONSTANTS
    Proc = {"api"}
    Slot = {"s1", "s2"}
    Pushed = {"pools"}
    Polled = {"overview"}
    Loaded = {"pools"}
    L1Ttl = 1
    L2Ttl = 2
    MaxAge = 1
    MaxWrites = 1
    MaxOthers = 0
    MaxFaults = 1
PROPERTIES
    CachesCatchUp
    PolledPagesCatchUp
    PushedPagesAsk
CHECK_DEADLOCK FALSE
