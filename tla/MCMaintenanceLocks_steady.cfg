SPECIFICATION Spec
CONSTANTS
    Tables <- MCTables
    StateTable = "pool_snapshot"
    Deletes <- MCDeletes
    Reader = {"r1", "r2"}
    MaxFaults = 1
    MaxCrashes = 1
INVARIANTS
    TypeOK
    MarkedMeansPartitioned
    ReadsWaitForNewPartitionsOnly
PROPERTIES
    CompletesWithoutNewPartitions
    StoppingFreesReaders
CHECK_DEADLOCK FALSE
