SPECIFICATION Spec
CONSTANTS
    Tables <- MCTables
    StateTable = "pool_snapshot"
    Deletes <- MCDeletes
    Reader = {"r1", "r2"}
    MaxFaults = 1
    MaxCrashes = 1
PROPERTY
    MaintenanceCompletes
CHECK_DEADLOCK FALSE
