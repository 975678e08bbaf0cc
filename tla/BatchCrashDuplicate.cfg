SPECIFICATION Spec
CONSTANTS
    Instances = {i1}
    Orders = {1}
    BatchLimit = 1
    MaxAttempts = 3
    BatchTimeout = 1
    StaleAfter = 2
    NetFaults = FALSE
    DbFaults = FALSE
    MaxCrashes = 1
    MaxDrains = 0
    MaxRetries = 0
INVARIANT NoDuplicateInSyspro
