SPECIFICATION FairSpec
CONSTANTS
    Instances = {i1}
    Orders = {1, 2}
    BatchLimit = 2
    MaxAttempts = 2
    BatchTimeout = 1
    StaleAfter = 2
    NetFaults = TRUE
    DbFaults = TRUE
    MaxCrashes = 1
    MaxDrains = 0
    MaxRetries = 0
INVARIANTS
    AttemptsCountSends
PROPERTY PendingIsTakenUp
