SPECIFICATION Spec
CONSTANTS
    Instances = {i1, i2}
    Orders = {1}
    BatchLimit = 1
    MaxAttempts = 2
    BatchTimeout = 1
    StaleAfter = 2
    NetFaults = TRUE
    DbFaults = TRUE
    MaxCrashes = 0
    MaxDrains = 1
    MaxRetries = 1
SYMMETRY InstanceSymmetry
INVARIANTS
    ClaimIsExclusive
    DuplicateNeedsLostAnswer
    UnsubmittedIsNotInSyspro
    SubmittedIsInSyspro
PROPERTIES
    SubmittedIsFinal
    ImplementsLifecycle
