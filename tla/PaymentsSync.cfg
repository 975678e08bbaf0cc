SPECIFICATION Spec
CONSTANTS
    Payments = {p1, p2}
    Procs = {i1, i2}
    BatchSize = 2
    MaxAttempts = 2
    MaxFaults = 2
    MaxRequeues = 1
INVARIANTS
    PostedIsInSyspro
    DoubleIsExplained
    DeadLetterNeedsOverlap
PROPERTIES
    PendingIsSettled
