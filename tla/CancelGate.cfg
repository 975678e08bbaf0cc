SPECIFICATION FairSpec
CONSTANTS
    Orders = {o1}
    Hooks = {w1}
    Handlers = {h1, h2}
    EntryCodes = {"1"}
    MaxMoves = 1
    MaxFaults = 1
INVARIANTS
    VerdictWasTrue
    PreSysproIsExplained
    AckedIsRecorded
PROPERTIES
    VerdictIsFinal
    CancellationIsRecorded
CHECK_DEADLOCK FALSE
