SPECIFICATION Spec
CONSTANTS
    Orders = {o1, o2}
    Hooks = {w1, w2}
    Handlers = {h1}
    LineKinds = {"good"}
    Lookback = 1
    SweepLimit = 2
    MaxFaults = 1
    MaxOutages = 0
SYMMETRY IntakeSymmetry
INVARIANTS
    NoWakeupLost
    PaidInWindowIsStaged
