SPECIFICATION Spec
CONSTANTS
    Orders = {o1}
    Hooks = {w1, w2}
    Handlers = {h1, h2}
    LineKinds = {"good", "bad", "none"}
    Lookback = 2
    SweepLimit = 2
    MaxFaults = 1
    MaxOutages = 1
SYMMETRY IntakeSymmetry
INVARIANTS
    AckedPaidIsStaged
    StagedWasPaid
    PaidInWindowIsStaged
PROPERTY StagedOnce
