SPECIFICATION Spec
CONSTANTS
    Batches = {b1}
    Queries = {q1}
    Runs = {r1, r2}
    Orders = {o1}
    Requests = 2
INVARIANTS
    SessionIsOwn
    OkMeansRecorded
    LockIsNotLeaked
PROPERTY EveryCallReturns
