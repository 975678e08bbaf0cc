SPECIFICATION FairSpec
CONSTANTS
    s1 = s1
    s2 = s2
    o1 = o1
    o2 = o2
    Skus = {s1, s2}
    StaticSkus = {s1}
    Orders = {o1, o2}
    SkuOf <- BothFirst
    MaxHalves = 3
    Amounts <- FirstVaries
    MaxFaults = 1
INVARIANTS
    PushIsCovered
    OfferIsCovered
PROPERTIES
    UnansweredKeepsLevel
    LevelsSettle
CHECK_DEADLOCK FALSE
