SPECIFICATION FairSpec
CONSTANTS
    Instances = {i1}
    Orders = {1}
    Parts = {1}
    ListLimit = 1
    MaxFaults = 1
PROPERTY ShippedRowIsFulfilled
CHECK_DEADLOCK FALSE
