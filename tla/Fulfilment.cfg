SPECIFICATION FairSpec
CONSTANTS
    Instances = {i1}
    Orders = {1, 2}
    Parts = {1, 2}
    ListLimit = 2
    MaxFaults = 1
INVARIANTS
    FulfilledIsShipped
    NoticeFollowsDispatch
    SecondNoticeIsExplained
PROPERTY DispatchReachesShopify
CHECK_DEADLOCK FALSE
