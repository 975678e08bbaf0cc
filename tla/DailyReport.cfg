SPECIFICATION Spec
CONSTANTS
    Orders = {o1}
    TestOrders = {}
    Manual = {}
    Enabled = {"cash"}
    SendHour <- MCSendHour
    FirstSlot = 2
    Slots = 3
    MaxDay = 2
    MaxFaults = 2
    MaxResends = 1
INVARIANTS
    SentTwiceIsExplained
    CleanSlotReports
    DayIsWholeAndOwn
CHECK_DEADLOCK FALSE
