CONSTANTS
    o1 = o1
    o2 = o2
    Blank = Blank
    Orders = {o1, o2}
    Accounts = {o1, o2}
    Saved = {o2}
    Terms = {1, 2}
    Payments = {1}
    Clients = {c1}
    Leavers = {}
    Lifetime = 1
    StateCap = 1
    ChainCap = 1
    LossTolerance = 0
    MaxHeight = 3
    MaxClock = 0
    Interrupts = FALSE
    Crashes = FALSE
    Discards = FALSE
SPECIFICATION MCCalmSpec
INVARIANTS ReapIsRecorded PaidIsFunded CheckedStaysSupported
CHECK_DEADLOCK FALSE
