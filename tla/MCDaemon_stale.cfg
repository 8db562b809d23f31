CONSTANTS
    o1 = o1
    o2 = o2
    Blank = Blank
    Orders = {o1}
    Accounts = {o1}
    Saved = {}
    Terms = {1, 2}
    Payments = {1}
    Clients = {c1}
    Leavers = {}
    Lifetime = 1
    StateCap = 2
    ChainCap = 2
    LossTolerance = 0
    MaxHeight = 3
    MaxClock = 1
    Interrupts = FALSE
    Crashes = FALSE
    Discards = FALSE
SPECIFICATION Spec
INVARIANTS PaidIsFunded
CHECK_DEADLOCK FALSE
