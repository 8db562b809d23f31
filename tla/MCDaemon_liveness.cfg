CONSTANTS
    o1 = o1
    o2 = o2
    Blank = Blank
    Orders = {o1}
    Accounts = {o1}
    Saved = {o1}
    Terms = {1}
    Payments = {1}
    Clients = {c1}
    Leavers = {}
    Lifetime = 1
    StateCap = 7
    ChainCap = 2
    LossTolerance = 0
    MaxHeight = 2
    MaxClock = 0
    Interrupts = TRUE
    Crashes = FALSE
    Discards = FALSE
SPECIFICATION FairSpec
PROPERTIES HandlerComesBack RestoreCompletes ReportedIsRecorded CancelledStops
CHECK_DEADLOCK FALSE
