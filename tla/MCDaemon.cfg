CONSTANTS
    o1 = o1
    o2 = o2
    Blank = Blank
    Orders = {o1}
    Accounts = {o1}
    Saved = {}
    Terms = {1, 2}
    Payments = {2}
    Clients = {c1}
    Leavers = {c1}
    Lifetime = 1
    StateCap = 2
    ChainCap = 2
    LossTolerance = 0
    MaxHeight = 2
    MaxClock = 1
    Interrupts = TRUE
    Crashes = TRUE
    Discards = TRUE
SPECIFICATION Spec
INVARIANTS TypeOK OneReapPerOrder AwaitedIsInFlight
PROPERTIES ContractSpec LedgerIsStill
CHECK_DEADLOCK FALSE
