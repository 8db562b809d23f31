CONSTANTS
    order = order
    alice = alice
    bob = bob
    Orders = {order}
    Recipients = {alice, bob}
    Handler = Handler
    NoOrder = NoOrder
    Unfilled = Unfilled
    SignerCap = 1
    MantissaBits = 7
    MaxExponent = 11
    BalanceBits = 8
    LossTolerance = 6
    ManualIntervention = 8
    Runtimes <- MCRuntimes
    Currencies <- MCCurrencies
    Prices <- MCPrices
    Deposits = {9}
    EraPeriod = 0
    MaxHeight = 1
    MaxFunds = 18
    MaxBoots = 2
SPECIFICATION MCSpec
INVARIANTS TypeOK SentIsAsOrdered PaysInWindow PaidOnceWhileAlive PaidToOwner
PROPERTIES EveryoneIsAnswered
CHECK_DEADLOCK FALSE
