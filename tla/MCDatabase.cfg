CONSTANTS
    o1 = o1
    Blank = Blank
    Orders = {o1}
    Terms = {t1, t2}
    Accounts = {a1, a2}
    Callers = {c1, c2}
    Ids = {i1, i2}
    RawKey <- PlainIds
    Instants = {0}
    AccountLifetime = 1
    QueueCap = 2
    MaxBoots = 2
SPECIFICATION FairSpec
INVARIANTS TypeOK OneReceipt DiskIsEarlier WaitersAreQueued
PROPERTIES NoReceiptAfterDisk ContractSpec EveryCallIsAnswered
CHECK_DEADLOCK FALSE
