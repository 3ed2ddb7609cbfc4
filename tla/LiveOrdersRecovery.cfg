\* One order through partial fills, a crash, a kill-switch or shutdown sweep.
SPECIFICATION FairSpec
CONSTANTS
    Orders = {o1}
    NoLeg = {o1}
    Exits = {}
    Quotes = {}
    Size = 2
    MaxCrashes = 1
    MaxHalts = 1
    DbFaults = TRUE
    NoOrder = NoOrder
INVARIANTS
    TypeOK
PROPERTIES
    OrdersWindDown
CHECK_DEADLOCK FALSE
