\* An order whose row outlives its tracking; nothing fails.
SPECIFICATION FairSweepSpec
CONSTANTS
    Orders = {o1}
    NoLeg = {}
    Exits = {}
    Quotes = {}
    Size = 1
    MaxCrashes = 0
    MaxHalts = 0
    DbFaults = FALSE
    NoOrder = NoOrder
PROPERTIES
    PendingRowsResolve
