\* A cancel races a fill; nothing fails.
SPECIFICATION Spec
CONSTANTS
    Orders = {o1}
    NoLeg = {}
    Exits = {}
    Quotes = {}
    Size = 1
    MaxCrashes = 0
    MaxHalts = 0
    DbFaults = FALSE
    NoOrder = NoOrder
PROPERTIES
    MatchedStaysTracked
