\* The exit sell of a NO position; nothing fails.
SPECIFICATION Spec
CONSTANTS
    Orders = {o1}
    NoLeg = {o1}
    Exits = {o1}
    Quotes = {}
    Size = 1
    MaxCrashes = 0
    MaxHalts = 0
    DbFaults = FALSE
    NoOrder = NoOrder
INVARIANTS
    BookedOnOwnToken
