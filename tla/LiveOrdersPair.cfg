\* An entry and the exit of a NO position side by side, no process failure.
SPECIFICATION Spec
CONSTANTS
    Orders = {o1, o2}
    NoLeg = {o2}
    Exits = {o2}
    Quotes = {}
    Size = 1
    MaxCrashes = 0
    MaxHalts = 0
    DbFaults = FALSE
    NoOrder = NoOrder
INVARIANTS
    BookedBeforeMarked
    BookedWithinMatched
    RowsNeverAhead
