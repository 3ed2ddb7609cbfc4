\* A sale of ours, swept before its fill is recorded.
SPECIFICATION Spec
CONSTANTS
    b1 = b1
    b2 = b2
    s1 = s1
    m1 = m1
    Orders <- MCOrders
    Manual <- MCManual
    TradeSide <- MCSide
    TradeToken <- MCToken
    TradeSize <- MCSize
    SharesIn <- MCShares
    Scenes <- MCScenes
    NoRow = NoRow
INVARIANTS
    NoSaleBookedTwice
