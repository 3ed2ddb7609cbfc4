\* Four tasks over the same tables, in scenes.
SPECIFICATION FairSpec
CONSTANTS
    b1 = b1
    b2 = b2
    s1 = s1
    m1 = m1
    Orders <- MCOrders
    Manual <- MCManual
    TradeSide <- MCSide
    TradeToken <- MCToken
    TradeSize <- MCSize
    SharesIn <- MCShares
    Scenes <- MCScenes
    NoRow = NoRow
INVARIANTS
    TypeOK
    RecordedOnce
    TalliedOnce
    AccruedOnce
PROPERTIES
    HoldingsConverge
    SettledStaysGone
    HeldLegsSettle
