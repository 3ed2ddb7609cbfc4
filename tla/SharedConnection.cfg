\* Two transactions and a legacy writer; any statement may raise, any task may be
\* cancelled.
SPECIFICATION FairSpec
CONSTANTS
    Batches = {b1, b2}
    Singles = {s1}
    BodySize = 2
    MaxCancels = 3
    MaxFaults = 2
    RollbackFaults = TRUE
    NoTask = NoTask
INVARIANTS
    TypeOK
    WaitersCounted
PROPERTIES
    KeepsStorePromise
    EveryCallReturns
