\* A transaction whose COMMIT and forced ROLLBACK raise, then a legacy writer and
\* the next transaction.
SPECIFICATION Spec
CONSTANTS
    Batches = {b1, b2}
    Singles = {s1}
    BodySize = 1
    MaxCancels = 0
    MaxFaults = 2
    RollbackFaults = TRUE
    NoTask = NoTask
PROPERTIES
    RollbackSparesDone
