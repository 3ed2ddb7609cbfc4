\* Two quotes, no answer lost: what the first one fills is forgotten with it.
SPECIFICATION MakerSpec
CONSTANTS
    MaxInventory = 2
    Pairs = 2
    Mishaps = 0
INVARIANTS
    ExposureWithinCapacity
CHECK_DEADLOCK FALSE
