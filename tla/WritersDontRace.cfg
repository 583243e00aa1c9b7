SPECIFICATION Spec
CONSTANTS
    Threads = {a, b}
    ReadOnly = {}
    TileRows = 2
    Vals <- Values
    Quantized = TRUE
    Wide <- WideValues
    PendingCap = 1
    Capacities <- CacheSizes
    Coordinated = FALSE
    MaxRows = 3
    MaxPcount = 2
    CHUNK = 2
CONSTRAINT Alive
INVARIANT WritersDontRace
CHECK_DEADLOCK FALSE
