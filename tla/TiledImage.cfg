SPECIFICATION Spec
CONSTANTS
    Threads = {a, b}
    ReadOnly = {b}
    TileRows = 2
    Vals <- Values
    Quantized = TRUE
    Wide <- WideValues
    PendingCap = 1
    Capacities <- CacheSizes
    Coordinated = TRUE
    MaxRows = 3
    MaxPcount = 5
    CHUNK = 2
CONSTRAINT Alive
INVARIANTS
    TypeOK
    TilesReadBack
    CacheCoherent
    CacheWithinBudget
PROPERTIES
    RepackCompacts
    BufferedRowsKept
    DrainsAligned
    CallsEnd
CHECK_DEADLOCK FALSE
