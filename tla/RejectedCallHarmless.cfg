SPECIFICATION Spec
CONSTANTS
    TileRows = 2
    RowVals <- Rows
    BadFixed <- Unconvertible
    BadCells <- UnconvertibleCells
    RowKeys <- KeysOfRows
    PendingCap = 1
    Capacities <- CacheSizes
    MaxRows = 3
    MaxPcount = 4
    MaxZpcount = 3
    CHUNK = 1
CONSTRAINT Unharmed
INVARIANT RejectedCallHarmless
CHECK_DEADLOCK FALSE
