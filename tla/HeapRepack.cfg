SPECIFICATION Spec
CONSTANTS
    CHUNK = 1
    MaxLen = 2
    MaxRows = 3
    MaxCols = 2
    MaxHeap = 6
CONSTRAINT Explored
INVARIANTS
    TypeOK
    CellsIntact
    HeapWellFormed
PROPERTIES
    RepackCompacts
    RepackEnds
CHECK_DEADLOCK FALSE
