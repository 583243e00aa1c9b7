SPECIFICATION Spec
CONSTANTS
    CHUNK = 1
    MaxLen = 2
    MaxRows = 3
    MaxCols = 1
    MaxHeap = 8
INVARIANT NoClobbering
CHECK_DEADLOCK FALSE
