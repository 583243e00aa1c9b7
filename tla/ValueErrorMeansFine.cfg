SPECIFICATION Spec
CONSTANTS
    CPB = 2
    UPB = 2
    MinCards = 3
    MaxCards = 4
    MaxMain = 2
    MaxHeap = 0
    Kinds = {"table"}
    MaxHdus = 2
    MaxBlocks = 8
    MaxSpare = 1
CONSTRAINT NoIOErrors
INVARIANT ValueErrorMeansFine
CHECK_DEADLOCK FALSE
