SPECIFICATION Spec
CONSTANTS
    CPB = 2
    UPB = 2
    MinCards = 2
    MaxCards = 3
    MaxMain = 2
    MaxHeap = 1
    Kinds = {"vla"}
    MaxHdus = 2
    MaxBlocks = 6
    MaxSpare = 1
CONSTRAINT NoErrors
INVARIANT AppendFits
CHECK_DEADLOCK FALSE
