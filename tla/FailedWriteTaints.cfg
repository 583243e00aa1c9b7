SPECIFICATION Spec
CONSTANTS
    CPB = 2
    UPB = 2
    MinCards = 2
    MaxCards = 2
    MaxMain = 1
    MaxHeap = 0
    Kinds = {"image"}
    MaxHdus = 1
    MaxBlocks = 6
    MaxSpare = 1
INVARIANT FailedWriteTaints
CHECK_DEADLOCK FALSE
