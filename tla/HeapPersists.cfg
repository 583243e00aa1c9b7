SPECIFICATION Spec
CONSTANTS
    CPB = 2
    UPB = 2
    MinCards = 2
    MaxCards = 2
    MaxMain = 2
    MaxHeap = 2
    Kinds = {"vla"}
    MaxHdus = 2
    MaxBlocks = 6
    MaxSpare = 1
INVARIANT HeapPersists
CHECK_DEADLOCK FALSE
