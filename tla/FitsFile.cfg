SPECIFICATION Spec
CONSTANTS
    CPB = 2
    UPB = 2
    MinCards = 2
    MaxCards = 3
    MaxMain = 2
    MaxHeap = 2
    Kinds = {"image", "vla"}
    MaxHdus = 3
    MaxBlocks = 6
    MaxSpare = 1
CONSTRAINT Explored
INVARIANTS
    TypeOK
    SectionsDisjoint
    LayoutInv
    DataOwned
    ReopenAgrees
PROPERTIES
    OthersIntact
CHECK_DEADLOCK FALSE
