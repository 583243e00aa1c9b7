SPECIFICATION Spec
CONSTANTS
    BBits = 8
    FsBits = 3
    FsMax = 6
    BlockSize = 2
    UnaryCap = 1024
    Low = 4
    Base = 8
    Zero = 2
    Exclude = {3, 4}
    RiceTiles <- None
    PlioTiles <- None
    HcompressTiles <- None
    Hdus <- LongHdus
INVARIANT ChecksumAlways
CHECK_DEADLOCK FALSE
