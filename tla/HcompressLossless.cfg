SPECIFICATION Spec
CONSTANTS
    BBits = 8
    FsBits = 3
    FsMax = 6
    BlockSize = 2
    UnaryCap = 1024
    Low = 4
    Base = 16
    Zero = 4
    Exclude = {6, 9}
    RiceTiles <- None
    PlioTiles <- None
    HcompressTiles <- OneRow
    Hdus <- None
INVARIANT HcompressLossless
CHECK_DEADLOCK FALSE
