SPECIFICATION Spec
CONSTANTS
    Hdu = {h1}
    Byte = {0, 1}
    Zero = 0
    CHUNK = 2
    Deltas <- const_Deltas
    MaxLen = 5
INVARIANTS
    TypeOK
    SourceNotClobbered
    MoveInv
PROPERTIES
    ShiftIsWhole
    ImplementsAtomicEdit
CHECK_DEADLOCK FALSE
