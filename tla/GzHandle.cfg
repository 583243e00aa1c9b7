SPECIFICATION Spec
CONSTANTS
    Threads = {a, b, c}
    Syncers = {a, b, c}
    NoThread = NoThread
    MaxCalls = 6
INVARIANTS
    TypeOK
    CleanMeansSaved
    CloseSaves
PROPERTIES
    NeverOlder
    CallsEnd
CHECK_DEADLOCK FALSE
