SPECIFICATION Spec
CONSTANTS
    Threads = {a, b}
    Syncers = {a, b}
    NoThread = NoThread
    MaxCalls = 5
INVARIANT SyncIsDurable
CHECK_DEADLOCK FALSE
