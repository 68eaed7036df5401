SPECIFICATION Spec
CONSTANTS
    p1 = p1
    p2 = p2
    p3 = p3
    NoProcess = NoProcess
    Processes = {p1, p2, p3}
    Counts = {0, 1}
    Signals = TRUE
    MaxCloses = 3
INVARIANTS
    ReadersBoundedByCloses
    WakeupPending
PROPERTIES
    StuckUntilOthersUnlock
CHECK_DEADLOCK FALSE
