SPECIFICATION Spec
CONSTANTS
    BUF_SIZE = 2
    r1 = r1
    r2 = r2
    w1 = w1
    w2 = w2
    p1 = p1
    x1 = x1
    NoThread = NoThread
    Bytes <- MCBytes
    Readers = {r1, r2}
    Writers = {w1}
    Pollers = {}
    Resetters = {x1}
    Counts <- MCCounts
    Messages <- MCMessages
    PollEvents <- MCPollEvents
    Signals = TRUE
    Faults = TRUE
SYMMETRY ReaderSymmetry
INVARIANTS
    TypeOK
    RingConsistent
    LockHeldWhenCritical
PROPERTIES
    ImplementsQueue
