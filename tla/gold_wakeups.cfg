SPECIFICATION FairSpec
CONSTANTS
    BUF_SIZE = 2
    r1 = r1
    r2 = r2
    w1 = w1
    w2 = w2
    p1 = p1
    x1 = x1
    NoThread = NoThread
    Bytes <- MCBytes
    Readers = {r1}
    Writers = {w1}
    Pollers = {p1}
    Resetters = {r1}
    Counts <- MCShortCounts
    Messages <- MCLong
    PollEvents <- MCSingleEvents
    Signals = TRUE
    Faults = FALSE
INVARIANTS
    ReaderWakeupPending
    WriterWakeupPending
    PollWakeupPending
    BlockingReadDelivers
PROPERTIES
    SleepersWoken
    CommittedCallReturns
