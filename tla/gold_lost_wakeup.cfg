SPECIFICATION FairSpec
CONSTANTS
    BUF_SIZE = 2
    r1 = r1
    r2 = r2
    w1 = w1
    w2 = w2
    p1 = p1
    x1 = x1
    NoThread = NoThread
    Bytes <- MCBytes
    Readers = {r1}
    Writers = {w1}
    Pollers = {}
    Resetters = {}
    Counts <- MCCounts
    Messages <- MCMessages
    PollEvents <- MCPollEvents
    Signals = FALSE
    Faults = TRUE
PROPERTIES
    SleepersWoken
