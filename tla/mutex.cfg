SPECIFICATION MutexFairSpec
CONSTANTS
    p1 = p1
    p2 = p2
    NoProcess = NoProcess
    Size = 2
    Bytes <- MCBytes
    Processes = {p1, p2}
    Counts <- MCCounts
    Messages <- MCMessages
    Faults = TRUE
    Forks = TRUE
    Signals = TRUE
INVARIANTS
    MutexInv
    OwnerReadsBack
PROPERTIES
    OpenReturns
