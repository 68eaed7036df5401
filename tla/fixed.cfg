SPECIFICATION FairSpec
CONSTANTS
    r1 = r1
    r2 = r2
    w1 = w1
    NoThread = NoThread
    BUF_SIZE = 2
    Bytes <- MCBytes
    Readers = {r1, r2}
    Writers = {w1, r2}
    Controllers = {w1}
    Counts <- MCCounts
    Messages <- MCMessages
    Signals = TRUE
    Faults = TRUE

INVARIANTS
    Inv
    ReadsOneMessage
PROPERTIES
    CommittedCallReturns
