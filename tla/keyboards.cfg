SPECIFICATION MonitorsSpec
CONSTANTS
    r1 = r1
    k1 = k1
    k2 = k2
    NoEvent = NoEvent
    BUF_SIZE = 4
    Events <- MCEvents
    Readers = {r1}
    Keyboards = {k1, k2}
    Signals = TRUE
    KeysOf <- MCKeysOf
    LOG_SIZE = 3
    NUL = NUL
    LeftCtrl = "ctrl"
    LeftAlt = "alt"
    K = "k"
    MaxTime = 4
INVARIANTS
    RingInv
    LogPrintable
    ModifiersHeld
    NegativeOnlyByOverlap
PROPERTIES
    ImplementsKeyQueue
