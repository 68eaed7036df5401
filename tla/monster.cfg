SPECIFICATION MonsterSpec
CONSTANTS
    Parameters <- MCParameters
    MaxTicks = 18
    MaxPerRead = 2
INVARIANTS
    RestState
    ReadIsOfItsTime
    NothingRunsOnceGone
CHECK_DEADLOCK FALSE
