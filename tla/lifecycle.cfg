SPECIFICATION Spec
CONSTANTS
    Drivers <- AllDrivers
    MaxWriting = 2
INVARIANTS
    RequestsUndone
    FileKeepsModule
    
CHECK_DEADLOCK FALSE
