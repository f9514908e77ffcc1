SPECIFICATION Spec
CONSTANTS
    Faults <- CleanFaults
    Careless <- NoCareless
    IDRPeriods = {0, 2}
    MaxFrame = 2
    MaxSize = 2
    MaxSets = 1
    SetHeader = 1
INVARIANTS
    IdleHoldsNothing
    NothingLost
    NoMisuse
    
    SizeBelongsToSession
PROPERTIES
    ImplementsContract
