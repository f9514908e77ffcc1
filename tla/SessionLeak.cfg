SPECIFICATION Spec
CONSTANTS
    Faults = {"cpuContext"}
    Careless <- NoCareless
    IDRPeriods = {0, 2}
    MaxFrame = 2
    MaxSize = 2
    MaxSets = 1
    SetHeader = 1
INVARIANTS
    NothingLost
