SPECIFICATION Spec
CONSTANTS
    Faults = {"abort"}
    Paths = {"yuv"}
    MaxFrame = 2
PROPERTIES
    WaitsEnd
CHECK_DEADLOCK FALSE
