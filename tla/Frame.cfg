SPECIFICATION Spec
CONSTANTS
    Faults <- FrameFaults
    Paths <- FramePaths
    MaxFrame = 3
INVARIANTS
    TypeOK
    SurfaceExclusive
    OutputIsOwn
    RingDrained
PROPERTIES
    NoOutputSkipped
    FrameAnswered
CHECK_DEADLOCK FALSE
