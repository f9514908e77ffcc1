SPECIFICATION Spec
CONSTANTS
    WidthAlignment <- MCWidthAlignment
    HeightAlignment <- MCHeightAlignment
    Jobs <- MCJobs
INVARIANTS
    TypeOK
    SurfaceIsPicture
    InsideBuffers
    PathsAgree
    UnitsKept
    ParametersKept
    SizeAccounts
    KeyFlag
    RangeTold
CHECK_DEADLOCK FALSE
