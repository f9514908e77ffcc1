SPECIFICATION Spec
CONSTANTS
    WidthAlignment <- MCWidthAlignment
    HeightAlignment <- MCHeightAlignment
    Jobs <- MCJobs
INVARIANT
    WholeFrameReported
CHECK_DEADLOCK FALSE
