SPECIFICATION Spec
CONSTANTS
    PORTS = 3
    FrameLen <- MCHostLen
    TargetsOf <- MCHostTargets
    SourceMayPause = FALSE
    SinkMayStall = FALSE
INVARIANTS
    ToTarget
