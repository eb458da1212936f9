SPECIFICATION Spec
CONSTANTS
    PORTS = 3
    FrameLen <- MCCommandLen
    TargetsOf <- MCTwoLayers
    SourceMayPause = FALSE
    SinkMayStall = FALSE
INVARIANTS
    NotStuck
