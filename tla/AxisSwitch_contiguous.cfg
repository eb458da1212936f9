SPECIFICATION Spec
CONSTANTS
    PORTS = 3
    FrameLen <- MCFrameLen
    TargetsOf <- MCTwoLayers
    SourceMayPause = FALSE
    SinkMayStall = FALSE
PROPERTIES
    FramesContiguous
