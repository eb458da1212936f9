SPECIFICATION Spec
CONSTANTS
    PORTS = 3
    FrameLen <- MCFrameLen
    TargetsOf <- MCTwoLayers
    SourceMayPause = TRUE
    SinkMayStall = TRUE
INVARIANTS
    GrantOneHot
PROPERTIES
    InOrder
