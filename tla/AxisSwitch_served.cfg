SPECIFICATION ClockedSpec
CONSTANTS
    PORTS = 3
    FrameLen <- MCLaneFrame
    TargetsOf <- MCTwoLayers
    SourceMayPause = TRUE
    SinkMayStall = TRUE
    Loads <- LoadsServed
    PausesBefore <- MCPayload
    LanePause = 4
    FramesDepth = 2
INVARIANTS
    NotStuck
PROPERTIES
    Served
