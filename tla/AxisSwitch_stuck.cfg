SPECIFICATION ClockedSpec
CONSTANTS
    PORTS = 3
    FrameLen <- MCLaneFrame
    TargetsOf <- MCTwoLayers
    SourceMayPause = TRUE
    SinkMayStall = TRUE
    Loads <- LoadsStuck
    PausesBefore <- MCPayload
    LanePause = 8
    FramesDepth = 2
INVARIANTS
    NotStuck
