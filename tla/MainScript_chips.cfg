\* Two lanes with a file each: the lane named first keeps what its chips had.
CONSTANTS
    LaneCount = 2
    Side = 2
    VectorLength = 2
    MaxPacket = 16
    ChunkSize = 100
    Depth = 3
    FlushExtra = 2
    Byte = 2
    Step = 8
    MosiDepth = 2
    MaxRounds = 1
    Chain = 2
    MaxFrames = 2
    MaxBacklog = 2
    Cancels = FALSE
    Arguments <- MCTwoLanes
SPECIFICATION Spec
CHECK_DEADLOCK FALSE
INVARIANT LanesConfigured
