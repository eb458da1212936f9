\* Every command line of MCMainScript, with cancelled calls.
CONSTANTS
    LaneCount = 2
    Side = 2
    VectorLength = 2
    MaxPacket = 16
    ChunkSize = 5
    Depth = 3
    FlushExtra = 2
    Byte = 2
    Step = 8
    MosiDepth = 2
    MaxRounds = 1
    Chain = 2
    MaxFrames = 2
    MaxBacklog = 2
    Cancels = TRUE
    Arguments <- MCArguments
SPECIFICATION Spec
INVARIANT NothingOverflows OldDataFlushed StreamKept PacketsAreFrames LeftQuiet LastLaneConfigured
PROPERTY LoopEnds
CHECK_DEADLOCK FALSE
