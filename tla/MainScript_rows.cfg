\* Two frames, the second on the boundary of two chunks of the file.  With
\* these constants ChunksAreFrames (what lies across the boundary),
\* OnlyWhatIsThere (a level read byte by byte while words arrive) and
\* OldDataFlushed (one word more than the flush reads) fail as well.
CONSTANTS
    LaneCount = 2
    Side = 2
    VectorLength = 2
    MaxPacket = 16
    ChunkSize = 5
    Depth = 3
    FlushExtra = 2
    Byte = 2
    Step = 8
    MosiDepth = 2
    MaxRounds = 1
    Chain = 2
    MaxFrames = 2
    MaxBacklog = 3
    Cancels = FALSE
    Arguments <- MCPlain
SPECIFICATION Spec
CHECK_DEADLOCK FALSE
INVARIANT EveryHitDecoded
