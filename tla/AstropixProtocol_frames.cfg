SPECIFICATION ClockedSpec
CONSTANTS
    MaxLength = 2
    MisoDepth = 1
    cfg_nodata_continue = 1
    Settings = {{"stalls", "resets"}, {"paced", "autonomous"}}
INVARIANTS
    TypeOK
    PayloadInOrder
PROPERTIES
    FrameWellFormed
    OfferStays
    FrameCounted
    IdleCounted
    FrameCompletes
