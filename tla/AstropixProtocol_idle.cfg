SPECIFICATION Spec
CONSTANTS
    MaxLength = 2
    MisoDepth = 2
    cfg_nodata_continue = 1
    Settings = {{"autonomous", "stalls"}}
PROPERTIES
    IdleAlwaysCounted   \* or: NodataCountsBytes, or as INVARIANT PayloadAlwaysInOrder
