\* Three calls in any order, with and without flush.
CONSTANTS
    LaneCount = 2
    MaxCalls = 3
    Repeats = FALSE
    Configs <- MCConfigs
    Frequencies <- MCFrequencies
    Patterns <- MCPatterns
    Sources <- MCSources
SPECIFICATION CallsSpec
INVARIANT WritesStayInside
PROPERTY CallsAreSettings
CHECK_DEADLOCK FALSE
