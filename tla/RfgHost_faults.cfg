SPECIFICATION Spec
CONSTANTS
    Register <- MCRegister
    Value = {1, 258}
    Address <- MCAddress
    FifoWords = 8
    MaxRead = 2
    PartLength = 2
    MaxCalls = 4
    Repeats = TRUE
    Faults = {"cancel", "port"}
    Noise = {7}
    MaxNoise = 1
    MaxFaults = 1
PROPERTIES
    WritesAreKept   \* or: AnswerIsOwnAlways, WriteLeavesOthers
CHECK_DEADLOCK FALSE
