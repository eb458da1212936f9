SPECIFICATION Spec
CONSTANTS
    Register <- MCRegister
    Value = {1, 258}
    Address <- MCAddress
    FifoWords = 8
    MaxRead = 2
    PartLength = 2
    MaxCalls = 4
    Faults = {"cancel", "port"}
    Noise = {}
    MaxNoise = 0
    MaxFaults = 1
    Repeats = FALSE
INVARIANTS
    TypeOK
PROPERTIES
    SessionIsRegisterAccess
    WriteLeavesOthers
    AnswerIsOwn
    CallReturns
CHECK_DEADLOCK FALSE
