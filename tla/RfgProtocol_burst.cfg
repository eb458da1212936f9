SPECIFICATION ClockedSpec
CONSTANTS
    Host = {1}
    Command <- MCLong
    FifoAddress <- MCFifoAddress
    FifoWords = 16
    PortDepth = 3
    EgressDepth = 4
    DrainGap = 0
    Waits = TRUE
INVARIANTS
    AnswerInOrder
