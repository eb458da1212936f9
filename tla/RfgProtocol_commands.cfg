SPECIFICATION ClockedSpec
CONSTANTS
    Host = {1}
    Command <- MCCommands
    FifoAddress <- MCFifoAddress
    FifoWords = 16
    PortDepth = 3
    EgressDepth = 4
    DrainGap = 1
    Waits = TRUE
INVARIANTS
    TypeOK
    AnswerInOrder
    WritesAsCommanded
PROPERTIES
    ReadAnswered
