SPECIFICATION ClockedSpec
CONSTANTS
    Host = {1, 2}
    Command <- MCShort
    FifoAddress <- MCFifoAddress
    FifoWords = 16
    PortDepth = 3
    EgressDepth = 4
    DrainGap = 1
    Waits = FALSE
PROPERTIES
    OneHostPerCommand   \* or: NoByteDropped, which fails with one host too
