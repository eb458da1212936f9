SPECIFICATION ClockedSpec
CONSTANTS
    Word = {w1, w2}
    Capacity = 3
    DUAL_CLOCK = FALSE
INVARIANTS
    TypeOK
    StrobeSafe
PROPERTIES
    ImplementsStream
    CountNeverOver
    Offered
