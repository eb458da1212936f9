SPECIFICATION Spec
CONSTANTS
    Depth = 4
    Word = {w1, w2}
INVARIANTS
    TypeOK
    PointersMatchCount
    FlagsMatchCount
PROPERTY
    ImplementsQueue
