SPECIFICATION Spec
CONSTANTS
    Word = {w1, w2}
    Capacity = 3
    DUAL_CLOCK = FALSE
PROPERTIES
    CountSettles
