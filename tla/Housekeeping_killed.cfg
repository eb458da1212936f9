\* Five scripts are killed: the FIFOs of 6 bytes are full, and three tries are not enough.
CONSTANTS
    NumAdcs = 3
    NumChannels = 8
    FifoDepth = 6
    MaxRows = 1
    MaxRestarts = 5
    Scripts <- MCScripts
    RootTaken <- MCRootTaken
SPECIFICATION Spec
INVARIANT CodesAreChannels
CHECK_DEADLOCK FALSE
