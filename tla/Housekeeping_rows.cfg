\* Three scripts are killed wherever they are; the FIFOs have room for what they leave.
CONSTANTS
    NumAdcs = 3
    NumChannels = 8
    FifoDepth = 8
    MaxRows = 2
    MaxRestarts = 3
    Scripts <- MCScripts
    RootTaken <- MCRootTaken
SPECIFICATION Spec
INVARIANT CodesAreChannels
PROPERTY RowCompletes
CHECK_DEADLOCK FALSE
