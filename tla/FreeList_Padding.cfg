SPECIFICATION Spec
CONSTANTS
    Policy = "FIND_FIRST"
    InitialSize = 128
    Sizes = {20}
    Alignments = {4}
    MaxTotal = 128
    MaxBlocks = 3
INVARIANT UsableByContainers
CHECK_DEADLOCK FALSE
