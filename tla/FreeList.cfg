SPECIFICATION Spec
CONSTANTS
    Policy = "FIND_FIRST"
    InitialSize = 96
    Sizes = {8, 24}
    Alignments = {8}
    MaxTotal = 240
    MaxBlocks = 3
INVARIANTS
    Apart
    NothingLost
    GrowthSuffices
CHECK_DEADLOCK FALSE
