SPECIFICATION Spec
CONSTANTS
    Alignments = {8}
    Counts = {1}
    Capacity = 4
    Reuse = FALSE
    MaxWords <- MoreWords
INVARIANT AlignedTypesStayInside
CHECK_DEADLOCK FALSE
