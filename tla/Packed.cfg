SPECIFICATION Spec
CONSTANTS
    Alignments = {1, 2, 4}
    Counts = {1, 2, 4}
    Capacity = 1
    Reuse = FALSE
    MaxWords <- Words
INVARIANTS
    TypeOK
    Apart
    TagsAgree
    StaysInside
CHECK_DEADLOCK FALSE
