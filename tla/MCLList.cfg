SPECIFICATION Spec
CONSTANTS
    MaxSize = 6
    PtrFree = TRUE
    Jobs = {j1, j2}
    NoJob = NoJob
    MaxID = 5
INVARIANTS
    ListTypeOK
    NoSlotTwice
    SlotsSound
PROPERTY ImplementsDeque
