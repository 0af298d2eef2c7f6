SPECIFICATION Spec
CONSTANTS
    c1 = c1
    c2 = c2
    j1 = j1
    j2 = j2
    j3 = j3
    j4 = j4
    bq = bq
    Main = main
    NoJob = NoJob
    Nobody = Nobody
    NumThreads = 2
    Clients = {c1, c2}
    Jobs = {j1, j2, j4}
    Child <- J1Spawns
    ByRef = {j2}
    Priority = {j2}
    BoundQueues = {}
    UninitQueues = {}
    Calls = {"finish", "execute"}
    MaxInits = 1
    MaxTokens = 4
INVARIANTS
    TypeOK
    NoJobLost
    OnlyOnce
    CopiesOwned
    WakeupsCover
CHECK_DEADLOCK FALSE
