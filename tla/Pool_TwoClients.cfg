SPECIFICATION Spec
CONSTANTS
    c1 = c1
    c2 = c2
    j1 = j1
    j2 = j2
    j3 = j3
    j4 = j4
    bq = bq
    Main = main
    NoJob = NoJob
    Nobody = Nobody
    NumThreads = 1
    Clients = {c1, c2}
    Jobs = {j1, j2}
    Child <- NoChildren
    ByRef = {}
    Priority = {}
    BoundQueues = {}
    UninitQueues = {}
    Calls = {"finish"}
    MaxInits = 1
    MaxTokens = 4
PROPERTY FinishMeansDone
CHECK_DEADLOCK FALSE
