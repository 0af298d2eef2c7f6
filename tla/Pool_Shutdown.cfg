SPECIFICATION FairSpec
CONSTANTS
    c1 = c1
    c2 = c2
    j1 = j1
    j2 = j2
    j3 = j3
    j4 = j4
    bq = bq
    Main = main
    NoJob = NoJob
    Nobody = Nobody
    NumThreads = 2
    Clients = {c1}
    Jobs = {j1}
    Child <- NoChildren
    ByRef = {}
    Priority = {}
    BoundQueues = {bq}
    UninitQueues = {bq}
    Calls = {"execute", "bind", "end"}
    MaxInits = 2
    MaxTokens = 2
INVARIANTS
    NoWorkerOutlivesPool
PROPERTIES
    EndReturns
CHECK_DEADLOCK FALSE
