SPECIFICATION FairSpec
CONSTANTS
    c1 = c1
    c2 = c2
    j1 = j1
    j2 = j2
    j3 = j3
    j4 = j4
    bq = bq
    Main = main
    NoJob = NoJob
    Nobody = Nobody
    NumThreads = 1
    Clients = {c1}
    Jobs = {j1}
    Child <- NoChildren
    ByRef = {}
    Priority = {}
    BoundQueues = {bq}
    UninitQueues = {}
    Calls = {"bind", "unbind", "end"}
    MaxInits = 1
    MaxTokens = 2
PROPERTY EndReturns
CHECK_DEADLOCK FALSE
