SPECIFICATION Spec
CONSTANTS
    \* Settings
    Groups = {ga, gb}
    Global = gg
    NumPtrs = 1
    Opt = "opt"
    Other = "other"
    MaxValue = 1
    MaxBlocks = 3
    MaxReloads = 1
    MaxSaves = 2
    \* KDTree
    Points <- FourPoints
    K = 2
    MaxNodes = 4
    \* HistoryList
    C = 3
    Items = {a, b}
    Default = none
    MaxCounter = 6
    \* Scheduler
    Tasks = 3
    MaxPriority = 1
    MaxBurst = 2
    MaxTime = 2
    MaxRuns = 2
    \* VFuncHook
    Objects = {o1, o2}
    Functions = {f1, f2}
    VTableLength = 2
    MaxHooks = 2
    \* Aimbot
    Workers = {w1, w2}
    Width = 2
    TrackCount = 3
    FutureCount = 2
    PlayerIDs = {0}
    MaxFov = 2
    MaxCalls = 2
    \* PatternScan
    ByteValues = {0, 1}
    Masked = 255
    WordSize = 2
    Sizes = {1, 8}
    Offsets = {3}
    MemorySize = 7
    MaxElements = 5
    \* Handles
    Threads = {t1, t2}
    Libraries <- ThreeLibraries
    Names = {"a", "b"}
    NoLibrary = none
    MaxLookups = 1
    \* OffsetPointer
    p1 = p1
    p2 = p2
    p3 = p3
    Pointers = {x, y}
    Processes = {p1, p2, p3}
    BaseOf <- ThreeBases
    AddressSpace = 32
    ElementSize = 2
    Elements = 4
    \* MD5
    BlockSize = 4
    CountSize = 2
    CountLimit = 64
    MaxPiece = 10
    MaxLength = 19
    \* Players
    Worlds = {v1, v2}
    SizeOf <- ArraySizes
    AlignOf <- ArrayAligns
    ExtraFor <- ArrayExtras
    MallocAlign = 4
    Memory = 130
    MaxPlayers = 3
    MaxCount = 2
    \* Vectors
    Columns = 2
    Registers = {1, 4}
    Directions <- TwoDirections
    Scalars <- Signs
    Matrices <- ThreeMatrices
    MaxCoordinate = 1
    MaxFactors = 2
INVARIANTS
    TypesOK
    CachesCurrent
    ReadsOwnWrites
    TreeSound
    KeepsTheLast
    TimeGoesByPriority
    CallsReachTheClass
    ElementsApart
    TargetIsBest
    PatternsMean
    LookupsSeeAll
    PointersFollow
    BlocksAreMessage
    PlayersSound
    VectorsAgree
PROPERTIES
    ImplementsStore
    RunAimbotReturns
CHECK_DEADLOCK FALSE
