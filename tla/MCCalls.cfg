SPECIFICATION FairSpec
CONSTANTS
    GuestEnd = 10
    ChunkInstrs = 2
    BodyLen <- MCBodyLen
    CallLen = 3
    JmpLen = 2
    puts = puts
    HostFns <- MCHostFns
    StartMainFn = start_main
    StartMain = 200
    ExitLabel = 201
    MainExit = 202
    Programs <- MCPrograms
    Ranges <- MCRanges
    AllocSize = 30
    MmapBases <- MCMmapBases
    ProxyLen = 4
    InstrMap <- MCInstrMap
    Entries = {0, 4}
    Mains = {4}
    MaxCalls = 2
    ShadowCap = 3
    MaxShadow = 5
    MaxBeyond = 1
    MaxStack = 5
INVARIANTS ReturnsPredicted ShadowMirrorsStack Balanced
PROPERTIES CallsReturn
