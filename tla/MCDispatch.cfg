SPECIFICATION FairSpec
CONSTANTS
    GuestEnd = 4
    ChunkInstrs = 2
    BodyLen <- MCBodyLen
    CallLen = 3
    JmpLen = 2
    puts = puts
    HostFns <- MCHostFns
    StartMainFn = start_main
    StartMain = 200
    ExitLabel = 201
    MainExit = 202
    Programs <- MCPrograms
    Ranges <- MCRanges
    AllocSize = 40
    MmapBases <- MCMmapBases
    ProxyLen = 4
    InstrMap <- MCInstrMap
    Entries = {0, 3}
    Mains = {0, 3}
    MaxCalls = 2
    ShadowCap = 2
    MaxShadow = 3
    MaxBeyond = 1
    MaxStack = 2
INVARIANTS PointersApart ShadowCoherent
PROPERTIES RefinesGuest RefinesProgress
