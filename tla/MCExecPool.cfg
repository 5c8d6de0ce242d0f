SPECIFICATION PoolSpec
CONSTANTS
    GuestEnd = 6
    ChunkInstrs = 2
    BodyLen <- MCBodyLen
    CallLen = 3
    JmpLen = 2
    puts = puts
    HostFns <- MCHostFns
    StartMainFn = start_main
    StartMain = 200
    ExitLabel = 201
    MainExit = 202
    Programs <- MCPrograms
    Ranges <- MCRanges
    AllocSize = 16
    MmapBases <- MCMmapBases
    ProxyLen = 4
    InstrMap <- MCInstrMap
INVARIANTS PoolTypeOK BlocksInRegions BlocksApart Attribution LinksCoherent CallbacksResolve
PROPERTIES TranslationFinal
CHECK_DEADLOCK FALSE
