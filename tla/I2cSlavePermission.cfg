SPECIFICATION PlatformSpec
CONSTANTS
    Parts = {"i2c-slave"}
    NeutrinoSpan = 8
    NeutrinoReach = 4
    RegCount = 3
    Frames <- MCFrames
    SlaveValues = {0}
    WindowBytes = 4
    FrameMax = 3
    WindowMax = 2
    QueueMax = 3
    MaxPhases = 3
    MaxBytes = 4
    MaxMisses = 1
    HwCalls = 3
    HwAttempts = 3
    Cells <- MCCells
    MaxFrames = 4
    Lbas = {0, 1, 2, 3}
    PartStart = 1
    VolSectors = 2
    Contents = {"a"}
    Profiles = {TRUE, FALSE}
    RawCalls = 2
    FsCalls = 5
    MaxFaults = 1
    CardSectors = 4
    Tables <- MCTables
    RawContents = {"a"}
    MaxRun = 2
    RawRequests = 3
    Images = {"freertos", "neutrino"}
    FlashBlocks = 16
    SectorBlocks = 2
    BaseBlock = 4
    WindowBlocks = 12
    Span <- MCSpan
    Reach <- MCReach
    Patterns = {"p", "q"}
    MaxRequest = 2
    QspiRequests = 2
    IdNames = {"a"}
    CountMax <- MCCountMax
    AddrMax <- MCAddrMax
    Full <- MCFull
    CodeMax = 1
    RulesMax = 4
    DocMax = 8
    Stems = {"a", "B"}
    Network = {"n2"}
    DefaultNetwork = "n0"
    DefaultProfiles <- MCDefaultProfiles
    Flashes <- MCFlashes
    Saves <- MCSaves
    CsMaxFaults = 1
    MaxCrashes = 1
    MaxSaves = 2
    NStems <- MCNStems
    NFlashes <- MCNFlashes
    NDefaults <- MCNDefaults
    NAddresses = {2, 3}
    NRules <- MCNRules
    NValues = {0, 1}
    NMaxOps = 2
    NMaxKills = 1
    NMaxFaults = 1
INVARIANTS
    EndTakesPermission
CHECK_DEADLOCK FALSE
