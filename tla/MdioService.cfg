\* A PHY that is moved, polled, reset and written, with a policy edited on the
\* way and publications that fail.
SPECIFICATION Spec
CONSTANTS
    DeviceCount = 1
    PhyCount = 2
    RegMax = 3
    Bits = {0, 15}
    ResetBit = 15
    IdReg1 = 1
    IdReg2 = 2
    ProbeMin = 3
    TakeMax = 1
    RulesMax = 1
    Boot <- MovingBoot
    Configs <- MovingConfigs
    Replies <- MovingReplies
    HostWrites <- MovingHost
    ClientReads = {1}
    ClientWrites <- MovingWrites
    EditedRules <- MovingRules
    FailureSets <- AllFail
INVARIANTS
    MirrorExact
    ReadAreaExact
    WorkerFitsConfig
    PolicyEnforced
