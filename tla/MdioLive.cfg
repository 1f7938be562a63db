\* Two devices, a busy mailbox and tasks that take the mutex at will.
SPECIFICATION FairSpec
CONSTANTS
    DeviceCount = 2
    PhyCount = 2
    RegMax = 3
    Bits = {0, 15}
    ResetBit = 15
    IdReg1 = 1
    IdReg2 = 2
    ProbeMin = 3
    TakeMax = 1
    RulesMax = 1
    Boot <- TwoBoot
    Configs <- NoConfigs
    Replies <- TwoReplies
    HostWrites <- TwoHost
    ClientReads = {}
    ClientWrites <- NoWrites
    EditedRules <- NoRules
    FailureSets <- NoneFails
PROPERTIES
    MailboxDrained
    DevicesProbed
