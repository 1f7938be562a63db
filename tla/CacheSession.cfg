SPECIFICATION Spec
CONSTANTS
    temp = temp
    phy = phy
    DevicesMax = 1
    ResourcesMax = 2
    JournalSize = 2
    Names = {temp}
    Values = {1}
    Catalogs <- OneDevice
    Reports = {"ready"}
    Subscriptions = 1
    PageSize = 1
    SnapshotMs = 1
    SubIdMax = 2
    MaxHead = 4
    MaxGeneration = 2
    MaxSnapshot = 2
INVARIANTS
    MirrorExact
    NoGap
    PendingOwnsSnapshot
PROPERTIES
    ResyncIsJustified
