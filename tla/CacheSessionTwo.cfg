SPECIFICATION FairSpec
CONSTANTS
    temp = temp
    phy = phy
    DevicesMax = 2
    ResourcesMax = 2
    JournalSize = 1
    Names = {temp, phy}
    Values = {1}
    Catalogs <- TwoDevices
    Reports = {}
    Subscriptions = 2
    PageSize = 1
    SnapshotMs = 1
    SubIdMax = 2
    MaxHead = 2
    MaxGeneration = 2
    MaxSnapshot = 2
INVARIANTS
    BoundedBypass
PROPERTIES
    Informed
