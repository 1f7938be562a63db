SPECIFICATION FairSpec
CONSTANTS
    i2c = i2c
    system = system
    attempt = attempt
    denied = denied
    sample = sample
    unknown = unknown
    NoEvent = NoEvent
    Published <- OneBus
    Buses = {i2c}
    OtherBuses = {system}
    EventTypes = {attempt, denied}
    TelemetryTypes = {sample}
    OtherTypes = {unknown}
    Addresses = {1}
    Capacity = 2
    Batch = 1
    MaxHead = 3
INVARIANTS
    RingContent
    Accounted
    DeliveredIsPublished
    NoSilentLoss
PROPERTIES
    CatchesUp
