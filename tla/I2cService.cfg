SPECIFICATION Spec
CONSTANTS
    Clients = {t1}
    Configurators = {console}
    Addresses = {a1, a2}
    RegCount = 1
    MaxValue = 1
    RulesMax = 1
    Configs <- PolicyChanges
    EditedRules <- SomeRules
    EditedModes = {"whitelist", "blacklist"}
INVARIANTS
    CacheFromDevice
    CatalogMirrors
    WritesPermitted
    CacheCoherent
