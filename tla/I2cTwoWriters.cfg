SPECIFICATION Spec
CONSTANTS
    Clients = {t1}
    Configurators = {console, web}
    Addresses = {a1, a2}
    RegCount = 1
    MaxValue = 0
    RulesMax = 1
    Configs <- Moves
    EditedRules = {}
    EditedModes = {}
INVARIANTS
    CacheFromDevice
