SPECIFICATION Spec
CONSTANTS
    Clients = {t1, t2}
    Configurators = {console}
    Addresses = {a1, a2}
    RegCount = 1
    MaxValue = 1
    RulesMax = 1
    Configs <- Moves
    EditedRules = {}
    EditedModes = {}
INVARIANTS
    CacheCoherent
