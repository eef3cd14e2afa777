SPECIFICATION Spec
CONSTANTS
    single = single
    only = only
    someone = someone
    t1 = t1
    t2 = t2
    Keys = {single, double}
    NoKey = none
    Items <- ItemsOf
    Checks <- ChecksOf
    Attempts = 2
    MaxLapses = 2
    MaxToggles = 1
    Owners = {someone, b, c}
    Nobody = nobody
    Workers <- OneWorker
    PoolSize = 1
    Concurrency = 1
    Kinds <- KindsOf
    MaxQueue = 3
    MaxSetbacks = 1
    Texts = {t1, t2}
    Doomed = {t2}
    Slots = 1
    MaxTrouble = 3
INVARIANTS
    TypesOK
    KeysHold
PROPERTIES
    OwnersInTurn
    KeepsTextPromise
    Resolved
CHECK_DEADLOCK FALSE
