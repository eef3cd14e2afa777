SPECIFICATION FocusSpec
CONSTANTS
    r1 = r1
    r2 = r2
    r3 = r3
    Replicas <- MCReplicas
    Writer = r1
    Sources <- MCSources
    Picky <- MCSources
    MaxVersion = 2
    MaxTrouble = 3
    MaxFaults = 2
    k1 = k1
    k2 = k2
    Order <- MCOrder
    Signatures = {"plain", "error"}
    Broken = {"error"}
    NoSignature = noSignature
    MaxRows = 2
    Attempts = 2
    Requests = {"request"}
    Idle = 2
    MaxEvents = 2
INVARIANTS
    TypesOK
    SettledInOrder
PROPERTIES
    RemovalWaitsForWork
    ReelsGiveWay
    CatalogKept
    Released
    CatalogRecovers
CHECK_DEADLOCK FALSE
