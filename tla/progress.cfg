SPECIFICATION FocusSpec
CONSTANTS
    i1 = i1
    i2 = i2
    k1 = k1
    k2 = k2
    noSignature = noSignature
    Gens = {g1}
    Instances = {i1}
    NoInst = noInst
    NoGen = noGen
    Deployments <- OnePool
    Carries <- CarriedEverywhere
    LegacyPin <- NoPins
    Doomed = {}
    Slots = 1
    MaxPrompts = 3
    FaultKinds = {"crash", "stop", "connect", "vanish", "absent", "archive", "cancelfail", "cancelmiss"}
    MaxFaults = 2
PROPERTIES
    AllSettle
    DeletionsCarriedOut
    CancelsReachNative
    ReelsComplete
CHECK_DEADLOCK FALSE
