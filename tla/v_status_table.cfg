SPECIFICATION FairSpec
CONSTANTS
    Gens = {g1}
    Instances = {i1, i2}
    NoInst = noInst
    NoGen = noGen
    Deployments <- OnePool
    Carries <- CarriedEverywhere
    LegacyPin <- NoPins
    Doomed = {}
    Slots = 1
    MaxPrompts = 1
    FaultKinds = {}
    MaxFaults = 0
PROPERTIES
    StatusTable
CHECK_DEADLOCK FALSE
