SPECIFICATION FairSpec
CONSTANTS
    Gens = {g1}
    Instances = {i1, i2}
    NoInst = noInst
    NoGen = noGen
    Deployments <- OnePool
    Carries <- CarriedEverywhere
    LegacyPin <- NoPins
    Doomed = {}
    Slots = 1
    MaxPrompts = 2
    FaultKinds = {"connect"}
    MaxFaults = 1
PROPERTIES
    SettlesEventually
CHECK_DEADLOCK FALSE
