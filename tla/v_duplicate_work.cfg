SPECIFICATION Spec
CONSTANTS
    Gens = {g1}
    Instances = {i1, i2}
    NoInst = noInst
    NoGen = noGen
    Deployments <- OnePool
    Carries <- CarriedEverywhere
    LegacyPin <- NoPins
    Doomed = {}
    Slots = 1
    MaxPrompts = 3
    FaultKinds = {"ambiguous", "stop"}
    MaxFaults = 2
INVARIANTS
    OneNativeRun
CHECK_DEADLOCK FALSE
