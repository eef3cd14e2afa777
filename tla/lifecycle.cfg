SPECIFICATION FocusSpec
CONSTANTS
    noText = noText
    t1 = t1
    c1 = c1
    c2 = c2
    s1 = s1
    s2 = s2
    upload = upload
    foreign = foreign
    null = null
    blank = blank
    random = random
    absent = absent
    wrong = wrong
    i1 = i1
    i2 = i2
    i3 = i3
    Gens = {g1}
    Instances = {i1, i2}
    NoInst = noInst
    NoGen = noGen
    Deployments <- OnePool
    Carries <- CarriedEverywhere
    LegacyPin <- NoPins
    Doomed = {}
    Slots = 1
    MaxPrompts = 4
    FaultKinds = {"stop", "connect", "reject", "vanish", "absent", "archive", "cancelfail", "cancelmiss"}
    MaxFaults = 3
    PromptNodes <- MCNodes
    Outputs <- MCOutputs
    NodeOf <- MCNodeOf
    FileNames = {"f", "g"}
    Lists <- MCLists
    Malformed = noText
    Undeclared = "x"
    NoFile = noText
    MaxOdd = 1
    HistoryOrder <- MCOrder
    NoSource = "none"
    Output <- MCOutput
    Batch <- MCBatch
    Bytes <- MCBytes
    Rank <- MCRank
    Durable <- MCDurable
    Images <- MCFiles
    MaxMishaps = 2
    Script <- MCScript
    NoNode = "none"
    Room = 1
    MaxTrouble = 2
    MaxPaths = 9
INVARIANTS
    TypeOK
    RunsOnce
    MonitorOwnsPrompt
    SuccessIsEarned
    ProgressTold
    ResultsRight
    RequestsHonoured
PROPERTIES
    InterruptedOnlyIfUnknown
    KeepsPromise
    RestartsHold
    FilesKept
CHECK_DEADLOCK FALSE
