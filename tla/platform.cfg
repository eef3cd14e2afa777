SPECIFICATION FocusSpec
CONSTANTS
    Requests = {m1, m2, n1, n2}
    Media = {m1, m2}
    ActiveLimit = 2
    MediaLimit = 1
    QueueLimit = 2
    Publishers <- MCPublishers
    QueueSize = 2
    ReplayLimit = 2
    MaxEvents = 3
    MaxEphemeral = 1
    MaxDeletes = 1
    MaxConnects = 2
    i1 = i1
    noInst = noInst
    noGen = noGen
    Services <- MCServices
    Called <- MCCalled
    Document <- MCDocuments
    NoService = "nobody"
    Preference = "prefer"
    Names <- MCNames
    Asking <- MCAsking
    Looking <- MCLooking
    Pin <- MCPin
    Readable = TRUE
    Attempts = 2
    Patience = 1
    MaxChanges = 1
    MaxTrouble = 1
    Texts = {"input", "old", "echo", "part", "new"}
    Input = "input"
    History = {"old"}
    Echoes = {"echo", "part"}
    Candidates = 3
    Budgets = 3
    Runs = {m1, m2}
    Nobody = nobody
    Newest = 2
    MaxWrites = 1
SYMMETRY KindSymmetry
INVARIANTS
    TypesOK
    EventsArrive
    TwoCompete
    NewPrompts
    UpdateSafe
PROPERTIES
    PlacesKept
    RoutedFairly
CHECK_DEADLOCK FALSE
