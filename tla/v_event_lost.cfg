SPECIFICATION EventsSpec
CONSTANTS
    Publishers = {p1, p2}
    QueueSize = 2
    ReplayLimit = 3
    MaxEvents = 2
    MaxEphemeral = 0
    MaxDeletes = 1
    MaxConnects = 1
SYMMETRY PublisherSymmetry
INVARIANTS
    SetupLosesNothing
CHECK_DEADLOCK FALSE
