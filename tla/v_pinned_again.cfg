SPECIFICATION ModelRoutingSpec
CONSTANTS
    night = night
    day = day
    q = q
    Services <- MCServices
    Called <- MCServices
    Document <- MCDocuments
    NoService = noService
    Preference = "prefer"
    Names <- MCNames
    Asking = {q}
    Looking = {}
    Pin <- MCPin
    Readable = FALSE
    Attempts = 3
    Patience = 1
    MaxChanges = 1
    MaxTrouble = 0
INVARIANTS
    FailedNotAgain
CHECK_DEADLOCK FALSE
