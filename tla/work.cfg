SPECIFICATION Spec
CONSTANTS
    MaxChecks = 2
    MaxAttempts = 2
    MaxFailures = 2
    MaxErrors = 2
    Scores = {1, 2, 3}
    Threshold = 3
    \* two images a cycle, three in all: the limit cuts the second cycle short
    Batch = 1
    MaxGroups = 2
    MaxTrouble = 1
    Quantity = 2
    Limits = {3}
    MaxChanges = 2
INVARIANTS
    TypesOK
    OneCycle
PROPERTIES
    ChecksKept
    EndsHold
    AutoProceeds
    ChecksSettle
CHECK_DEADLOCK FALSE
