SPECIFICATION UpdateSpec
CONSTANTS
    Runs = {a, b}
    Nobody = nobody
    Newest = 2
    MaxWrites = 1
SYMMETRY RunSymmetry
INVARIANTS
    FailedNeverPrunes
CHECK_DEADLOCK FALSE
