SPECIFICATION FairSpec
CONSTANTS
    MaxVersion = 2
    Attempts = 2
    Concurrency = 2
    Row = {r1, r2}
    NoRow = NoRow
    MaxCrashes = 1
CHECK_DEADLOCK FALSE
INVARIANTS TypeOK MirrorHeals ErrorExplained OneRowPerJob
PROPERTIES NeverGoesBack QueueDrains
