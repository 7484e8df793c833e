SPECIFICATION Spec
CONSTANTS
    MaxVersion = 2
    Attempts = 2
    Concurrency = 2
    Row = {r1, r2}
    NoRow = NoRow
    MaxCrashes = 0
SYMMETRY Symmetry
CHECK_DEADLOCK FALSE
INVARIANT MirrorReflectsLatest
