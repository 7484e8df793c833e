SPECIFICATION Spec
CONSTANTS
    Job = {j1}
    NoJob = NoJob
    Payment = {p1}
    Handler = {h1}
    MaxOutbox = 1
    PricedRemainder = {TRUE}
SYMMETRY Symmetry
CHECK_DEADLOCK FALSE
PROPERTY PaidPriceIsKept
