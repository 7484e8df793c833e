SPECIFICATION Spec
CONSTANTS
    Job = {j1}
    NoJob = NoJob
    Payment = {p1}
    Handler = {h1, h2}
    MaxOutbox = 2
    PricedRemainder = {TRUE}
SYMMETRY Symmetry
CHECK_DEADLOCK FALSE
INVARIANT LedgerBacked
PROPERTY OnlyPaymentTransitions
PROPERTY SettlesAsPromised
