SPECIFICATION Spec
CONSTANTS
    j1 = j1
    j2 = j2
    Job = {j1}
    NoJob = NoJob
    Contractor = {c1, c2}
    NoContractor = NoContractor
    Row = {r1}
    Handler = {h1}
    morning = morning
    midday = midday
    Slot <- MCSlot
    Parseable <- MCParseable
    StartOf <- MCStartOf
    EndOf <- MCEndOf
    AppointmentOf <- MCAppointmentOf
SYMMETRY Symmetry
CHECK_DEADLOCK FALSE
PROPERTY CancelledIsFinal
