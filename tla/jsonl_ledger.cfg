SPECIFICATION Spec
CONSTANTS
    Appenders = {a1, a2}
    NoOne = NoOne
    Chained = TRUE
    TornAt = {1, 2}
    MaxAppends = 4
    MaxFaults = 2
INVARIANTS
    TypeOK
    AcknowledgedStaysOnFile
PROPERTY
    ImplementsLog
CHECK_DEADLOCK FALSE
