SPECIFICATION Spec
CONSTANTS
    Appenders = {a1, a2}
    NoOne = NoOne
    Chained = TRUE
    TornAt = {3}
    MaxAppends = 4
    MaxFaults = 2
INVARIANTS
    AcknowledgedIsReadable
CHECK_DEADLOCK FALSE
