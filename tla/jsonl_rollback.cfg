SPECIFICATION Spec
CONSTANTS
    Appenders = {a1, a2}
    NoOne = NoOne
    Chained = FALSE
    TornAt = {1, 2}
    MaxAppends = 4
    MaxFaults = 2
INVARIANTS
    RollbackTruncates
CHECK_DEADLOCK FALSE
