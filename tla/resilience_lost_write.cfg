SPECIFICATION Spec
CONSTANTS
    Agents = {a1}
    Models <- OneModel
    OpenAfter = 3
    OpenFor = 2
    MaxAttempts = 2
    Never = Never
    MaxFaults = 1
INVARIANT
    BlocksForWindow
