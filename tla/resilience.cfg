SPECIFICATION FairSpec
CONSTANTS
    Agents = {a1}
    Models <- TwoModels
    OpenAfter = 3
    OpenFor = 2
    MaxAttempts = 2
    Never = Never
    MaxFaults = 3
INVARIANTS
    TypeOK
    TripsExactly
    CooldownHolds

    
