SPECIFICATION Spec
CONSTANTS
    Procs = {d1, d2}
    Daemons = {d1, d2}
    Scopes = {"daemon.tick", "capture.add", "governor.review"}
    NonMutating = {"governor.review"}
    Authorized = {"capture.add"}
    TokenScopes = {"daemon.tick"}
    TickScope = "daemon.tick"
    Trees = {t1, t2}
    Nobody = Nobody
    Nothing = Nothing
    MaxIssued = 2
    MaxRequests = 2
    MaxDeaths = 1
    Models <- OneModel
    Slots = 2
    Drifts = {0, 1000}
    Phi1 <- Curve1
    Phi5 <- Curve5
    MaxAttempts = 2
    OpenFor = 2
    MaxPerSlot = 3
    Tasks = {"often", "seldom"}
    Interval <- Intervals
    Resolution = 1
    Hooks = 1
    Limits = {Never, 2}
    Never = Never
    MaxTime = 2
    MaxTicks = 3
INVARIANTS
    SpentStaysSpent
    
    SuccessLeavesOneRecord
    WindowForgetsInTime
    QuietNeverSheds
PROPERTY
    LockIsFreed
    ScheduleIsKept
    
