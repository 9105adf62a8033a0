SPECIFICATION Spec
CONSTANTS
    Packs = {a1, a2}
    FixtureFiles = {1, 2}
    FixtureContents <- PackFixtures
    MaxPackRuns = 2
    MaxTorn = 1
    Callers = {a1, a2}
    MaxClaimCalls = 2
    MaxClaimFaults = 1
    Commands = {a1, a2}
    Exports <- AuthoringExports
    Fixtures <- DemoFixtures
    MaxCommands = 2
    MaxCommandKills = 1
    Operators = {a1, a2}
    OpTargets = {t1}
    NoTarget = NoTarget
    MaxRuns = 2
    MaxRunKills = 1
    Editors = {a1, a2}
    PacketContents = {s1, s2}
    MaxPubCommands = 3
    Authors = {a1, a2}
    MaxAuthored = 2
    MaxImported = 2
    MaxAuthorKills = 1
    Reviewers = {a1, a2}
    DecisionStates = {"accepted_for_proposal", "rejected"}
    Moments = {1, 2}
    MaxReports = 2
    MaxReviews = 4
    MaxReviewKills = 1
    NoEmail = NoEmail
INVARIANTS
    PromotedOnce
    
    ApprovedIsBacked
    
    
    AlarmMeansOverlap
    
    LostAppendStaysReported
SYMMETRY Actors
CHECK_DEADLOCK FALSE
