SPECIFICATION Spec
CONSTANTS
    Fragments = {1, 2}
    TopicOf <- OneTopic
    SpineOf <- OneSpine
    MinCluster = 1
    LastDay = 2
    DecayDays = 0
    WindowDays = 1
    MaxWriteFaults = 1
    Curators = {a1, a2}
    Inputs = {"f1", "f2"}
    StemOf <- OneStem
    Contents = {k1, k2}
    NoContent = NoContent
    MaxRewrites = 1
    MaxKilled = 1
    Scanners = {a1, a2}
    Paths = {"p1"}
    Documents <- FewDocuments
    NoDocument = NoDocument
    OperatorHash = OperatorHash
    MaxScans = 2
    MaxSourceEdits = 1
    MaxIntakeFaults = 1
    Shells = {a1, a2}
    Proposals <- ShellProposals
    NoProposal <- EmptyProposal
    MaxShellCommands = 4
    Requests = {a1, a2}
    Letters = {l1, l2}
    MaxRequested = 2
    MaxChanges = 1
    MaxReqKills = 1
INVARIANTS
    
    ConsumedIsBundled
    
    IngestedIsStored
    SimulatedWasApproved
    PublicWasApproved

    
    
SYMMETRY Actors
CHECK_DEADLOCK FALSE
