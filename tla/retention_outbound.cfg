SPECIFICATION OutboundSpec
CONSTANTS
    c1 = c1
    c2 = c2
    Writers = {w1}
    Contacts = {c1, c2}
    Keys <- MCKeys
    CliKey = "cli"
    PlanFlags = {TRUE}
    CliConsents = {"opted_in"}
    CsvFiles <- MCFiles
    NoEmail = NoEmail
    MaxEvents = 2
    MaxProjections = 1
INVARIANTS
    AuthorizedNotWithdrawn
    
