SPECIFICATION Spec
CONSTANTS
    c1 = c1
    c2 = c2
    Writers = {w1, w2}
    Contacts = {c1}
    Keys <- MCKeys
    CliKey = "cli"
    PlanFlags = {TRUE, FALSE}
    CliConsents = {"opted_in"}
    CsvFiles <- OneFile
    NoEmail = NoEmail
    MaxEvents = 3
INVARIANT
    StickySuppression
