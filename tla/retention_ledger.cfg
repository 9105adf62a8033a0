SPECIFICATION Spec
CONSTANTS
    c1 = c1
    c2 = c2
    Writers = {w1}
    Contacts = {c1, c2}
    Keys <- MCKeys
    CliKey = "cli"
    PlanFlags = {TRUE, FALSE}
    CliConsents = {"opted_in", "unknown"}
    CsvFiles <- MCFiles
    NoEmail = NoEmail
    MaxEvents = 3
INVARIANTS
    TypeOK
    StickySuppression
    WritersAndGateAgree
    ReconcileIsExact
    EligibleNeverUnsubscribed
    ManifestMeansObeyed
PROPERTY
    ImplementsRegister
