CONSTANTS
    l1 = l1
    l2 = l2
    d1 = d1
    d2 = d2
    None = None
    Lists = {l1, l2}
    Domains = {d1, d2}
    Versions <- MCVersions
    Name <- MCName
    Defaults = {l1}
    Requests = {r1}
    MaxTimer = 1
    MaxRestarts = 1
    FetchesFail = TRUE
    ReadsFail = TRUE
    WritesFail = TRUE
SPECIFICATION Spec
INVARIANTS SettledClassification StatusHonest SurvivesRestart 
CHECK_DEADLOCK FALSE
