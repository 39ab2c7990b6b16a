CONSTANTS
    l1 = l1
    l2 = l2
    d1 = d1
    d2 = d2
    None = None
    Lists = {l1, l2}
    Domains = {d1, d2}
    Versions <- MCOneVersion
    Name <- MCSameName
    Defaults = {l1}
    Requests = {r1, r2}
    MaxTimer = 0
    MaxRestarts = 1
    FetchesFail = FALSE
    ReadsFail = TRUE
    WritesFail = FALSE
SPECIFICATION FairSpec
INVARIANTS OneWebJob NoJobAfterClose
PROPERTIES ShutdownCompletes
CHECK_DEADLOCK FALSE
