CONSTANTS
    l1 = l1
    l2 = l2
    d1 = d1
    d2 = d2
    None = None
    Lists = {l1, l2}
    Domains = {d1, d2}
    Versions <- MCOneVersion
    Name <- MCName
    Defaults = {l1}
    Requests = {"r1", "r2"}
    MaxTimer = 0
    MaxRestarts = 0
    FetchesFail = FALSE
    ReadsFail = FALSE
    WritesFail = FALSE
SPECIFICATION Spec
INVARIANTS ListsTakeEffect
CHECK_DEADLOCK FALSE
