CONSTANTS
    listed = listed
    Upper = Upper
    tracking = tracking
    malware = malware
    None = None
    r1 = r1
    r2 = r2
    Requests = {r1, r2}
    Names = {listed, Upper}
    Canonical <- MCCanonical
    Categories = {tracking, malware}
    Listed <- MCListed
    DayInputs = {None, 1, 3}
    HourInputs = {None, 4, 7}
    DaysRange = {1, 2}
    HoursRange = {2, 4}
    DefaultHours = 2
    WritesFail = TRUE
    ReadsFail = TRUE
    MaxCalls = 4
    MaxRestarts = 1
SPECIFICATION Spec
INVARIANTS OverridesInForce NoLostWake
CHECK_DEADLOCK FALSE
