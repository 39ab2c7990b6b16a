CONSTANTS
    Handlers = {h1, h2}
    Sources = {s1, s2}
    Limit = 1
    TicksPerSecond = 2
    KeptFor = 3
    MaxClock = 5
    MaxQueries = 6
SPECIFICATION Spec
INVARIANTS AdmittedBounded RefusalsReported
PROPERTIES NoEarlyRefusal
SYMMETRY Symmetric
CHECK_DEADLOCK FALSE
