CONSTANTS
    c1 = c1
    c2 = c2
    NoCursor = NoCursor
    Conns = {c1, c2}
    Wanted <- MCWanted
    MaxRows = 3
    Limit = 2
    BufCap = 1
    BatchSize = 1
    MaxPolls = 2
    ReadsFail = TRUE
    Readers = {}
    Cursors = {NoCursor, 0}
SPECIFICATION Spec
INVARIANTS StreamComplete NeverResent ClosedOnce CloseEndsEarlyStreams
CHECK_DEADLOCK FALSE
