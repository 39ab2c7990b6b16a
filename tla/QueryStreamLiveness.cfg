CONSTANTS
    c1 = c1
    c2 = c2
    NoCursor = NoCursor
    Conns = {c1}
    Wanted <- MCWanted
    MaxRows = 3
    Limit = 3
    BufCap = 2
    BatchSize = 1
    MaxPolls = 1
    ReadsFail = FALSE
    Readers = {c1}
    Cursors = {NoCursor, 0}
SPECIFICATION FairSpec
PROPERTIES EventuallyDelivered CloseCompletes
CHECK_DEADLOCK FALSE
