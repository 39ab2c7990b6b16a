CONSTANTS
    AllWorkers <- MCWorkers
    Requests = {r1}
CHECK_DEADLOCK FALSE
SPECIFICATION Spec
INVARIANTS ExitExplained DbClosedLast
PROPERTY ShutdownCompletes
