CONSTANTS
    Callers = {"anomalies", "page", "writer"}
    Nested = {"anomalies", "page"}
    PoolSize = 2
    MaxSpikes = 1
SPECIFICATION FairSpec
PROPERTIES AnomaliesAnswered
CHECK_DEADLOCK FALSE
