CONSTANTS
    UdpQueries = {u1}
    TcpQueries = {t1}
    Upstreams = 2
    ChanCap = 1
    BatchSize = 2
    Fallible = {"udp", "tcp"}
SPECIFICATION FairSpec
INVARIANTS RecordsAccounted DrainComplete
PROPERTIES ImplementsQueryLog EventuallyAnnounced ShutdownCompletes
CHECK_DEADLOCK FALSE
