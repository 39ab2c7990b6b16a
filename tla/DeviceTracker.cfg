CONSTANTS
    m1 = m1
    i1 = i1
    n1 = n1
    v1 = v1
    Macs = {m1}
    Ips = {i1}
    Hosts = {n1}
    Vendors = {v1}
    Labels = {tv}
    Vendor <- MCVendor
    ArpTables <- MCArpTables
    DhcpRequests <- MCDhcpRequests
    Empty = Empty
    ChanCap = 1
    BatchSize = 2
    WritesFail = TRUE
    ListenersFail = FALSE
    MaxClock = 3
    MaxLabels = 1
SPECIFICATION FairSpec
INVARIANTS DiscoveriesAccounted DrainComplete InOrder RowsAgree
PROPERTIES EventuallyKnown ShutdownCompletes
CHECK_DEADLOCK FALSE
