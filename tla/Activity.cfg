CONSTANTS
    m1 = m1
    i1 = i1
    i2 = i2
    NoMac = NoMac
    NoIp = NoIp
    Macs = {m1}
    Ips = {i1, i2}
    Domains = {1, 2, 3}
    Categories = {"", "uncategorized", "tracking"}
    Old <- MCOld
    New <- MCNew
    Times = {0, 1, 2, 3, 4, 5, 6}
    Hour = 2
    Day = 4
    DayBuckets = 2
    PriorDays = 2
    PageSize = 2
    Asked <- MCAsked
    Start = 5
    Cutoffs = {1, 2}
    ChunkSize = 1
    BatchSize = 2
    MaxNew = 2
    MaxPurges = 2
    MaxCrashes = 1
CHECK_DEADLOCK FALSE
SPECIFICATION ActivitySpec
INVARIANTS RollupsAgree DoneMeansAll PageAddsUp PageHasItsRows ReachWithinTotal SpikesExplained ChartsShowTheLog FilterAgree
