SPECIFICATION FairSpec
CONSTANTS
    t1 = t1
    t2 = t2
    main = main
    port1 = port1
    d1 = d1
    d2 = d2
    a1 = a1
    None = None
    Tags = {t1}
    Pools <- PoolModePools
    Members <- OneNodeMembers
    Mode <- PoolModeMode
    UdpTags = {}
    Dialers = {d1, d2}
    Admins = {a1}
    Threshold = 1
    Duration = 1
    MaxClock = 2
    CounterSize = 3
PROPERTIES
    PickTerminates
