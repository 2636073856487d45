SPECIFICATION HSpec
CONSTANTS
    t1 = t1
    t2 = t2
    main = main
    d1 = d1
    d2 = d2
    a1 = a1
    None = None
    Tags = {t1, t2}
    Pools = {main}
    Members <- PoolModeMembers
    Mode <- PoolModeMode
    UdpTags = {t1}
    Dialers = {d1, d2}
    Admins = {}
    Threshold = 2
    Duration = 1
    MaxClock = 2
    CounterSize = 3
SYMMETRY Symmetry
INVARIANTS
    TypeOK
    ReleaseOnlyWhenAllBlacklisted
    PickedWasUsable
    CheckSeesNoneExpired
PROPERTIES
    BreakerSpec
