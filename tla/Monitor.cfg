SPECIFICATION FairSpec
CONSTANTS
    a = a
    b = b
    None = None
    All = all
    Tags = {a, b}
    Initial <- One
    Configs <- Lists
    Healthy = {b}
    Mode = "pool"
    Limit = 1
    MaxInstances = 3
    Watched = {b}
INVARIANTS
    TypeOK
    ShowsWhatIsServed
    FunctionsReachTheInstance
    OneSharedState
PROPERTIES
    NodesAreChecked
    ShownSettles
