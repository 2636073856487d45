SPECIFICATION FairSpec
CONSTANTS
    c1 = c1
    c2 = c2
    h1 = h1
    h2 = h2
    None = None
    Empty = Empty
    Contents = {c1, c2}
    Handlers = {h1}
    MaxClock = 1
    MaxRefreshes = 1
    MaxEdits = 1
INVARIANTS
    TypeOK
    SuccessIsReal
    QuietStatusIsTrue
PROPERTIES
    RequestIsFollowed
    CallsReturn
CHECK_DEADLOCK FALSE
