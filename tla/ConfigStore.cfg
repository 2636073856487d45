SPECIFICATION FairSpec
CONSTANTS
    h1 = h1
    h2 = h2
    None = None
    Missing = Missing
    Empty = Empty
    Mixed = Mixed
    Handlers = {h1, h2}
    Loop = loop
    Ops = {"settings", "settingsReload", "badSettings", "subs", "nodes"}
    WritesFail = TRUE
    MaxEdits = 2
    MaxObjects = 3
    MaxCrashes = 1
INVARIANTS
    TypeOK
    AcknowledgedIsSaved
    MemoryIsOnDisk
    ShownIsSaved
PROPERTIES
    RequestsEnd
