SPECIFICATION FairSpec
CONSTANTS
    n1 = n1
    n2 = n2
    n3 = n3
    r1 = r1
    h1 = h1
    h2 = h2
    None = None
    Main = main
    Nodes = {n1, n2, n3}
    Initial = {n1}
    Inline = {n1, n2}
    HasFile = TRUE
    Handlers = {h1}
    Refreshers = {}
    Ops = {"createNode", "deleteNode", "deleteAndReload", "deleteFailed", "updateNode", "trigger", "refresh", "read"}
    MaxRetries = 2
    MaxConflicts = 2
    SavesFail = TRUE
    MayStop = FALSE
INVARIANTS
    
    DiskMatchesMemory
PROPERTIES
    RequestsReturn
