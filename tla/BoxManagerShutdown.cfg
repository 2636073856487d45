SPECIFICATION FairSpec
CONSTANTS
    n1 = n1
    n2 = n2
    n3 = n3
    r1 = r1
    h1 = h1
    h2 = h2
    None = None
    Main = main
    Nodes = {n1, n2}
    Initial = {n1}
    Inline = {}
    HasFile = TRUE
    Handlers = {h1}
    Refreshers = {}
    Ops = {"createNode", "trigger"}
    MaxRetries = 2
    MaxConflicts = 1
    SavesFail = FALSE
    MayStop = TRUE
PROPERTIES
    CloseReturns
CHECK_DEADLOCK FALSE
