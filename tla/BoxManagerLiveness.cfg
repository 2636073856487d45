SPECIFICATION FairSpec
CONSTANTS
    n1 = n1
    n2 = n2
    n3 = n3
    r1 = r1
    h1 = h1
    h2 = h2
    None = None
    Main = main
    Nodes = {n1, n2}
    Initial = {n1}
    Inline = {n1}
    HasFile = TRUE
    Handlers = {h1, h2}
    Refreshers = {r1}
    Ops = {"createNode", "trigger", "refresh"}
    MaxRetries = 2
    MaxConflicts = 1
    SavesFail = TRUE
    MayStop = FALSE
PROPERTIES
    RequestsReturn
