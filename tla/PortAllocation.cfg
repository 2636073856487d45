SPECIFICATION Spec
CONSTANTS
    n1 = n1
    n2 = n2
    n3 = n3
    u1 = u1
    u2 = u2
    Names = {n1, n2, n3}
    Uri <- SharedUri
    Inline = {n1}
    Modes = {"pool", "multi-port", "hybrid"}
    PortSpace = 8
    BasePort = 2
    PoolPort = 3
    Given = {0, 3, 4}
    MaxBusy = 1
    MaxSeized = 1
INVARIANTS
    TypeOK
    PoolPortIsKept
    StartConverges
    PortsArePreserved
CHECK_DEADLOCK FALSE
