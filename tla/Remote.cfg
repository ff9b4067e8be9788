SPECIFICATION RemoteSpec
CONSTANTS
    h1 = h1
    h2 = h2
    Owners = {h1, h2}
    MaxRequests = 3
    MaxFaults = 2
    MaxReconnects = 1
    MaxDeltas = 3
    ChunkCap = 2
    MaxServerFalls = 1
INVARIANTS
    GatewaySafe
    StreamSafe
PROPERTIES
    RemoteProgress
CHECK_DEADLOCK FALSE
