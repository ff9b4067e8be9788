SPECIFICATION FederationSpec
CONSTANTS
    w1 = w1
    n1 = n1
    p1 = p1
    t1 = t1
    t2 = t2
    m1 = m1
    m2 = m2
    k1 = k1
    k2 = k2
    c1 = c1
    c2 = c2
    c3 = c3
    Correlations = {1, 2}
    Witnesses = {w1}
    Notaries = {n1}
    Posters = {p1}
    MaxSequence = 3
    MaxReceipts = 1
    MaxAnchors = 2
    MaxDeeds = 3
    EventHosts = {1, 2}
    Emitters = {t1, t2}
    PerSecond = 2
    MaxEvents = 3
    MaxTime = 3
    Principals = {m1, m2}
    HostKeys = {k1, k2}
    Characters = {"a", "b", "*"}
    ScopeChoices <- Scopes
    WindowChoices <- Windows
    Capabilities <- Named
    Moments = {0, 1, 2}
    MaxDepth = 1
    MaxLinks = 3
    Nodes = {c1, c2, c3}
    MaxEdges = 3
    Critical = {c3}
    JoinAny = {c3}
    MaxTwinCalls = 3
    MaxIds = 2
    Leaves = {"x", "y"}
    MaxLeaves = 5
    UseCap = 1
    ActionCap = 2
SYMMETRY Alike
INVARIANTS
    NoFalseAlarm
    TamperingShows
    ProofsExact
    OrderingSafe
    MandatesSafe
    CompositionSafe
    TwinSafe
CHECK_DEADLOCK FALSE
