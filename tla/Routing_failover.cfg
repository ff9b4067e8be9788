CONSTANTS
    h1 = h1
    h2 = h2
    req = req
    prober = prober
    refresher = refresher
    Hosts <- MCHosts
    Order <- MCOrder
    Threads = {req, prober}
    Work <- AnyRequest
    Selections <- AllSelections
    Affinities <- PreferSecond
    Threshold = 1
    TripCap = 1

SPECIFICATION Spec
INVARIANT TypeOK
INVARIANT NeverGivenUp
VIEW Unread
