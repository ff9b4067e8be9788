CONSTANTS
    h1 = h1
    h2 = h2
    req = req
    prober = prober
    refresher = refresher
    Hosts <- OneHost
    Order <- OneOrder
    Threads = {req, prober, refresher}
    Work <- AnyRequest
    Selections = {"least_loaded"}
    Affinities = {{}}
    Threshold = 2
    TripCap = 1

SPECIFICATION FairSpec

PROPERTY InvocationsEnd
PROPERTY RecoveredHostReturns
