SPECIFICATION Spec
CONSTANTS
    Correlations = {1, 2}
    Witnesses = {w1}
    Notaries = {n1}
    Posters = {p1}
    MaxSequence = 3
    MaxReceipts = 1
    MaxAnchors = 2
    MaxDeeds = 2
INVARIANT RemoteForkNeedsChange
CHECK_DEADLOCK FALSE
