CONSTANTS
    n1 = n1
    n2 = n2
    n3 = n3
    n4 = n4
    i1 = i1
    i2 = i2
    k1 = k1
    plain = plain
    gated = gated
    m1 = m1
    g1 = g1
    g2 = g2
    NoMandate = NoMandate
    NoGrant = NoGrant
    Calls <- TwoCalls
    Requests <- MixedRequests
    Invocations <- MCInvocations
    Correlations <- MCCorrelations
    Capabilities <- MCCapabilities
    Mandates <- MCMandates
    Approvals <- MCApprovals
    GrantFor <- MCGrantFor
    MaxUses <- OneUse
    Tier <- MCTier
    ActionLimit <- Unlimited
    Cacheable <- MCCapabilities
    Refusals <- AllRefusals
    HandlerOutcomes = {"success", "failure", "indeterminate", "denied"}
    Overlapping = TRUE
    Faults = {}
    Durable = TRUE
    t1 = t1
    MaxKeys = 3
    MaxIncidents = 1
    Peers = {t1}
    MaxTurns = 1

SPECIFICATION FairHostsSpec
CHECK_DEADLOCK FALSE
INVARIANT TrustSafe
PROPERTY EvidenceBrackets
PROPERTY EveryCallAnswered
PROPERTY PinCatchesUp
