CONSTANTS
    n1 = n1
    n2 = n2
    n3 = n3
    n4 = n4
    i1 = i1
    i2 = i2
    k1 = k1
    plain = plain
    gated = gated
    m1 = m1
    g1 = g1
    g2 = g2
    NoMandate = NoMandate
    NoGrant = NoGrant
    Calls <- ThreeCalls
    Requests <- ResumeRequests
    Invocations <- MCInvocations
    Correlations <- MCCorrelations
    Capabilities <- MCCapabilities
    Mandates <- MCMandates
    Approvals <- MCApprovals
    GrantFor <- MCGrantFor
    MaxUses <- OneUse
    Tier <- MCTier
    ActionLimit <- Unlimited
    Cacheable <- MCCapabilities
    Refusals <- NoRefusals
    HandlerOutcomes = {"success"}
    Overlapping = TRUE
    Faults = {}
    Durable = TRUE

SPECIFICATION Spec
CHECK_DEADLOCK FALSE
SYMMETRY CallSymmetry
INVARIANT ResumedExactlyOnce
