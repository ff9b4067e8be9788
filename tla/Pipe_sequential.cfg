CONSTANTS
    n1 = n1
    n2 = n2
    n3 = n3
    n4 = n4
    i1 = i1
    i2 = i2
    k1 = k1
    plain = plain
    gated = gated
    m1 = m1
    g1 = g1
    g2 = g2
    NoMandate = NoMandate
    NoGrant = NoGrant
    Calls <- FourCalls
    Requests <- SequentialRequests
    Invocations <- MCInvocations
    Correlations <- MCCorrelations
    Capabilities <- MCCapabilities
    Mandates <- MCMandates
    Approvals <- MCApprovals
    GrantFor <- MCGrantFor
    MaxUses <- OneUse
    Tier <- MCTier
    ActionLimit <- TwoActions
    Cacheable <- MCCapabilities
    Refusals = {"denied", "skipped"}
    HandlerOutcomes = {"success", "failure"}
    Overlapping = FALSE
    Faults = {"crash"}
    Durable = TRUE

SPECIFICATION Spec
CHECK_DEADLOCK FALSE
SYMMETRY CallSymmetry
INVARIANT TypeOK
INVARIANT OneFinalAnswer
INVARIANT ReexecutedOnlyAfterDeath
INVARIANT MandateCapHolds
INVARIANT BudgetHolds
