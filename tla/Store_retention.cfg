CONSTANTS
    w1 = w1
    w2 = w2
    a1 = a1
    a2 = a2
    a3 = a3
    b1 = b1
    m1 = m1
    m2 = m2
    x = x
    c1 = c1
    c2 = c2
    k1 = k1
    k2 = k2
    i1 = i1
    i2 = i2
    NoConn = NoConn
    Conns <- MCConns
    Events <- MCEvents
    Singles <- ManySingles
    Batches <- BadBatch
    Correlations <- MCCorrelations
    Capabilities <- MCCapabilities
    Invocations <- MCInvocations
    CorrelationOf <- MCCorrelationOf
    CapabilityOf <- MCCapabilityOf
    InvocationOf <- MCInvocationOf
    TimestampOf <- MCTimestampOf
    BodyOf <- MCBodyOf
    Serializable <- NotX
    Terminal <- MCTerminal
    RetainCutoffs = {0,2,3}
    RedactCutoffs = {0,2,3}
    PurgeCutoffs = {2,3}
    Patterns <- AllPatterns
    MaxSequence = 4
    MaxServed = 0

SPECIFICATION Spec
SYMMETRY ConnSymmetry
INVARIANT HeadPathsAgree
PROPERTY PurgeCascades
