------------------------- MODULE MCInvocationPipeline -------------------------
(***************************************************************************)
(* Instances of InvocationPipeline for TLC.  Each set of requests below is *)
(* what the callers of one run send: retries of one invocation, several    *)
(* invocations under one mandate or budget, an approved and an unapproved  *)
(* version of the same call, two activations with the same grant.          *)
(***************************************************************************)
EXTENDS InvocationPipeline, TLC

CONSTANTS n1, n2, n3, n4, i1, i2, k1, plain, gated, m1, g1, g2

TwoCalls == {n1, n2}
ThreeCalls == {n1, n2, n3}
FourCalls == {n1, n2, n3, n4}
CallSymmetry == Permutations(Calls)

MCInvocations == {i1, i2}
MCCorrelations == {k1}
MCCapabilities == {plain, gated}
MCMandates == {m1}
MCApprovals == {g1, g2}
MCGrantFor == g1 :> i1 @@ g2 :> i2
MCTier == plain :> "free" @@ gated :> "approval_required"

OneUse == m1 :> 1
Unlimited == [p \in MCCapabilities |-> Cardinality(Calls)]
OneAction == [p \in MCCapabilities |-> 1]
TwoActions == [p \in MCCapabilities |-> 2]

Envelope(i, p, mode, m, g, act) ==
    [inv |-> i, corr |-> k1, cap |-> p, mode |-> mode, mandate |-> m,
     approval |-> g, activation |-> act]

Plain(i) == Envelope(i, plain, "sync", NoMandate, NoGrant, FALSE)
Stream(i) == Envelope(i, plain, "stream", NoMandate, NoGrant, FALSE)
Delegated(i) == Envelope(i, plain, "sync", m1, NoGrant, FALSE)
Unapproved(i) == Envelope(i, gated, "sync", NoMandate, NoGrant, FALSE)
Approved(i, g) == Envelope(i, gated, "sync", NoMandate, g, FALSE)
Activation(i, g) == Envelope(i, plain, "sync", NoMandate, g, TRUE)
GatedActivation(i, g) == Envelope(i, gated, "sync", NoMandate, g, TRUE)

SequentialRequests == {Delegated(i1), Delegated(i2), Unapproved(i2), Approved(i2, g2)}
OverlappingRequests == {GatedActivation(i1, g1), Activation(i2, g1), Stream(i1)}
CapRequests == {Delegated(i1), Delegated(i2)}
BudgetRequests == {Plain(i1), Plain(i2)}
MixedRequests == {Unapproved(i1), Approved(i1, g1), Delegated(i2), GatedActivation(i1, g1)}
ResumeRequests == {Unapproved(i1), Approved(i1, g1)}
PlainRequests == {Plain(i1)}
StreamRequests == {Stream(i1)}

NoRefusals == {}
Denials == {"denied"}
AllRefusals == {"denied", "approval_required", "skipped"}
=============================================================================
