--------------------------- MODULE MCEvidenceStore ---------------------------
(***************************************************************************)
(* Instances of EvidenceStore for TLC: two connections, two correlations,  *)
(* two capabilities.  c1 receives three events (two of them old), so a     *)
(* chain has a middle to lose; the batch spans both correlations; x is an  *)
(* event json.dumps refuses.                                               *)
(***************************************************************************)
EXTENDS EvidenceStore, TLC

CONSTANTS w1, w2, a1, a2, a3, b1, m1, m2, x, c1, c2, k1, k2, i1, i2

MCConns == {w1, w2}
MCEvents == {a1, a2, a3, b1, m1, m2, x}
MCCorrelations == {c1, c2}
MCCapabilities == {k1, k2}
MCInvocations == {i1, i2}

MCCorrelationOf == a1 :> c1 @@ a2 :> c1 @@ a3 :> c1 @@ b1 :> c2
                   @@ m1 :> c1 @@ m2 :> c2 @@ x :> c1
MCCapabilityOf == a1 :> k1 @@ a2 :> k1 @@ a3 :> k2 @@ b1 :> k2
                  @@ m1 :> k1 @@ m2 :> k2 @@ x :> k1
MCInvocationOf == a1 :> i1 @@ a2 :> i1 @@ a3 :> i2 @@ b1 :> i2
                  @@ m1 :> i1 @@ m2 :> i2 @@ x :> i1
MCTimestampOf == a1 :> 1 @@ a2 :> 1 @@ a3 :> 2 @@ b1 :> 1
                 @@ m1 :> 2 @@ m2 :> 2 @@ x :> 1
MCBodyOf == [e \in MCEvents |-> IF e \in {b1} THEN "empty" ELSE "full"]
MCTerminal == {a2}

NoBatch == {}
OneBatch == {<<m1, m2>>}
BadBatch == {<<m1, x>>}
AllSerializable == MCEvents
NotX == MCEvents \ {x}

AllPatterns == {{k1}, {k1, k2}}
OnlyA == {a1, a2}
FewSingles == {a1, a2, b1}
ManySingles == {a1, a2, a3, b1}
FewAndBad == FewSingles \cup {x}

ConnSymmetry == Permutations(MCConns)
=============================================================================
