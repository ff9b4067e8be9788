------------------------------ MODULE MCFederation ------------------------------
(***************************************************************************)
(* What hosts rely on about each other: witnessed and anchored heads, the  *)
(* tree proofs behind them, the causal order of a task's events, mandates, *)
(* and compositions; and the other implementation a host may be talking    *)
(* to.  The components share nothing here, so one run checks them side by  *)
(* side: the first state chooses a component, and only that component      *)
(* moves.                                                                  *)
(***************************************************************************)
EXTENDS Witnessing, Ordering, Mandates, Composition, TwinHost, TLC

CONSTANTS
    w1, n1, p1, t1, t2, m1, m2, k1, k2, c1, c2, c3,
    Leaves,   \* what the leaves of a tree hold
    MaxLeaves \* bound on the leaves of a tree

VARIABLES
    part,  \* the component that moves
    tree,  \* the leaves of a tree ...
    claim  \* ... and those of another that somebody claims it has grown from

Scopes == {{<<"a", "*">>}, {<<"a", "b">>, <<"b">>}}
Windows == {<<0, 2>>, <<1, 1>>}
Named == {<<"a">>, <<"a", "b">>, <<"b">>}

Alike == Permutations({c1, c2})

FewDeeds == 2

-----------------------------------------------------------------------------
treeVars == <<tree, claim>>

GrowTree(leaf) ==
    /\ Len(tree) < MaxLeaves
    /\ tree' = Append(tree, leaf)
    /\ UNCHANGED claim

GrowClaim(leaf) ==
    /\ Len(claim) < MaxLeaves
    /\ claim' = Append(claim, leaf)
    /\ UNCHANGED tree

TreeNext == \E leaf \in Leaves : GrowTree(leaf) \/ GrowClaim(leaf)

\* Receipts and revocations share nothing with anchors but the store they are
\* held against, so one part has the witnesses and the posters, another one the
\* notaries.  The monitors have the anchors from the notaries, so that part
\* leaves out their delivery to the host.  It takes three deeds to put an event
\* in and out again (the first a purge, which makes the room for it): a third deed
\* is the operator's after a purge, and for receipts alone.  All that a revocation
\* does to a receipt is to keep it from being taken: it meets one deed.
Witnessed ==
    /\ Next
    /\ \A w \in Notaries : hand'[w] = hand[w]
    /\ (\E w \in Posters : hand'[w] # Idle) \/ accepted' # {} => Cardinality(deeds') <= 1
    /\ Cardinality(deeds') > FewDeeds =>
          \A d \in deeds' : d.by = IF d.after = 0 THEN "purge" ELSE "operator"

\* Since nothing reads what a notary still holds, it is gone at once.
Anchored ==
    /\ \/ \E w \in Notaries : Miss(w)
       \/ /\ \A w \in Notaries : hand[w] = Idle
          /\ \/ Storing
             \/ Operating
             \/ \E w \in Notaries, scheme \in {"v1", "v2"} : SignAnchor(w, scheme)
    /\ Cardinality(deeds') <= FewDeeds

\* A mandate that is refused stays so, whatever is passed on or revoked, and is left
\* alone.  A link of another implementation errs in one respect at most: each of
\* them is reason enough to refuse it.  Principals and keys are alike, so the root
\* is m1's and signed with k1.  A link beyond the depth is refused whatever it
\* says, and says what its parent does.
Mandated ==
    /\ links = <<>> \/ \E at \in Moments : Verified(links, at, revoked)
    /\ MandateNext
    /\ links'[1].principal = m1 /\ links'[1].key = k1
    /\ \A n \in DOMAIN links' :
          LET link == links'[n]
          IN  Cardinality({err \in {"signature", "attestation", "depth", "parent"} :
                  \/ err = "signature" /\ ~SignatureHolds(link)
                  \/ err = "attestation" /\ ~AttestationHolds(link)
                  \/ err = "depth" /\ link.depth # n - 1
                  \/ err = "parent" /\ link.parent_id # n - 1}) <= 1
    /\ Len(links') > MaxDepth + 1 =>
          \A field \in {"scope", "valid_from", "valid_until", "delegate", "delegable"} :
              links'[Len(links')][field] = links'[Len(links') - 1][field]

\* One invocation has no cause; and of the three things that may disturb the order,
\* a clock set back, an invocation begun again (one of them) and a stamp on a whole
\* second, each is enough alone.
Ordered ==
    LET stamped == events' \cup {emitting'[t] : t \in Emitters}
    IN  /\ OrderingNext
        /\ \A e \in stamped : e.causation = 0 => e.invocation <= 1
        /\ Cardinality(reruns') <= 1
        /\ Cardinality({disturbed \in {"clock", "id", "second"} :
              \/ disturbed = "clock" /\ stepped'
              \/ disturbed = "id" /\ reruns' # {}
              \/ disturbed = "second" /\ \E e \in stamped \ {Silent} : Whole(e.timestamp)})
              <= 1

FederationInit ==
    /\ part \in {"witnessing", "anchoring", "tree", "ordering", "mandates", "composition", "twin"}
    /\ Init
    /\ tree = <<>>
    /\ claim = <<>>
    /\ OrderingInit
    /\ MandateInit
    /\ CompositionInit
    /\ TwinInit
    /\ guarded => part = "twin"

Moves(name, step) == part = name /\ step

Stays(names, component) == part \notin names => UNCHANGED component

FederationNext ==
    /\ UNCHANGED part
    /\ \/ Moves("witnessing", Witnessed)
       \/ Moves("anchoring", Anchored)
       \/ Moves("tree", TreeNext)
       \/ Moves("ordering", Ordered)
       \/ Moves("mandates", Mandated)
       \/ Moves("composition", CompositionNext)
       \/ Moves("twin", TwinNext)
    /\ Stays({"witnessing", "anchoring"}, vars)
    /\ Stays({"tree"}, treeVars)
    /\ Stays({"ordering"}, orderingVars)
    /\ Stays({"mandates"}, mandateVars)
    /\ Stays({"composition"}, compositionVars)
    /\ Stays({"twin"}, twinVars)

federationVars ==
    <<part, vars, treeVars, orderingVars, mandateVars, compositionVars, twinVars>>

FederationSpec == FederationInit /\ [][FederationNext]_federationVars

-----------------------------------------------------------------------------
(***************************************************************************)
(* Properties of the tree proofs                                           *)
(***************************************************************************)
Proofs == {InclusionProof(tree, i) : i \in 0..Len(tree) - 1}

\* A consistency proof the host computes is accepted exactly where the older
\* tree is a beginning of the newer one (merkle.py, verify_consistency).
ConsistencyExact ==
    VerifyConsistency(MerkleRoot(claim), MerkleRoot(tree), Len(claim), Len(tree),
                      IF Len(claim) <= Len(tree) THEN ConsistencyProof(tree, Len(claim))
                      ELSE <<>>)
        <=> IsPrefix(claim, tree)

\* An inclusion proof is accepted for the leaf at its place, and no proof of the
\* tree is accepted for a place that does not hold the leaf (verify_inclusion).
InclusionExact ==
    \A index \in 0..Len(tree), leaf \in Leaves :
        LET there == index < Len(tree) /\ tree[index + 1] = leaf
            accepts(path) == VerifyInclusion(MerkleRoot(tree), leaf, index, Len(tree), path)
        IN  /\ there => accepts(InclusionProof(tree, index))
            /\ (\E path \in Proofs : accepts(path)) => there

\* The proofs of a tree are accepted for what is in it and for nothing else.
ProofsExact == ConsistencyExact /\ InclusionExact
=============================================================================
