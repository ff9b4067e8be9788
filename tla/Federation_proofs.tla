--------------------------- MODULE Federation_proofs ---------------------------
(***************************************************************************)
(* Proofs about what hosts rely on about each other: compositions, for any *)
(* graph of any nodes and any runtime; mandates; the twin host; the causal *)
(* order of events; the Merkle trees, for trees of any size; and witnessed *)
(* and anchored heads.                                                     *)
(***************************************************************************)
EXTENDS MCFederation, FiniteSetTheorems, SequenceTheorems, NaturalsInduction,
        WellFoundedInduction, TLAPS

-----------------------------------------------------------------------------
(***************************************************************************)
(* Compositions                                                            *)
(***************************************************************************)
\* What a node's dependency showed when the node was dispatched, with the artifact
\* it is fed, which nobody takes back.
WasMet(n, e) ==
    /\ basis[n][e[1]] = "completed"
    /\ e[3] = "data" => e[1] \in artifacts

RanOnKnown(n) ==
    /\ \E e \in Incoming(edges, n) : WasMet(n, e)
    /\ n \notin JoinAny => \A e \in Incoming(edges, n) : WasMet(n, e)
    /\ n \in Critical => \A m \in Sources(edges, n) : basis[n][m] # "indeterminate"

AllRanOnKnown ==
    \A n \in Nodes : states[n] # "pending" /\ Incoming(edges, n) # {} => RanOnKnown(n)

\* What is typed, with the edges finite; nothing runs before __post_init__ has
\* accepted the graph, and what it has accepted has no cycle; every node that was
\* dispatched was dispatched on what is known.
CompositionInv ==
    /\ CompositionTypeOK
    /\ IsFiniteSet(edges)
    /\ ~composed => \A n \in Nodes : states[n] = "pending"
    /\ composed => ~HasCycle(edges)
    /\ DOMAIN basis = Nodes
    /\ AllRanOnKnown

LEMMA KnownSuffices ==
    ASSUME AllRanOnKnown
    PROVE  DispatchedOnKnown
<1> SUFFICES ASSUME NEW n \in Nodes, states[n] # "pending", Sources(edges, n) # {}
             PROVE  LET met == {e \in Incoming(edges, n) :
                                   /\ basis[n][e[1]] = "completed"
                                   /\ e[3] = "data" => e[1] \in artifacts}
                    IN  /\ met # {}
                        /\ n \notin JoinAny => met = Incoming(edges, n)
                        /\ n \in Critical =>
                              \A m \in Sources(edges, n) : basis[n][m] # "indeterminate"
    BY DEF DispatchedOnKnown
<1> DEFINE met == {e \in Incoming(edges, n) : WasMet(n, e)}
<1>1. RanOnKnown(n)
    BY DEF AllRanOnKnown, Sources
<1>2. met # {} /\ (n \notin JoinAny => met = Incoming(edges, n))
    BY <1>1 DEF RanOnKnown
<1> QED
    BY <1>1, <1>2 DEF RanOnKnown, WasMet

\* What Classify calls ready has its join met on what is known.
LEMMA ReadyMeans ==
    ASSUME NEW n \in Nodes, Classify(n) = "ready", states[n] # "ready"
    PROVE  states[n] = "pending" /\ ~Blocked(n) /\ JoinMet(n)
<1>1. CASE states[n] # "pending"
    BY <1>1 DEF Classify
<1>2. CASE states[n] = "pending" /\ Blocked(n)
    BY <1>2 DEF Classify
<1>3. CASE states[n] = "pending" /\ ~Blocked(n) /\ ~JoinMet(n)
    BY <1>3 DEF Classify
<1> QED
    BY <1>1, <1>2, <1>3

\* And what waits with its join met and is not blocked is ready.
LEMMA ReadyWhen ==
    ASSUME NEW n \in Nodes, states[n] = "pending", ~Blocked(n), JoinMet(n)
    PROVE  Classify(n) = "ready"
BY DEF Classify

\* The nodes downstream of some nodes are closed under the edges.
LEMMA DownstreamClosed ==
    ASSUME NEW some, NEW n \in Nodes, NEW m \in Sources(edges, n),
           m \in some \/ m \in Downstream(some)
    PROVE  n \in Downstream(some)
<1> SUFFICES ASSUME NEW closed \in SUBSET Nodes,
                    \A k \in Nodes : Sources(edges, k) \cap (some \cup closed) # {}
                                        => k \in closed
             PROVE  n \in closed
    BY DEF Downstream
<1>1. m \in some \cup closed
    BY DEF Downstream
<1> QED
    BY <1>1

\* A composition that waits, waits for trouble: among the nodes that wait for no
\* trouble, one has no predecessor, since the graph has no cycle, and all it
\* depends on is completed with its artifact.
LEMMA NoHang ==
    ASSUME CompositionInv
    PROVE  NeverHangs
<1> SUFFICES ASSUME composed,
                    \A n \in Nodes : states[n] # "running" /\ Classify(n) # "ready",
                    NEW stuck \in Nodes, states[stuck] = "pending",
                    stuck \notin Downstream(Trouble)
             PROVE  FALSE
    BY DEF NeverHangs
<1> DEFINE waiting == {n \in Nodes : states[n] = "pending" /\ n \notin Downstream(Trouble)}
<1>1. PICK n \in waiting : Sources(edges, n) \cap waiting = {}
  <2>1. waiting \in (SUBSET Nodes) \ {{}}
    OBVIOUS
  <2>2. ~HasCycle(edges)
    BY DEF CompositionInv
  <2> QED
    BY <2>1, <2>2 DEF HasCycle
<1>2. ASSUME NEW m \in Sources(edges, n)
      PROVE  states[m] = "completed" /\ m \in artifacts
  <2>1. m \in Nodes
    BY DEF CompositionInv, CompositionTypeOK, Sources, Incoming
  <2>2. m \notin Trouble /\ m \notin Downstream(Trouble)
    BY <1>1, DownstreamClosed
  <2>3. states[m] # "pending"
    BY <1>1, <1>2, <2>1, <2>2
  <2> QED
    BY <2>1, <2>2, <2>3 DEF Trouble, CompositionInv, CompositionTypeOK
<1>3. ~Blocked(n)
    BY <1>2 DEF Blocked
<1>4. JoinMet(n)
  <2>1. \A e \in Incoming(edges, n) : Satisfied(e)
    BY <1>2 DEF Satisfied, Sources
  <2> QED
    BY <2>1 DEF JoinMet
<1> QED
    BY <1>1, <1>3, <1>4, ReadyWhen

\* Before the graph is accepted it may grow: no node runs yet.
LEMMA AddEdgeStep ==
    ASSUME CompositionInv, NEW from \in Nodes, NEW to \in Nodes, NEW type \in Types,
           AddEdge(from, to, type)
    PROVE  CompositionInv'
<1> USE DEF AddEdge
<1>1. /\ IsFiniteSet(edges)
      /\ Cardinality(edges) < MaxEdges
      /\ edges' = edges \cup {<<from, to, type>>}
    BY DEF CompositionInv
<1>2. /\ IsFiniteSet(edges')
      /\ Cardinality(edges') <= MaxEdges
  <2>1. Cardinality(edges) \in Nat /\ MaxEdges \in Nat
    BY <1>1, FS_CardinalityType, CompositionConstants DEF CompositionConstants
  <2>2. /\ IsFiniteSet(edges')
        /\ \/ Cardinality(edges') = Cardinality(edges)
           \/ Cardinality(edges') = Cardinality(edges) + 1
    BY <1>1, FS_AddElement, Zenon
  <2> HIDE DEF AddEdge
  <2> QED
    BY <1>1, <2>1, <2>2
<1>3. edges' \subseteq Nodes \X Nodes \X Types
    BY <1>1 DEF CompositionInv, CompositionTypeOK
<1>4. CompositionTypeOK'
    BY <1>2, <1>3 DEF CompositionInv, CompositionTypeOK
<1>5. AllRanOnKnown'
    BY DEF CompositionInv, AllRanOnKnown
<1>6. ~composed' /\ \A n \in Nodes : states'[n] = "pending"
    BY DEF CompositionInv
<1>7. DOMAIN basis' = Nodes
    BY DEF CompositionInv
<1> QED
    BY <1>2, <1>4, <1>5, <1>6, <1>7 DEF CompositionInv

\* A node is dispatched on the states of its sources, all of which count.
LEMMA DispatchStep ==
    ASSUME CompositionInv, NEW n \in Nodes, Dispatch(n)
    PROVE  CompositionInv'
<1> USE DEF CompositionInv, CompositionTypeOK
<1>1. states[n] = "pending" /\ ~Blocked(n) /\ JoinMet(n)
    BY ReadyMeans DEF Dispatch
<1>2. CompositionTypeOK' /\ DOMAIN basis' = Nodes
    BY DEF Dispatch
<1>3. ASSUME NEW k \in Nodes, states'[k] # "pending", Incoming(edges, k) # {}
      PROVE  RanOnKnown(k)'
  <2>1. CASE k = n
    <3>1. \A m \in Sources(edges, n) : basis'[n][m] = states[m]
        BY DEF Dispatch
    <3>2. \A e \in Incoming(edges, n) : Satisfied(e) => WasMet(n, e)'
        BY <3>1 DEF Satisfied, Sources, WasMet, Dispatch
    <3>3. \/ n \in JoinAny /\ \E e \in Incoming(edges, n) : Satisfied(e)
          \/ n \notin JoinAny /\ \A e \in Incoming(edges, n) : Satisfied(e)
        BY <1>1, <1>3, <2>1 DEF JoinMet
    <3>4. n \in Critical => \A m \in Sources(edges, n) : basis'[n][m] # "indeterminate"
        BY <1>1, <3>1 DEF Blocked
    <3>5. edges' = edges
        BY DEF Dispatch
    <3> QED
        BY <1>3, <2>1, <3>2, <3>3, <3>4, <3>5 DEF RanOnKnown, Incoming, Sources
  <2>2. CASE k # n
    <3>1. /\ states[k] # "pending" /\ basis'[k] = basis[k]
          /\ edges' = edges /\ artifacts' = artifacts
        BY <1>3, <2>2 DEF Dispatch
    <3> QED
        BY <1>3, <3>1 DEF AllRanOnKnown, RanOnKnown, WasMet, Incoming, Sources
  <2> QED
    BY <2>1, <2>2
<1>4. AllRanOnKnown'
    BY <1>3 DEF Dispatch, AllRanOnKnown, Incoming
<1> QED
    BY <1>2, <1>4 DEF Dispatch, HasCycle, Sources, Incoming

\* The end of a node and its compensation take nothing back.
LEMMA EndStep ==
    ASSUME CompositionInv, NEW n \in Nodes,
           \/ \E outcome \in {"completed", "failed", "indeterminate"}, artifact \in BOOLEAN :
                Conclude(n, outcome, artifact)
           \/ Compensate(n)
    PROVE  CompositionInv'
<1> USE DEF CompositionInv, CompositionTypeOK
<1>1. /\ states[n] # "pending"
      /\ states' \in [Nodes -> {"pending", "running", "completed", "failed",
                                "indeterminate", "compensated"}]
      /\ \A k \in Nodes : states'[k] = "pending" <=> states[k] = "pending"
      /\ artifacts \subseteq artifacts' /\ artifacts' \subseteq Nodes
      /\ composed' = composed /\ edges' = edges /\ basis' = basis
    BY DEF Conclude, Compensate
<1>2. AllRanOnKnown'
  <2> SUFFICES ASSUME NEW k \in Nodes, states'[k] # "pending", Incoming(edges, k) # {}
               PROVE  RanOnKnown(k)'
    BY <1>1 DEF AllRanOnKnown, Incoming
  <2>1. RanOnKnown(k)
    BY <1>1 DEF AllRanOnKnown
  <2>2. \A e \in Incoming(edges, k) : WasMet(k, e) => WasMet(k, e)'
    BY <1>1 DEF WasMet
  <2> QED
    BY <1>1, <2>1, <2>2 DEF RanOnKnown, Incoming, Sources
<1> QED
    BY <1>1, <1>2 DEF HasCycle, Sources, Incoming

\* A composition neither runs a node on what is not known nor stops short of one
\* that could run (classify, __post_init__), for any graph and any outcomes.
THEOREM CompositionStaysSafe == CompositionSpec => []CompositionSafe
<1>1. CompositionInit => CompositionInv
  <2> SUFFICES ASSUME CompositionInit
               PROVE  CompositionInv
    OBVIOUS
  <2>1. IsFiniteSet(edges) /\ Cardinality(edges) = 0
    BY FS_EmptySet DEF CompositionInit
  <2>2. MaxEdges \in Nat
    BY CompositionConstants DEF CompositionConstants
  <2>3. Cardinality(edges) <= MaxEdges
    BY <2>1, <2>2
  <2>4. CompositionTypeOK
    BY <2>3 DEF CompositionInit, CompositionTypeOK
  <2> QED
    BY <2>1, <2>4 DEF CompositionInit, CompositionInv, AllRanOnKnown
<1>2. CompositionInv /\ [CompositionNext]_compositionVars => CompositionInv'
  <2> SUFFICES ASSUME CompositionInv, [CompositionNext]_compositionVars
               PROVE  CompositionInv'
    OBVIOUS
  <2> USE DEF CompositionInv, CompositionTypeOK, AllRanOnKnown, RanOnKnown, WasMet,
              HasCycle, Sources, Incoming
  <2>1. CASE Compose
    BY <2>1 DEF Compose
  <2>2. CASE UNCHANGED compositionVars
    BY <2>2 DEF compositionVars
  <2> QED
    BY <2>1, <2>2, AddEdgeStep, DispatchStep, EndStep, ZenonT(60) DEF CompositionNext
<1>3. CompositionInv => CompositionSafe
    BY NoHang, KnownSuffices DEF CompositionInv, CompositionSafe
<1> QED
    BY <1>1, <1>2, <1>3, PTL DEF CompositionSpec
-----------------------------------------------------------------------------
(***************************************************************************)
(* Mandates                                                                *)
(***************************************************************************)
Names == Seq(Characters)

LinkRecords ==
    [mandate_id: Nat, principal: Principals, key: HostKeys, signer: HostKeys,
     attestation: Principals \X HostKeys, delegate: Principals, scope: ScopeChoices,
     valid_from: Nat, valid_until: Nat, delegable: BOOLEAN, depth: Nat, parent_id: Nat]

\* A link signed with the key it carries, which attests its name.
OwnLink(link) == SignatureHolds(link) /\ AttestationHolds(link)

\* From link n to link m every link attenuates the one before it.
Chained(n, m) == \A k \in n + 1..m : Attenuates(links[k], links[k - 1])

\* A link allows what the other does, of names and of time.
AllowedAlso(child, parent) ==
    \A name \in Names : ScopeAllows(child.scope, name) => ScopeAllows(parent.scope, name)

WithinTime(child, parent) ==
    /\ parent.valid_from <= child.valid_from
    /\ child.valid_until <= parent.valid_until

\* A name a pattern without a star of its own begins like.
LEMMA PrefixMeans ==
    ASSUME NEW s \in Names, NEW name \in Names
    PROVE  IsPrefix(s, name) <=>
               Len(s) <= Len(name) /\ \A i \in 1..Len(s) : s[i] = name[i]
BY DEF IsPrefix, Names

LEMMA FrontMeans ==
    ASSUME NEW s \in Names, s # <<>>
    PROVE  /\ Front(s) \in Names
           /\ Len(Front(s)) = Len(s) - 1
           /\ \A i \in 1..Len(s) - 1 : Front(s)[i] = s[i]
<1>1. Len(s) \in Nat /\ Len(s) >= 1 /\ Len(s) - 1 \in Int /\ 1 \in Int
    BY DEF Names
<1>2. \A i \in 1..Len(s) - 1 : s[i] \in Characters
    BY DEF Names
<1> DEFINE front == SubSeq(s, 1, Len(s) - 1)
<1>3. /\ front \in Seq(Characters)
      /\ Len(front) = IF 1 <= Len(s) - 1 THEN Len(s) - 1 - 1 + 1 ELSE 0
      /\ \A i \in 1..Len(s) - 1 - 1 + 1 : front[i] = s[1 + i - 1]
    BY <1>1, <1>2, SubSeqProperties
<1> HIDE DEF front
<1>4. Len(front) = Len(s) - 1
  <2>1. CASE Len(s) = 1
    BY <1>3, <2>1
  <2>2. CASE Len(s) # 1
    <3>1. 1 <= Len(s) - 1
        BY <1>1, <2>2, SMTT(40)
    <3> QED
        BY <1>1, <1>3, <3>1
  <2> QED
    BY <2>1, <2>2
<1>5. ASSUME NEW i \in 1..Len(s) - 1
      PROVE  front[i] = s[i]
  <2>1. i \in 1..Len(s) - 1 - 1 + 1 /\ 1 + i - 1 = i
    BY <1>1
  <2> QED
    BY <1>3, <2>1
<1> QED
    BY <1>3, <1>4, <1>5 DEF front, Front, Names

\* A pattern allows what a pattern that it allows does, if its only star is its last.
LEMMA PatternsNarrow ==
    ASSUME NEW p \in Names, NEW s \in Names, NEW name \in Names, p # <<>>, s # <<>>,
           \A i \in 1..Len(p) - 1 : p[i] # "*",
           s = p \/ (Last(p) = "*" /\ IsPrefix(Front(p), s)),
           name = s \/ (Last(s) = "*" /\ IsPrefix(Front(s), name))
    PROVE  name = p \/ (Last(p) = "*" /\ IsPrefix(Front(p), name))
<1>1. CASE s = p \/ name = s
    BY <1>1
<1>2. CASE s # p /\ name # s
  <2> DEFINE front == Len(p) - 1
  <2>1. /\ Last(p) = "*" /\ s[Len(s)] = "*"
        /\ front <= Len(s) /\ \A i \in 1..front : p[i] = s[i]
        /\ Len(s) - 1 <= Len(name) /\ \A i \in 1..Len(s) - 1 : s[i] = name[i]
    BY <1>2, PrefixMeans, FrontMeans DEF Last
  <2>2. Len(p) \in Nat \ {0} /\ Len(s) \in Nat \ {0} /\ Len(name) \in Nat
    BY DEF Names
  <2>3. front # Len(s)
    BY <2>1, <2>2
  <2>4. front <= Len(name) /\ \A i \in 1..front : p[i] = name[i]
    BY <2>1, <2>2, <2>3
  <2> QED
    BY <2>1, <2>2, <2>4, PrefixMeans, FrontMeans
<1> QED
    BY <1>1, <1>2

\* So one link attenuates another only if it allows less (_attenuates).
LEMMA AttenuatesNarrows ==
    ASSUME MandateConstants, StarsEndNames,
           NEW child \in LinkRecords, NEW parent \in LinkRecords, Attenuates(child, parent)
    PROVE  AllowedAlso(child, parent)
<1> SUFFICES ASSUME NEW name \in Names, ScopeAllows(child.scope, name)
             PROVE  ScopeAllows(parent.scope, name)
    BY DEF AllowedAlso
<1>1. /\ child.scope \in ScopeChoices /\ parent.scope \in ScopeChoices
      /\ \A scope \in ScopeChoices : \A s \in scope : s \in Names /\ s # <<>>
    BY DEF LinkRecords, MandateConstants, Names
<1>2. PICK s \in child.scope : name = s \/ (Last(s) = "*" /\ IsPrefix(Front(s), name))
    BY DEF ScopeAllows
<1>3. PICK p \in parent.scope : s = p \/ (Last(p) = "*" /\ IsPrefix(Front(p), s))
    BY <1>2 DEF Attenuates, ScopeAllows
<1>4. \A i \in 1..Len(p) - 1 : p[i] # "*"
    BY <1>1, <1>3 DEF StarsEndNames
<1>5. name = p \/ (Last(p) = "*" /\ IsPrefix(Front(p), name))
    BY <1>1, <1>2, <1>3, <1>4, PatternsNarrow
<1> QED
    BY <1>3, <1>5 DEF ScopeAllows

\* What the builders know of a mandate: its links are numbered and no deeper than
\* their place; what the library alone has built attenuates link by link, each one
\* signed with the key it carries; and from any link to a later one, what attenuates narrows.
MandateInv ==
    /\ links \in Seq(LinkRecords)
    /\ MandateTypeOK
    /\ \A n \in DOMAIN links : links[n].depth <= n - 1
    /\ links # <<>> => links[1].depth = 0
    /\ ~foreign => /\ \A n \in DOMAIN links : OwnLink(links[n])
                   /\ \A n \in DOMAIN links \ {1} : /\ Attenuates(links[n], links[n - 1])
                                                     /\ links[n - 1].delegable
    /\ \A m \in DOMAIN links : \A n \in 1..m : Chained(n, m) => WithinTime(links[m], links[n])

\* And, of patterns with one star, that they narrow.
ScopesNarrow ==
    \A m \in DOMAIN links : \A n \in 1..m : Chained(n, m) => AllowedAlso(links[m], links[n])

\* A link is put at the end of a mandate.
Linked(link) ==
    /\ Len(links) < MaxLinks
    /\ link \in LinkRecords
    /\ link.mandate_id = Len(links) + 1
    /\ link.depth \in 0..Len(links)
    /\ links' = Append(links, link)
    /\ revoked' = revoked
    /\ \/ /\ foreign' = foreign
          /\ OwnLink(link)
          /\ links # <<>> => Attenuates(link, links[Len(links)]) /\ links[Len(links)].delegable
       \/ foreign' = TRUE

LEMMA AppendedAt ==
    ASSUME NEW link \in LinkRecords, links \in Seq(LinkRecords), links' = Append(links, link)
    PROVE  /\ links' \in Seq(LinkRecords)
           /\ Len(links) \in Nat /\ DOMAIN links = 1..Len(links)
           /\ Len(links') = Len(links) + 1 /\ DOMAIN links' = 1..Len(links) + 1
           /\ links'[Len(links) + 1] = link
           /\ \A n \in 1..Len(links) : links'[n] = links[n] /\ links[n] \in LinkRecords
OBVIOUS

\* From a link to the one just put at the end, every link attenuates the one before
\* it only if they do to the former last one, which the new one attenuates.
LEMMA ChainedOn ==
    ASSUME NEW link, Linked(link), links \in Seq(LinkRecords),
           NEW m \in 1..Len(links) + 1, NEW n \in 1..m, Chained(n, m)'
    PROVE  /\ m <= Len(links) => Chained(n, m)
           /\ m = Len(links) + 1 /\ n < m =>
                 /\ Chained(n, Len(links))
                 /\ Attenuates(link, links[Len(links)])
<1> USE AppendedAt DEF Linked
<1>1. \A k \in n + 1..m : k # Len(links) + 1 => Attenuates(links[k], links[k - 1])
    BY SMTT(40) DEF Chained
<1>2. CASE m <= Len(links)
    BY <1>1, <1>2 DEF Chained
<1>3. CASE m = Len(links) + 1 /\ n < m
  <2>1. m \in n + 1..m /\ Attenuates(links'[m], links'[m - 1])
    BY <1>3 DEF Chained
  <2> QED
    BY <1>1, <1>3, <2>1 DEF Chained
<1> QED
    BY <1>2, <1>3

LEMMA LinkTimes ==
    \A link \in LinkRecords : link.valid_from \in Nat /\ link.valid_until \in Nat
BY DEF LinkRecords

LEMMA TimesNarrow ==
    /\ \A link \in LinkRecords : WithinTime(link, link)
    /\ \A child, link, parent \in LinkRecords :
          WithinTime(child, link) /\ WithinTime(link, parent) => WithinTime(child, parent)
BY LinkTimes DEF WithinTime

LEMMA LinkedStep ==
    ASSUME MandateConstants, MandateInv, NEW link, Linked(link)
    PROVE  MandateInv'
<1> DEFINE last == Len(links) + 1
<1>0. MaxLinks \in Nat /\ Len(links) < MaxLinks /\ links \in Seq(LinkRecords)
    BY DEF Linked, MandateInv, MandateConstants
<1>1. /\ links' \in Seq(LinkRecords) /\ link \in LinkRecords
      /\ Len(links) \in Nat /\ DOMAIN links = 1..Len(links)
      /\ Len(links') = last /\ DOMAIN links' = 1..last
      /\ links'[last] = link
      /\ \A n \in 1..Len(links) : links'[n] = links[n] /\ links[n] \in LinkRecords
    BY AppendedAt DEF Linked, MandateInv
<1>2. /\ MandateTypeOK'
      /\ \A n \in DOMAIN links' : links'[n].depth <= n - 1
      /\ links'[1].depth = 0
  <2>1. link.mandate_id = last /\ link.depth \in 0..last - 1
    BY <1>1 DEF Linked
  <2>2. \A n \in 1..Len(links) : links[n].mandate_id = n /\ links[n].depth \in 0..n - 1
    BY <1>1 DEF MandateInv, MandateTypeOK
  <2>3. \A n \in 1..last : links'[n].mandate_id = n /\ links'[n].depth \in 0..n - 1
    BY <1>1, <2>1, <2>2
  <2>4. Len(links') <= MaxLinks
    BY <1>0, <1>1
  <2>5. foreign' \in BOOLEAN /\ revoked' \subseteq (1..MaxLinks) \X HostKeys
    BY DEF MandateInv, MandateTypeOK, Linked
  <2>6. \A n \in 1..last : n - 1 <= MaxLinks
    BY <1>0, <1>1
  <2>7. MandateTypeOK'
    BY <1>0, <1>1, <2>3, <2>4, <2>5, <2>6 DEF MandateTypeOK
  <2>8. links'[1].depth = 0 /\ \A n \in 1..last : links'[n].depth <= n - 1
    BY <1>1, <2>3
  <2> QED
    BY <1>1, <2>7, <2>8
<1>3. ASSUME ~foreign'
      PROVE  /\ \A n \in DOMAIN links' : OwnLink(links'[n])
             /\ \A n \in DOMAIN links' \ {1} : /\ Attenuates(links'[n], links'[n - 1])
                                             /\ links'[n - 1].delegable
  <2>1. /\ ~foreign
        /\ OwnLink(link)
        /\ links # <<>> => Attenuates(link, links[Len(links)]) /\ links[Len(links)].delegable
    BY <1>3 DEF Linked
  <2>2. /\ \A n \in 1..Len(links) : OwnLink(links[n])
        /\ \A n \in 1..Len(links) \ {1} : /\ Attenuates(links[n], links[n - 1])
                                          /\ links[n - 1].delegable
    BY <1>1, <2>1 DEF MandateInv
  <2>3. ASSUME NEW n \in 1..last
        PROVE  /\ OwnLink(links'[n])
               /\ n # 1 => Attenuates(links'[n], links'[n - 1]) /\ links'[n - 1].delegable
    <3>1. CASE n \in 1..Len(links)
        BY <1>1, <2>2, <3>1
    <3>2. CASE n = last
        BY <1>1, <2>1, <3>2
    <3> QED
        BY <1>1, <3>1, <3>2
  <2> QED
    BY <1>1, <2>3
<1>4. ASSUME NEW m \in DOMAIN links', NEW n \in 1..m, Chained(n, m)'
      PROVE  WithinTime(links'[m], links'[n])
  <2>1. CASE m <= Len(links)
    BY <1>0, <1>1, <1>4, <2>1, ChainedOn DEF MandateInv
  <2>2. CASE m = Len(links) + 1 /\ n < m
    <3>1. n \in 1..Len(links) /\ Len(links) \in 1..Len(links)
        BY <1>1, <2>2
    <3>2. Chained(n, Len(links)) /\ Attenuates(link, links[Len(links)])
        BY <1>0, <1>1, <1>4, <2>2, ChainedOn
    <3>3. WithinTime(links[Len(links)], links[n]) /\ WithinTime(link, links[Len(links)])
        BY <1>1, <3>1, <3>2 DEF MandateInv, Attenuates, WithinTime
    <3>4. WithinTime(link, links[n])
        BY <1>1, <3>1, <3>3, TimesNarrow
    <3> QED
        BY <1>1, <2>2, <3>1, <3>4
  <2>3. CASE n = m
    BY <1>1, <2>3, TimesNarrow
  <2> QED
    BY <1>1, <1>4, <2>1, <2>2, <2>3
<1> QED
    BY <1>1, <1>2, <1>3, <1>4 DEF MandateInv, Chained

\* The last place and the one before it.
LEMMA PlacesInside ==
    ASSUME NEW S, NEW s \in Seq(S), s # <<>>
    PROVE  /\ \A d \in {Len(s) - 1, Len(s)} : d \in 0..Len(s) /\ d \in Nat
           /\ \A d \in {1, Len(s)} : d \in Nat
OBVIOUS

\* What the builders and other implementations sign is put at the end so.
LEMMA SignedIsLinked ==
    ASSUME MandateConstants, MandateInv, Len(links) < MaxLinks,
           NEW principal \in Principals, NEW key \in HostKeys, NEW delegate \in Principals,
           NEW scope \in ScopeChoices, NEW window \in WindowChoices,
           NEW delegable \in BOOLEAN, NEW link,
           link = Link(principal, key, delegate, scope, window, delegable),
           \/ Grant(link)
           \/ PassOn(link)
           \/ \E signer \in HostKeys, attestation \in Principals \X HostKeys,
                 depth \in {Len(links) - 1, Len(links)}, parentId \in {1, Len(links)} :
                 SignForeign(link, signer, attestation, depth, parentId)
    PROVE  \E signed : Linked(signed)
<1>1. /\ Len(links) \in Nat /\ links \in Seq(LinkRecords) /\ DOMAIN links = 1..Len(links)
      /\ window[1] \in Nat /\ window[2] \in Nat
    BY DEF MandateInv, MandateConstants
<1>2. /\ link \in LinkRecords /\ link.mandate_id = Len(links) + 1
      /\ link.depth = Len(links) /\ OwnLink(link)
    BY <1>1 DEF Link, LinkRecords, OwnLink, SignatureHolds, AttestationHolds
<1>3. CASE Grant(link)
  <2>1. links' = Append(links, link)
    BY <1>3 DEF Grant
  <2> QED
    BY <1>1, <1>2, <1>3, <2>1 DEF Grant, Linked
<1>4. CASE PassOn(link)
  <2> DEFINE parent == links[Len(links)]
             signed == [link EXCEPT !.depth = parent.depth + 1, !.parent_id = parent.mandate_id]
  <2>0. Len(links) \in DOMAIN links
    BY <1>1, <1>4 DEF PassOn
  <2>1. parent \in LinkRecords /\ parent.depth <= Len(links) - 1
    BY <1>1, <2>0 DEF MandateInv
  <2>5. parent.depth \in Nat /\ parent.mandate_id \in Nat
    BY <2>1 DEF LinkRecords
  <2>6. parent.depth + 1 \in 0..Len(links) /\ parent.depth + 1 \in Nat
    BY <1>1, <2>1, <2>5
  <2>2. /\ signed \in LinkRecords /\ signed.mandate_id = Len(links) + 1
        /\ signed.depth \in 0..Len(links) /\ OwnLink(signed)
    BY <1>1, <1>2, <2>5, <2>6 DEF LinkRecords, OwnLink, SignatureHolds, AttestationHolds
  <2>3. /\ links' = Append(links, signed) /\ UNCHANGED <<foreign, revoked>>
        /\ Attenuates(signed, parent) /\ parent.delegable
    BY <1>4 DEF PassOn
  <2> HIDE DEF signed
  <2> QED
    BY <2>2, <2>3 DEF Linked
<1>5. ASSUME NEW signer \in HostKeys, NEW attestation \in Principals \X HostKeys,
             NEW depth \in {Len(links) - 1, Len(links)}, NEW parentId \in {1, Len(links)},
             SignForeign(link, signer, attestation, depth, parentId)
      PROVE  \E signed : Linked(signed)
  <2> DEFINE signed == [link EXCEPT !.signer = signer, !.attestation = attestation,
                                    !.depth = depth, !.parent_id = parentId]
  <2>0. links # <<>>
    BY <1>5 DEF SignForeign
  <2>2. depth \in 0..Len(links) /\ parentId \in Nat /\ depth \in Nat
    <3>1. links \in Seq(LinkRecords)
        BY <1>1
    <3>2. /\ \A d \in {Len(links) - 1, Len(links)} : d \in 0..Len(links) /\ d \in Nat
          /\ \A d \in {1, Len(links)} : d \in Nat
        BY <2>0, <3>1, PlacesInside
    <3> QED
        BY <3>2, SMTT(40)
  <2>3. /\ signed \in LinkRecords /\ signed.mandate_id = Len(links) + 1
        /\ signed.depth \in 0..Len(links)
    BY <1>1, <1>2, <2>2 DEF LinkRecords
  <2>4. links' = Append(links, signed) /\ foreign' = TRUE /\ revoked' = revoked
    BY <1>5 DEF SignForeign
  <2> HIDE DEF signed
  <2> QED
    BY <2>3, <2>4 DEF Linked
<1> QED
    BY <1>3, <1>4, <1>5

LEMMA MandateSteps ==
    ASSUME MandateConstants, MandateInv, [MandateNext]_mandateVars
    PROVE  /\ MandateInv'
           /\ links' = links \/ \E signed : Linked(signed)
<1>1. CASE \E signed : Linked(signed)
    BY <1>1, LinkedStep
<1>2. CASE UNCHANGED <<links, foreign>> /\ revoked' \subseteq (1..MaxLinks) \X HostKeys
    BY <1>2 DEF MandateInv, MandateTypeOK, Chained
<1>3. CASE UNCHANGED mandateVars
    BY <1>2, <1>3 DEF mandateVars, MandateInv, MandateTypeOK
<1>4. ASSUME NEW id \in DOMAIN links, NEW by \in HostKeys, Revoke(id, by)
      PROVE  UNCHANGED <<links, foreign>> /\ revoked' \subseteq (1..MaxLinks) \X HostKeys
  <2>1. id \in 1..MaxLinks
    BY DEF MandateInv, MandateTypeOK, MandateConstants
  <2> QED
    BY <1>4, <2>1 DEF Revoke
<1> QED
    BY <1>1, <1>2, <1>3, <1>4, SignedIsLinked DEF MandateNext

LEMMA MandateStarts == MandateConstants /\ MandateInit => MandateInv
<1> SUFFICES ASSUME MandateConstants, MandateInit
             PROVE  MandateInv
    OBVIOUS
<1>1. links = <<>> /\ Len(links) = 0 /\ DOMAIN links = {} /\ 0 <= MaxLinks
    BY DEF MandateConstants, MandateInit
<1>2. foreign = FALSE /\ revoked = {}
    BY DEF MandateInit
<1>3. links \in Seq(LinkRecords)
    BY <1>1
<1> QED
    BY <1>1, <1>2, <1>3 DEF MandateInv, MandateTypeOK

\* A mandate lets its holder do no less than its chain grants: a link's window is
\* in those of all before it, so what the leaf allows no link refuses.
LEMMA BuiltAccepted ==
    ASSUME MandateInv
    PROVE  BuiltIsAccepted
<1> SUFFICES ASSUME links # <<>>, ~foreign,
                    NEW caller \in Principals \cup {Unverified},
                    NEW capability \in Capabilities, NEW at \in Moments,
                    caller \in {Unverified, links[Len(links)].delegate},
                    ScopeAllows(links[Len(links)].scope, capability),
                    at \in links[Len(links)].valid_from..links[Len(links)].valid_until,
                    \A n \in DOMAIN links : <<n, links[n].key>> \notin revoked
             PROVE  Authorizes(links, caller, capability, at, revoked)
    BY DEF BuiltIsAccepted
<1>1. /\ links \in Seq(LinkRecords) /\ DOMAIN links = 1..Len(links) /\ Len(links) \in Nat
      /\ Len(links) \in DOMAIN links
    BY DEF MandateInv
<1>2. ASSUME NEW n \in DOMAIN links
      PROVE  LinkValid(links[n], at, revoked)
  <2>1. Chained(n, Len(links))
    <3>1. \A k \in n + 1..Len(links) : k \in DOMAIN links \ {1}
        BY <1>1
    <3> QED
        BY <3>1 DEF MandateInv, Chained
  <2>2. WithinTime(links[Len(links)], links[n])
    BY <1>1, <2>1 DEF MandateInv
  <2>3. /\ links[n].valid_from \in Nat /\ links[Len(links)].valid_from \in Nat
        /\ links[n].valid_until \in Nat /\ links[Len(links)].valid_until \in Nat
    BY <1>1, LinkTimes
  <2>4. links[n].valid_from <= at /\ at <= links[n].valid_until
    BY <2>2, <2>3 DEF WithinTime
  <2>5. OwnLink(links[n]) /\ links[n].mandate_id = n
    BY DEF MandateInv, MandateTypeOK
  <2> QED
    BY <2>4, <2>5 DEF LinkValid, NotRevoked, OwnLink
<1>3. \A n \in DOMAIN links \ {1} : Attenuates(links[n], links[n - 1]) /\ links[n - 1].delegable
    BY DEF MandateInv
<1> QED
    BY <1>2, <1>3 DEF Authorizes, Verified

\* And no more: whatever the host accepts, every link allows.
LEMMA ChainNarrows ==
    ASSUME MandateConstants, MandateInv, ScopesNarrow
    PROVE  AuthorityNarrows
<1> SUFFICES ASSUME NEW caller \in Principals \cup {Unverified},
                    NEW capability \in Capabilities, NEW at \in Moments,
                    Authorizes(links, caller, capability, at, revoked),
                    NEW n \in DOMAIN links
             PROVE  /\ links[n].signer = links[n].key
                    /\ links[n].attestation = <<links[n].principal, links[n].key>>
                    /\ ScopeAllows(links[n].scope, capability)
                    /\ at \in links[n].valid_from..links[n].valid_until
                    /\ <<n, links[n].key>> \notin revoked
                    /\ links[n].depth <= MaxDepth
                    /\ n < Len(links) => /\ links[n].delegable
                                         /\ links[n].delegate = links[n + 1].principal
    BY DEF AuthorityNarrows, Authorizes
<1>1. /\ links \in Seq(LinkRecords) /\ DOMAIN links = 1..Len(links) /\ Len(links) \in Nat
      /\ links # <<>> /\ Len(links) \in DOMAIN links /\ MaxDepth \in Nat
      /\ capability \in Names /\ at \in Nat
    BY DEF MandateInv, MandateConstants, Authorizes, Names
<1>2. LinkValid(links[n], at, revoked) /\ links[n].mandate_id = n
    BY DEF Authorizes, Verified, MandateInv, MandateTypeOK
<1>3. \A k \in DOMAIN links \ {1} : Attenuates(links[k], links[k - 1]) /\ links[k - 1].delegable
    BY DEF Authorizes, Verified
<1>4. ScopeAllows(links[n].scope, capability)
  <2>1. Chained(n, Len(links))
    <3>1. \A k \in n + 1..Len(links) : k \in DOMAIN links \ {1}
        BY <1>1
    <3> QED
        BY <1>3, <3>1 DEF Chained
  <2>2. AllowedAlso(links[Len(links)], links[n])
    BY <1>1, <2>1 DEF ScopesNarrow
  <2> QED
    BY <1>1, <2>2 DEF Authorizes, AllowedAlso
<1>5. links[n].depth <= MaxDepth
  <2>1. CASE n = 1
    BY <1>1, <2>1 DEF MandateInv
  <2>2. CASE n # 1
    BY <1>3, <2>2 DEF Attenuates
  <2> QED
    BY <2>1, <2>2
<1>6. n < Len(links) => links[n].delegable /\ links[n].delegate = links[n + 1].principal
  <2> SUFFICES ASSUME n < Len(links)
               PROVE  links[n].delegable /\ links[n].delegate = links[n + 1].principal
    OBVIOUS
  <2>1. PICK k \in DOMAIN links \ {1} : k = n + 1 /\ k - 1 = n
    BY <1>1
  <2>2. Attenuates(links[k], links[k - 1]) /\ links[k - 1].delegable
    BY <1>3
  <2> QED
    BY <2>1, <2>2 DEF Attenuates
<1>7. at \in links[n].valid_from..links[n].valid_until
  <2>1. links[n].valid_from \in Nat /\ links[n].valid_until \in Nat
    BY <1>1, LinkTimes
  <2> QED
    BY <1>1, <1>2, <2>1 DEF LinkValid
<1> QED
    BY <1>2, <1>4, <1>5, <1>6, <1>7 DEF LinkValid, NotRevoked, SignatureHolds, AttestationHolds

\* Links are only added, and each one narrows what the one before it allows.
LEMMA NarrowsOn ==
    ASSUME MandateConstants, StarsEndNames, MandateInv, ScopesNarrow, NEW link, Linked(link)
    PROVE  ScopesNarrow'
<1> SUFFICES ASSUME NEW m \in DOMAIN links', NEW n \in 1..m, Chained(n, m)'
             PROVE  AllowedAlso(links'[m], links'[n])
    BY DEF ScopesNarrow, Chained
<1>1. /\ links \in Seq(LinkRecords) /\ link \in LinkRecords
      /\ Len(links) \in Nat /\ DOMAIN links = 1..Len(links)
      /\ DOMAIN links' = 1..Len(links) + 1
      /\ links'[Len(links) + 1] = link
      /\ \A k \in 1..Len(links) : links'[k] = links[k] /\ links[k] \in LinkRecords
    BY AppendedAt DEF Linked, MandateInv
<1>2. CASE m <= Len(links)
    BY <1>1, <1>2, ChainedOn DEF ScopesNarrow
<1>3. CASE m = Len(links) + 1 /\ n < m
  <2>1. n \in 1..Len(links) /\ Len(links) \in 1..Len(links)
    BY <1>1, <1>3
  <2>2. Chained(n, Len(links)) /\ Attenuates(link, links[Len(links)])
    BY <1>1, <1>3, ChainedOn
  <2>3. AllowedAlso(links[Len(links)], links[n]) /\ AllowedAlso(link, links[Len(links)])
    BY <1>1, <2>1, <2>2, AttenuatesNarrows DEF ScopesNarrow
  <2> QED
    BY <1>1, <1>3, <2>1, <2>3 DEF AllowedAlso
<1>4. CASE n = m
    BY <1>4 DEF AllowedAlso
<1> QED
    BY <1>1, <1>2, <1>3, <1>4

\* What build_mandate and build_sub_mandate make is accepted by verify_mandate, for
\* any scopes and windows and whoever revokes what.
THEOREM BuiltStaysAccepted == MandateSpec => [](MandateTypeOK /\ BuiltIsAccepted)
<1>1. MandateInit => MandateInv
    BY MandateStarts, MandateConstants
<1>2. MandateInv /\ [MandateNext]_mandateVars => MandateInv'
    BY MandateSteps, MandateConstants
<1>3. MandateInv => MandateTypeOK /\ BuiltIsAccepted
    BY BuiltAccepted DEF MandateInv
<1> QED
    BY <1>1, <1>2, <1>3, PTL DEF MandateSpec

\* Authority narrows along any chain, with links of any implementation in it, as
\* long as patterns have no star but their last character.
THEOREM MandatesStaySafe ==
    ASSUME StarsEndNames
    PROVE  MandateSpec => []MandatesSafe
<1> DEFINE Inv == MandateInv /\ ScopesNarrow
<1>1. MandateInit => Inv
    BY MandateStarts, MandateConstants DEF MandateInit, ScopesNarrow
<1>2. Inv /\ [MandateNext]_mandateVars => Inv'
  <2> SUFFICES ASSUME Inv, [MandateNext]_mandateVars
               PROVE  Inv'
    OBVIOUS
  <2>1. MandateInv' /\ (links' = links \/ \E signed : Linked(signed))
    BY MandateSteps, MandateConstants
  <2>2. CASE links' = links
    BY <2>1, <2>2 DEF ScopesNarrow, Chained
  <2>3. CASE \E signed : Linked(signed)
    BY <2>1, <2>3, NarrowsOn, MandateConstants, StarsEndNames
  <2> QED
    BY <2>1, <2>2, <2>3
<1>3. Inv => MandatesSafe
    BY BuiltAccepted, ChainNarrows, MandateConstants DEF MandateInv, MandatesSafe
<1> QED
    BY <1>1, <1>2, <1>3, PTL DEF MandateSpec

-----------------------------------------------------------------------------
(***************************************************************************)
(* The second implementation of the host                                   *)
(***************************************************************************)
Done(c) == calls[c].at = "done"

\* How a handler's run ends.
Ends == {"success", "failure", "denied"}

\* Where a call is and what its events and its answer say of it.
CallTells(c) ==
    LET told == calls[c].answer
    IN  /\ calls[c].at = "idle" => calls[c].id = NoId /\ ~Started(c)
        /\ calls[c].at # "idle" => calls[c].id \in Ids
        /\ Inside(c) => Started(c)
        /\ Started(c) /\ calls[c].mandate => calls[c].id \in uses
        /\ Done(c) /\ told.by = c =>
              /\ calls[c].events # <<>>
              /\ calls[c].events[Len(calls[c].events)] = TerminalOf(told.outcome)
              /\ Started(c) => told.outcome \in Ends
        /\ Done(c) /\ told.by # c =>
              /\ ~Started(c) /\ calls[c].events = <<>>
              /\ told.by \in TwinCalls /\ Done(told.by)
              /\ calls[told.by].id = calls[c].id /\ calls[told.by].answer = told
              /\ Started(told.by) => stored[calls[c].id] = told

\* A record is the answer of the call that made it.
RecordTells(i) ==
    LET by == stored[i].by
    IN  stored[i] # NoRecord =>
            /\ by \in TwinCalls /\ Done(by)
            /\ calls[by].id = i /\ calls[by].answer = stored[i]

\* Of an identifier whose requests did not meet, one call at most has run, and its
\* end is the record.
RanAlone(i) ==
    \A c \in CallsOf(i) : Started(c) =>
        /\ \A d \in CallsOf(i) : Started(d) => c = d
        /\ Inside(c) => stored[i] = NoRecord
        /\ Done(c) => stored[i] = calls[c].answer

TwinInv ==
    /\ TwinTypeOK
    /\ \A c \in TwinCalls : CallTells(c)
    /\ \A i \in Ids : RecordTells(i)
    /\ \A i \in Ids \ crossed : RanAlone(i)
    /\ \A c \in running \cup acted : Started(c)
    /\ Cardinality(uses) <= UseCap
    /\ StartedEvents <= ActionCap

LEMMA TerminalIsNoStart ==
    ASSUME NEW outcome
    PROVE  TerminalOf(outcome) \in TwinEvents /\ TerminalOf(outcome) # "started"
<1>1. TerminalOf(outcome) \in {"completed", "failed", "skipped", "denied"}
  <2>1. CASE outcome = "success"
    BY <2>1 DEF TerminalOf
  <2>2. CASE outcome = "failure"
    BY <2>2 DEF TerminalOf
  <2>3. CASE outcome = "skipped"
    BY <2>3 DEF TerminalOf
  <2>4. CASE outcome # "success" /\ outcome # "failure" /\ outcome # "skipped"
    BY <2>4 DEF TerminalOf
  <2> QED
    BY <2>1, <2>2, <2>3, <2>4
<1> QED
    BY <1>1 DEF TwinEvents

\* What calls are, field by field.
LEMMA CallFields ==
    ASSUME TwinTypeOK, NEW c \in TwinCalls
    PROVE  /\ calls[c].at \in {"idle", "handler", "generator", "done"}
           /\ calls[c].id \in Ids \cup {NoId}
           /\ calls[c].mandate \in BOOLEAN
           /\ calls[c].events \in Seq(TwinEvents)
           /\ calls[c].answer \in TwinAnswers
           /\ DOMAIN calls = TwinCalls
BY DEF TwinTypeOK, CallRecords

\* What happens to the calls and records, whatever the operation: another call stays
\* as it is.
Only(c) ==
    /\ DOMAIN calls' = TwinCalls
    /\ calls' = [calls EXCEPT ![c] = calls'[c]]
    /\ \A d \in TwinCalls : d # c => calls'[d] = calls[d]

OnlyRecord(i) ==
    /\ DOMAIN stored' = Ids
    /\ \A j \in Ids : j # i => stored'[j] = stored[j]

\* The call is told what is recorded.
Replayed(c, r) ==
    /\ stored[r.id] # NoRecord
    /\ calls'[c] = [NewCall EXCEPT !.at = "done", !.id = r.id, !.answer = stored[r.id]]
    /\ UNCHANGED <<stored, running, uses>>

\* It runs, which no record stood against.
Executed(c, r) ==
    /\ stored[r.id] = NoRecord \/ stored[r.id].outcome = "approval_required"
    /\ StartedEvents < ActionCap
    /\ r.mandate => r.id \in uses'
    /\ calls'[c] = [NewCall EXCEPT !.at = "handler", !.id = r.id, !.stream = r.stream,
                                  !.mandate = r.mandate, !.events = <<"started">>]
    /\ OnlyRecord(r.id) /\ stored'[r.id] = NoRecord
    /\ running' = running \cup {c}

\* The gates stop it; only a demand for approval makes room for another record.
Refused(c, r, verdict) ==
    /\ verdict \in {"denied", "skipped", "approval_required"}
    /\ calls'[c] = [NewCall EXCEPT !.at = "done", !.id = r.id,
                                  !.events = <<TerminalOf(verdict)>>,
                                  !.answer = [outcome |-> verdict, by |-> c]]
    /\ OnlyRecord(r.id)
    /\ \/ stored'[r.id] = stored[r.id]
       \/ /\ stored[r.id] = NoRecord \/ stored[r.id].outcome = "approval_required"
          /\ stored'[r.id] \in {NoRecord, [outcome |-> verdict, by |-> c]}
    /\ running' = running

\* The first gate that does not let pass decides.
LEMMA Verdicts ==
    ASSUME NEW r, NEW pure \in PureAnswers
    PROVE  /\ Verdict(r, pure) \in {"denied", "replay", "skipped", "approval_required", "execute"}
           /\ Verdict(r, pure) = "replay" => Replays(r)
           /\ Verdict(r, pure) = "execute" =>
                 /\ pure # "scope" /\ Reaches(r, pure) /\ ~Replays(r)
                 /\ ~UsedUp(r) /\ ~(StartedEvents >= ActionCap)
BY DEF Verdict, Reaches, PureAnswers

LEMMA KeptMeans ==
    ASSUME TwinTypeOK, NEW r \in TwinRequests, NEW pure
    PROVE  LET kept == Kept(r, pure)
           IN  /\ DOMAIN kept = Ids
               /\ \A j \in Ids : j # r.id => kept[j] = stored[j]
               /\ \/ kept[r.id] = stored[r.id]
                  \/ kept[r.id] = NoRecord /\ stored[r.id].outcome = "approval_required"
BY DEF TwinTypeOK, Kept, Resumes, TwinRequests

LEMMA RecordMeans ==
    ASSUME NEW results, DOMAIN results = Ids, NEW i \in Ids, NEW outcome, NEW c
    PROVE  LET after == RecordResult(results, i, outcome, c)
           IN  /\ DOMAIN after = Ids
               /\ \A j \in Ids : j # i => after[j] = results[j]
               /\ results[i] # NoRecord => after[i] = results[i]
               /\ results[i] = NoRecord => after[i] = [outcome |-> outcome, by |-> c]
BY DEF RecordResult

LEMMA StartedCount ==
    /\ IsFiniteSet(TwinCalls) /\ IsFiniteSet(Ids)
    /\ \A some \in SUBSET TwinCalls : IsFiniteSet(some) /\ Cardinality(some) \in Nat
    /\ \A some \in SUBSET Ids : IsFiniteSet(some) /\ Cardinality(some) \in Nat
    /\ StartedEvents \in Nat
<1>1. IsFiniteSet(TwinCalls) /\ IsFiniteSet(Ids)
    BY TwinConstants, FS_Interval DEF TwinConstants, TwinCalls, Ids
<1>2. /\ \A some \in SUBSET TwinCalls : IsFiniteSet(some)
      /\ \A some \in SUBSET Ids : IsFiniteSet(some)
    BY <1>1, FS_Subset
<1>3. {c \in TwinCalls : Has(c, "started")} \in SUBSET TwinCalls
    OBVIOUS
<1> QED
    BY <1>1, <1>2, <1>3, FS_CardinalityType DEF StartedEvents

\* What a request does that arrives (Enter).
LEMMA EnterDoes ==
    ASSUME TwinTypeOK, NEW c \in TwinCalls, calls[c].at = "idle",
           NEW r \in TwinRequests, NEW pure \in PureAnswers, Enter(c, r, pure)
    PROVE  /\ Only(c)
           /\ stored' \in [Ids -> TwinAnswers]
           /\ uses' = uses \/ (uses' = uses \cup {r.id} /\ ~(Cardinality(uses) >= UseCap))
           /\ crossed \subseteq crossed'
           /\ (\E d \in CallsOf(r.id) : Inside(d)) => r.id \in crossed'
           /\ acted' = acted
           /\ \/ Replayed(c, r)
              \/ Executed(c, r)
              \/ \E verdict : Refused(c, r, verdict)
<1> DEFINE verdict == Verdict(r, pure)
           kept == Kept(r, pure)
<1>1. /\ verdict \in {"denied", "replay", "skipped", "approval_required", "execute"}
      /\ verdict = "replay" => Replays(r)
      /\ verdict = "execute" =>
            /\ pure # "scope" /\ Reaches(r, pure) /\ ~Replays(r)
            /\ ~UsedUp(r) /\ ~(StartedEvents >= ActionCap)
    BY Verdicts
<1>2. /\ DOMAIN kept = Ids
      /\ \A j \in Ids : j # r.id => kept[j] = stored[j]
      /\ \/ kept[r.id] = stored[r.id]
         \/ kept[r.id] = NoRecord /\ stored[r.id].outcome = "approval_required"
    BY KeptMeans
<1>3. r.id \in Ids /\ DOMAIN calls = TwinCalls /\ DOMAIN stored = Ids
    BY DEF TwinRequests, TwinTypeOK
<1>4. /\ uses' = IF verdict # "replay" /\ Charged(r, pure) THEN uses \cup {r.id} ELSE uses
      /\ crossed' = IF \E d \in CallsOf(r.id) : Inside(d) THEN crossed \cup {r.id} ELSE crossed
      /\ acted' = acted
    BY DEF Enter
<1>5. uses' = uses \/ (uses' = uses \cup {r.id} /\ ~(Cardinality(uses) >= UseCap))
  <2>1. uses' = uses \/ (uses' = uses \cup {r.id} /\ r.mandate /\ ~UsedUp(r))
    BY <1>4 DEF Charged
  <2>2. r.id \in uses => uses \cup {r.id} = uses
    OBVIOUS
  <2> QED
    BY <2>1, <2>2 DEF UsedUp
<1>6. \/ /\ verdict = "replay"
         /\ calls' = [calls EXCEPT ![c] =
               [NewCall EXCEPT !.at = "done", !.id = r.id, !.answer = stored[r.id]]]
         /\ UNCHANGED <<stored, running>>
      \/ /\ verdict = "execute"
         /\ calls' = [calls EXCEPT ![c] =
               [NewCall EXCEPT !.at = "handler", !.id = r.id, !.stream = r.stream,
                             !.mandate = r.mandate, !.events = <<"started">>]]
         /\ stored' = kept
         /\ running' = running \cup {c}
      \/ /\ verdict \notin {"replay", "execute"}
         /\ calls' = [calls EXCEPT ![c] =
               [NewCall EXCEPT !.at = "done", !.id = r.id, !.events = <<TerminalOf(verdict)>>,
                             !.answer = [outcome |-> verdict, by |-> c]]]
         /\ stored' = IF r.stream \/ pure = "scope" THEN kept
                      ELSE RecordResult(kept, r.id, verdict, c)
         /\ UNCHANGED running
    BY DEF Enter
<1>7. Only(c)
    BY <1>3, <1>6 DEF Only
<1>11. stored \in [Ids -> TwinAnswers] /\ kept \in [Ids -> TwinAnswers]
  <2>1. NoRecord \in TwinAnswers
    BY DEF NoRecord, TwinAnswers, Nobody
  <2> QED
    BY <1>3, <2>1 DEF TwinTypeOK, Kept
<1>8. CASE verdict = "replay"
  <2>1. Replayed(c, r)
    BY <1>1, <1>3, <1>4, <1>6, <1>8 DEF Replayed, Replays
  <2> QED
    BY <1>4, <1>5, <1>6, <1>7, <1>8, <1>11, <2>1
<1>9. CASE verdict = "execute"
  <2>1. stored[r.id] = NoRecord \/ stored[r.id].outcome = "approval_required"
    BY <1>1, <1>9 DEF Replays, Resumes
  <2>2. kept[r.id] = NoRecord
    BY <1>1, <1>3, <1>9 DEF Kept, Replays
  <2>3. r.mandate => r.id \in uses'
    BY <1>1, <1>4, <1>9 DEF Charged
  <2>4. StartedEvents < ActionCap
    BY <1>1, <1>9, TwinConstants, StartedCount DEF TwinConstants
  <2>5. Executed(c, r)
    BY <1>2, <1>3, <1>6, <1>9, <2>1, <2>2, <2>3, <2>4 DEF Executed, OnlyRecord
  <2> QED
    BY <1>4, <1>5, <1>6, <1>7, <1>9, <1>11, <2>5
<1>10. CASE verdict \notin {"replay", "execute"}
  <2> DEFINE after == RecordResult(kept, r.id, verdict, c)
  <2>1. /\ DOMAIN after = Ids
        /\ \A j \in Ids : j # r.id => after[j] = kept[j]
        /\ kept[r.id] # NoRecord => after[r.id] = kept[r.id]
        /\ kept[r.id] = NoRecord => after[r.id] = [outcome |-> verdict, by |-> c]
    BY <1>2, <1>3, RecordMeans
  <2>2. stored' = kept \/ stored' = after
    BY <1>6, <1>10
  <2>6. after \in [Ids -> TwinAnswers]
    <3>1. [outcome |-> verdict, by |-> c] \in TwinAnswers
        BY <1>1, <1>10 DEF TwinAnswers
    <3> QED
        BY <1>3, <1>11, <3>1 DEF RecordResult
  <2> HIDE DEF after, kept
  <2>3. OnlyRecord(r.id)
    BY <1>2, <2>1, <2>2 DEF OnlyRecord
  <2>4. \/ stored'[r.id] = stored[r.id]
        \/ /\ stored[r.id] = NoRecord \/ stored[r.id].outcome = "approval_required"
           /\ stored'[r.id] \in {NoRecord, [outcome |-> verdict, by |-> c]}
    BY <1>2, <2>1, <2>2
  <2>5. Refused(c, r, verdict)
    BY <1>1, <1>3, <1>6, <1>10, <2>3, <2>4 DEF Refused
  <2> QED
    BY <1>4, <1>5, <1>7, <1>11, <2>2, <2>5, <2>6
<1> QED
    BY <1>1, <1>8, <1>9, <1>10

\* A call that runs ends: it is answered, and recorded unless another one is.
Ended(c, outcome) ==
    /\ Inside(c) /\ outcome \in Ends
    /\ calls'[c].at = "done" /\ calls'[c].id = calls[c].id
    /\ calls'[c].mandate = calls[c].mandate /\ calls'[c].stream = calls[c].stream
    /\ calls'[c].events = Append(calls[c].events, TerminalOf(outcome))
    /\ calls'[c].answer = [outcome |-> outcome, by |-> c]
    /\ OnlyRecord(calls[c].id)
    /\ \/ /\ stored[calls[c].id] # NoRecord
          /\ stored'[calls[c].id] = stored[calls[c].id]
       \/ /\ stored[calls[c].id] = NoRecord
          /\ stored'[calls[c].id] = [outcome |-> outcome, by |-> c]

LEMMA CloseDoes ==
    ASSUME TwinInv, NEW c \in TwinCalls, Inside(c), NEW outcome \in Ends, Close(c, outcome)
    PROVE  /\ Only(c) /\ Ended(c, outcome) 
           /\ calls' \in [TwinCalls -> CallRecords] /\ stored' \in [Ids -> TwinAnswers]
           /\ UNCHANGED <<uses, acted, crossed>>
<1> DEFINE i == calls[c].id
           call == [calls[c] EXCEPT !.at = "done",
                                    !.events = Append(calls[c].events, TerminalOf(outcome)),
                                    !.answer = [outcome |-> outcome, by |-> c]]
<1>1. /\ calls' = [calls EXCEPT ![c] = call]
      /\ stored' = RecordResult(stored, i, outcome, c)
      /\ UNCHANGED <<uses, acted, crossed>>
    BY DEF Close
<1>2. /\ calls \in [TwinCalls -> CallRecords]
      /\ DOMAIN stored = Ids /\ i \in Ids
    BY DEF TwinInv, TwinTypeOK, CallTells, Inside
<1>3. [outcome |-> outcome, by |-> c] \in TwinAnswers
    BY DEF TwinAnswers, Ends
<1>4. Append(calls[c].events, TerminalOf(outcome)) \in Seq(TwinEvents)
    BY <1>2, TerminalIsNoStart DEF CallRecords
<1>5. /\ call \in CallRecords
      /\ call.at = "done" /\ call.id = i /\ call.mandate = calls[c].mandate
      /\ call.stream = calls[c].stream
      /\ call.events = Append(calls[c].events, TerminalOf(outcome))
      /\ call.answer = [outcome |-> outcome, by |-> c]
    BY <1>2, <1>3, <1>4 DEF CallRecords
<1> HIDE DEF call
<1>6. /\ calls'[c] = call /\ Only(c)
    BY <1>1, <1>2 DEF Only
<1>7. stored' \in [Ids -> TwinAnswers]
    BY <1>1, <1>2, <1>3 DEF TwinInv, TwinTypeOK, RecordResult
<1> QED
    BY <1>1, <1>2, <1>5, <1>6, <1>7, RecordMeans DEF Ended, OnlyRecord

\* The calls that do not move tell what they told, as long as records of runs stay.
LEMMA OthersTell ==
    ASSUME TwinInv, NEW c \in TwinCalls, Only(c), calls[c].at # "done", uses \subseteq uses',
           \A i \in Ids : stored[i] # NoRecord /\ stored[i].outcome \in Ends
                             => stored'[i] = stored[i],
           NEW d \in TwinCalls, d # c
    PROVE  CallTells(d)'
<1>1. CallTells(d) /\ calls'[d] = calls[d]
    BY DEF TwinInv, Only
<1>2. Started(d)' <=> Started(d)
    BY <1>1 DEF Started, Has
<1>3. ASSUME Done(d), NEW by, by = calls[d].answer.by, by # d
      PROVE  /\ ~Started(d) /\ calls[d].events = <<>>
             /\ by \in TwinCalls /\ Done(by)' /\ (Started(by)' <=> Started(by))
             /\ calls'[by].id = calls[d].id /\ calls'[by].answer = calls[d].answer
             /\ Started(by) => stored'[calls[d].id] = calls[d].answer
  <2>1. /\ ~Started(d) /\ calls[d].events = <<>> /\ by \in TwinCalls /\ Done(by)
        /\ calls[by].id = calls[d].id /\ calls[by].answer = calls[d].answer
        /\ Started(by) => stored[calls[d].id] = calls[d].answer
    BY <1>1, <1>3 DEF CallTells
  <2>2. by # c /\ calls'[by] = calls[by]
    BY <2>1 DEF Done, Only
  <2>3. (Started(by)' <=> Started(by)) /\ Done(by)'
    BY <2>1, <2>2 DEF Started, Has, Done
  <2>4. ASSUME Started(by)
        PROVE  stored'[calls[d].id] = calls[d].answer
    <3>1. CallTells(by) /\ calls[by].answer.by = by
        BY <1>3, <2>1 DEF TwinInv
    <3>2. calls[d].answer.outcome \in Ends
        BY <2>1, <2>4, <3>1 DEF CallTells
    <3>3. calls[d].id \in Ids /\ stored[calls[d].id] = calls[d].answer
        BY <1>1, <1>3, <2>1, <2>4 DEF CallTells, Done
    <3>4. stored[calls[d].id] # NoRecord
        BY <3>2, <3>3 DEF NoRecord, Ends
    <3> QED
        BY <3>2, <3>3, <3>4
  <2> QED
    BY <2>1, <2>2, <2>3, <2>4
<1>4. (Inside(d)' <=> Inside(d)) /\ (Done(d)' <=> Done(d))
    BY <1>1 DEF Inside, Done
<1>5. CASE ~Done(d) \/ calls[d].answer.by = d
    BY <1>1, <1>2, <1>4, <1>5 DEF CallTells
<1>6. CASE Done(d) /\ calls[d].answer.by # d
  <2>1. PICK by : by = calls[d].answer.by
    OBVIOUS
  <2>2. /\ by # d /\ by = calls'[d].answer.by
    BY <1>1, <1>6, <2>1
  <2>3. /\ by \in TwinCalls /\ Done(by)' /\ (Started(by)' <=> Started(by))
        /\ calls'[by].id = calls[d].id /\ calls'[by].answer = calls[d].answer
        /\ Started(by) => stored'[calls[d].id] = calls[d].answer
    BY <1>3, <1>6, <2>1, <2>2
  <2>4. /\ calls'[d].answer.by \in TwinCalls /\ calls'[calls'[d].answer.by].at = "done"
        /\ (\E n \in DOMAIN calls'[calls'[d].answer.by].events :
               calls'[calls'[d].answer.by].events[n] = "started") <=> Started(by)'
    BY <2>2, <2>3 DEF Done, Started, Has
  <2> QED
    BY <1>1, <1>2, <1>3, <1>4, <1>6, <2>1, <2>2, <2>3, <2>4 DEF CallTells, Started, Has, Done
<1> QED
    BY <1>5, <1>6

\* A record that stays, or is none, or is that of the call that is answered now,
\* tells the answer of who made it.
LEMMA RecordsTell ==
    ASSUME TwinInv, NEW c \in TwinCalls, Only(c), calls[c].at # "done",
           NEW i \in Ids,
           \/ stored'[i] = stored[i] \/ stored'[i] = NoRecord
           \/ /\ stored'[i].by = c /\ Done(c)'
              /\ calls'[c].id = i /\ calls'[c].answer = stored'[i]
    PROVE  RecordTells(i)'
<1>1. CASE stored'[i] = stored[i]
  <2>1. stored[i] # NoRecord => stored[i].by # c /\ calls'[stored[i].by] = calls[stored[i].by]
    BY DEF TwinInv, RecordTells, Done, Only
  <2> QED
    BY <1>1, <2>1 DEF TwinInv, RecordTells, Done
<1>2. CASE stored'[i] = NoRecord
    BY <1>2 DEF RecordTells
<1>3. CASE /\ stored'[i].by = c /\ Done(c)'
           /\ calls'[c].id = i /\ calls'[c].answer = stored'[i]
    BY <1>3 DEF RecordTells, Done
<1> QED
    BY <1>1, <1>2, <1>3

\* Identifiers of which nothing moves.
LEMMA AloneElsewhere ==
    ASSUME TwinInv, NEW c \in TwinCalls, Only(c), NEW i \in Ids \ crossed,
           calls'[c].id # i, stored'[i] = stored[i]
    PROVE  RanAlone(i)'
<1>1. RanAlone(i)
    BY DEF TwinInv
<1>2. ASSUME NEW d \in TwinCalls, calls'[d].id = i
      PROVE  d \in CallsOf(i) /\ calls'[d] = calls[d]
    BY <1>2 DEF CallsOf, Only
<1> QED
    BY <1>1, <1>2 DEF RanAlone, CallsOf, Started, Has, Inside, Done

\* A call that comes and does not run, of an identifier that nobody runs now.
LEMMA AloneUnrun ==
    ASSUME TwinInv, NEW c \in TwinCalls, Only(c), NEW i \in Ids \ crossed,
           calls'[c].id = i, ~Started(c)', \A d \in CallsOf(i) : ~Inside(d),
           stored[i] # NoRecord /\ stored[i].outcome \in Ends => stored'[i] = stored[i]
    PROVE  RanAlone(i)'
<1>1. RanAlone(i)
    BY DEF TwinInv
<1>2. ASSUME NEW d \in TwinCalls, calls'[d].id = i, Started(d)'
      PROVE  d \in CallsOf(i) /\ calls'[d] = calls[d] /\ Started(d)
  <2>1. d # c /\ calls'[d] = calls[d]
    BY <1>2 DEF Only, Started
  <2> QED
    BY <1>2, <2>1 DEF CallsOf, Started, Has
<1>3. ASSUME NEW d \in CallsOf(i), Started(d)
      PROVE  Done(d) /\ stored'[i] = stored[i] /\ ~Inside(d)
  <2>1. /\ CallTells(d) /\ calls[d].at \in {"idle", "handler", "generator", "done"}
    BY CallFields DEF TwinInv, CallsOf
  <2>2. Done(d)
    BY <1>3, <2>1 DEF CallTells, Inside, Done
  <2>3. stored[i] = calls[d].answer
    BY <1>1, <1>3, <2>2 DEF RanAlone
  <2>4. calls[d].answer.by = d /\ calls[d].answer.outcome \in Ends
    BY <1>3, <2>1, <2>2 DEF CallTells
  <2>5. stored[i] # NoRecord
    BY <2>3, <2>4 DEF NoRecord, Ends
  <2> QED
    BY <2>2, <2>3, <2>4, <2>5
<1> QED
    BY <1>1, <1>2, <1>3 DEF RanAlone, CallsOf, Inside, Done

\* A call that runs, which no record stood against: nobody ran before.
LEMMA AloneRun ==
    ASSUME TwinInv, NEW c \in TwinCalls, Only(c), NEW i \in Ids \ crossed,
           calls'[c].id = i, calls'[c].at = "handler", \A d \in CallsOf(i) : ~Inside(d),
           stored[i] = NoRecord \/ stored[i].outcome = "approval_required",
           stored'[i] = NoRecord
    PROVE  RanAlone(i)'
<1>1. RanAlone(i)
    BY DEF TwinInv
<1>2. ASSUME NEW d \in CallsOf(i), Started(d)
      PROVE  FALSE
  <2>1. /\ CallTells(d) /\ calls[d].at \in {"idle", "handler", "generator", "done"}
    BY CallFields DEF TwinInv, CallsOf
  <2>2. Done(d)
    BY <1>2, <2>1 DEF CallTells, Inside, Done
  <2>3. stored[i] = calls[d].answer
    BY <1>1, <1>2, <2>2 DEF RanAlone
  <2>4. calls[d].answer.by = d /\ calls[d].answer.outcome \in Ends
    BY <1>2, <2>1, <2>2 DEF CallTells
  <2>5. stored[i] # NoRecord /\ stored[i].outcome # "approval_required"
    BY <2>3, <2>4 DEF NoRecord, Ends
  <2> QED
    BY <2>5
<1>3. ASSUME NEW d \in TwinCalls, calls'[d].id = i, Started(d)'
      PROVE  d = c
    BY <1>2, <1>3 DEF CallsOf, Only, Started, Has
<1> QED
    BY <1>3 DEF RanAlone, CallsOf, Done

\* A call that ends, which alone has run, is the record.
LEMMA AloneEnds ==
    ASSUME TwinInv, NEW c \in TwinCalls, Only(c), NEW i \in Ids \ crossed,
           i = calls[c].id, NEW outcome, Ended(c, outcome)
    PROVE  RanAlone(i)'
<1>1. RanAlone(i) /\ Started(c) /\ c \in CallsOf(i)
    BY DEF TwinInv, CallTells, Ended, CallsOf
<1>2. stored'[i] = calls'[c].answer
    BY <1>1 DEF RanAlone, Ended
<1>3. ASSUME NEW d \in TwinCalls, calls'[d].id = i, Started(d)'
      PROVE  d = c
  <2> SUFFICES ASSUME d # c
               PROVE  FALSE
    OBVIOUS
  <2>1. d \in CallsOf(i) /\ Started(d)
    BY <1>3 DEF CallsOf, Only, Started, Has
  <2> QED
    BY <1>1, <2>1 DEF RanAlone
<1> QED
    BY <1>2, <1>3 DEF RanAlone, CallsOf, Inside, Ended

LEMMA OneMore ==
    ASSUME NEW some, IsFiniteSet(some), NEW x, NEW cap \in Nat, ~(Cardinality(some) >= cap)
    PROVE  IsFiniteSet(some \cup {x}) /\ Cardinality(some \cup {x}) <= cap
<1>1. Cardinality(some) \in Nat
    BY FS_CardinalityType
<1>2. /\ IsFiniteSet(some \cup {x})
      /\ \/ Cardinality(some \cup {x}) = Cardinality(some)
         \/ Cardinality(some \cup {x}) = Cardinality(some) + 1
    BY FS_AddElement, Zenon
<1> QED
    BY <1>1, <1>2

\* The calls with a start event stay, but for one that may be new.
LEMMA StartsStep ==
    ASSUME TwinInv, NEW c \in TwinCalls, Only(c),
           Started(c)' => (Started(c) \/ StartedEvents < ActionCap)
    PROVE  StartedEvents' <= ActionCap
<1> DEFINE before == {d \in TwinCalls : Has(d, "started")}
           after == {d \in TwinCalls : Has(d, "started")'}
<1>1. /\ IsFiniteSet(before) /\ IsFiniteSet(after) /\ ActionCap \in Nat
      /\ StartedEvents = Cardinality(before) /\ StartedEvents' = Cardinality(after)
      /\ Cardinality(before) \in Nat /\ Cardinality(after) \in Nat
      /\ Cardinality(before) <= ActionCap
    BY StartedCount, TwinConstants DEF StartedEvents, TwinConstants, TwinInv
<1>2. \A d \in TwinCalls : d # c => (Has(d, "started")' <=> Has(d, "started"))
    BY DEF Only, Has
<1>3. CASE Started(c) \/ ~Started(c)'
  <2>1. after \subseteq before
    BY <1>2, <1>3 DEF Started
  <2>2. Cardinality(after) <= Cardinality(before)
    BY <1>1, <2>1, FS_Subset
  <2> QED
    BY <1>1, <2>2
<1>4. CASE StartedEvents < ActionCap
  <2>1. after \subseteq before \cup {c}
    BY <1>2
  <2>2. ~(Cardinality(before) >= ActionCap)
    BY <1>1, <1>4
  <2> HIDE DEF before, after
  <2>3. IsFiniteSet(before \cup {c}) /\ Cardinality(before \cup {c}) <= ActionCap
    BY <1>1, <2>2, OneMore
  <2>4. Cardinality(after) <= Cardinality(before \cup {c}) /\ Cardinality(before \cup {c}) \in Nat
    BY <2>1, <2>3, FS_Subset, FS_CardinalityType
  <2> QED
    BY <1>1, <2>3, <2>4
<1> QED
    BY <1>3, <1>4

LEMMA UsesStep ==
    ASSUME TwinInv, NEW i \in Ids,
           uses' = uses \/ (uses' = uses \cup {i} /\ ~(Cardinality(uses) >= UseCap))
    PROVE  uses \subseteq uses' /\ uses' \subseteq Ids /\ Cardinality(uses') <= UseCap
<1>1. /\ uses \subseteq Ids /\ IsFiniteSet(uses) /\ UseCap \in Nat
      /\ Cardinality(uses) <= UseCap
    BY StartedCount, TwinConstants DEF TwinInv, TwinTypeOK, TwinConstants
<1>2. CASE uses' = uses
    BY <1>1, <1>2
<1>3. CASE uses' = uses \cup {i} /\ ~(Cardinality(uses) >= UseCap)
    BY <1>1, <1>3, OneMore
<1> QED
    BY <1>2, <1>3

\* The arrival of a call, of each kind.
LEMMA ReplayedStep ==
    ASSUME TwinInv, NEW c \in TwinCalls, calls[c].at = "idle", Only(c),
           NEW r \in TwinRequests, Replayed(c, r), crossed \subseteq crossed', acted' = acted,
           (\E d \in CallsOf(r.id) : Inside(d)) => r.id \in crossed'
    PROVE  TwinInv'
<1>1. /\ r.id \in Ids /\ stored[r.id] \in TwinAnswers /\ stored[r.id] # NoRecord
      /\ <<>> \in Seq(TwinEvents)
    BY DEF TwinRequests, TwinInv, TwinTypeOK, Replayed
<1>2. /\ calls'[c].at = "done" /\ calls'[c].id = r.id /\ calls'[c].answer = stored[r.id]
      /\ calls'[c].events = <<>> /\ calls'[c] \in CallRecords
    BY <1>1 DEF Replayed, NewCall, CallRecords
<1>3. ~Started(c)'
    BY <1>2 DEF Started, Has
<1>4. TwinTypeOK'
    BY <1>2 DEF TwinInv, TwinTypeOK, Only, Replayed
<1>5. PICK by : by = stored[r.id].by
    OBVIOUS
<1>6. /\ by \in TwinCalls /\ Done(by) /\ calls[by].id = r.id /\ calls[by].answer = stored[r.id]
      /\ calls'[by] = calls[by] /\ by # c
    BY <1>1, <1>5 DEF TwinInv, RecordTells, Only, Done
<1>7. CallTells(c)'
    BY <1>1, <1>2, <1>3, <1>5, <1>6 DEF CallTells, Inside, Done, Started, Has, Replayed
<1>8. ASSUME NEW d \in TwinCalls
      PROVE  CallTells(d)'
    BY <1>7, OthersTell DEF Replayed
<1>9. ASSUME NEW i \in Ids
      PROVE  RecordTells(i)'
    BY RecordsTell DEF Replayed
<1>10. ASSUME NEW i \in Ids \ crossed'
       PROVE  RanAlone(i)'
  <2>1. i \in Ids \ crossed /\ stored'[i] = stored[i]
    BY DEF Replayed
  <2>2. CASE i = r.id
    BY <1>2, <1>3, <1>10, <2>1, <2>2, AloneUnrun
  <2>3. CASE i # r.id
    BY <1>2, <2>1, <2>3, AloneElsewhere
  <2> QED
    BY <2>2, <2>3
<1>11. \A d \in running' \cup acted' : Started(d)'
    BY DEF TwinInv, TwinTypeOK, Replayed, Only, CallTells, Started, Has
<1>12. StartedEvents' <= ActionCap /\ Cardinality(uses') <= UseCap
    BY <1>3, StartsStep DEF TwinInv, Replayed
<1> QED
    BY <1>4, <1>8, <1>9, <1>10, <1>11, <1>12 DEF TwinInv

LEMMA ExecutedStep ==
    ASSUME TwinInv, stored' \in [Ids -> TwinAnswers],
           NEW c \in TwinCalls, calls[c].at = "idle", Only(c),
           NEW r \in TwinRequests, Executed(c, r), crossed \subseteq crossed', acted' = acted,
           (\E d \in CallsOf(r.id) : Inside(d)) => r.id \in crossed',
           uses \subseteq uses', uses' \subseteq Ids, Cardinality(uses') <= UseCap
    PROVE  TwinInv'
<1>1. /\ r.id \in Ids /\ r.stream \in BOOLEAN /\ r.mandate \in BOOLEAN
      /\ NewCall.answer \in TwinAnswers /\ <<"started">> \in Seq(TwinEvents)
    BY DEF TwinRequests, NewCall, NoRecord, TwinAnswers, TwinEvents, Nobody
<1>2. /\ calls'[c].at = "handler" /\ calls'[c].id = r.id /\ calls'[c].mandate = r.mandate
      /\ calls'[c].events = <<"started">> /\ calls'[c] \in CallRecords
    BY <1>1 DEF Executed, NewCall, CallRecords
<1>3. Started(c)'
    BY <1>2 DEF Started, Has
<1>5. TwinTypeOK'
    BY <1>2 DEF TwinInv, TwinTypeOK, Only, Executed
<1>6. CallTells(c)'
    BY <1>1, <1>2, <1>3 DEF CallTells, Inside, Done, Started, Executed
<1>7. \A i \in Ids : stored[i] # NoRecord /\ stored[i].outcome \in Ends => stored'[i] = stored[i]
    BY DEF Executed, OnlyRecord, Ends
<1>8. ASSUME NEW d \in TwinCalls
      PROVE  CallTells(d)'
    BY <1>6, <1>7, OthersTell
<1>9. ASSUME NEW i \in Ids
      PROVE  RecordTells(i)'
  <2>1. stored'[i] = stored[i] \/ stored'[i] = NoRecord
    BY DEF Executed, OnlyRecord
  <2> QED
    BY <2>1, RecordsTell
<1>10. ASSUME NEW i \in Ids \ crossed'
       PROVE  RanAlone(i)'
  <2>1. i \in Ids \ crossed
    OBVIOUS
  <2>2. CASE i = r.id
    BY <1>2, <1>10, <2>1, <2>2, AloneRun DEF Executed
  <2>3. CASE i # r.id
    BY <1>2, <2>1, <2>3, AloneElsewhere DEF Executed, OnlyRecord
  <2> QED
    BY <2>2, <2>3
<1>11. ASSUME NEW d \in running' \cup acted'
       PROVE  Started(d)'
  <2> SUFFICES ASSUME d # c
               PROVE  Started(d)'
    BY <1>3
  <2>1. Started(d) /\ d \in TwinCalls
    BY DEF TwinInv, TwinTypeOK, Executed
  <2> QED
    BY <2>1 DEF Only, Started, Has
<1>12. StartedEvents' <= ActionCap
    BY StartsStep DEF Executed
<1> QED
    BY <1>5, <1>8, <1>9, <1>10, <1>11, <1>12 DEF TwinInv

LEMMA RefusedStep ==
    ASSUME TwinInv, stored' \in [Ids -> TwinAnswers],
           NEW c \in TwinCalls, calls[c].at = "idle", Only(c),
           NEW r \in TwinRequests, NEW verdict, Refused(c, r, verdict),
           crossed \subseteq crossed', acted' = acted,
           (\E d \in CallsOf(r.id) : Inside(d)) => r.id \in crossed',
           uses \subseteq uses', uses' \subseteq Ids, Cardinality(uses') <= UseCap
    PROVE  TwinInv'
<1> DEFINE told == [outcome |-> verdict, by |-> c]
           said == <<TerminalOf(verdict)>>
<1>1. /\ r.id \in Ids /\ told \in TwinAnswers /\ told.outcome = verdict /\ told.by = c
      /\ verdict \notin {"success", "failure"} /\ TerminalOf(verdict) # "started"
      /\ said \in Seq(TwinEvents) /\ Len(said) = 1 /\ said[1] = TerminalOf(verdict)
      /\ DOMAIN said = {1} /\ said # <<>>
    BY TerminalIsNoStart DEF TwinRequests, TwinAnswers, Refused
<1>2. /\ calls'[c].at = "done" /\ calls'[c].id = r.id /\ calls'[c].answer = told
      /\ calls'[c].events = said /\ calls'[c].mandate = FALSE /\ calls'[c] \in CallRecords
  <2> HIDE DEF told, said
  <2>1. calls'[c] = [NewCall EXCEPT !.at = "done", !.id = r.id, !.events = said, !.answer = told]
    BY DEF Refused, told, said
  <2> QED
    BY <1>1, <2>1 DEF NewCall, CallRecords
<1> HIDE DEF told, said
<1>3. ~Started(c)'
    BY <1>1, <1>2 DEF Started, Has
<1>5. TwinTypeOK'
    BY <1>2 DEF TwinInv, TwinTypeOK, Only, Refused
<1>6. CallTells(c)'
    BY <1>1, <1>2, <1>3 DEF CallTells, Inside, Done, Started
<1>7. \A i \in Ids : stored[i] # NoRecord /\ stored[i].outcome \in Ends => stored'[i] = stored[i]
    BY DEF Refused, OnlyRecord, Ends
<1>8. ASSUME NEW d \in TwinCalls
      PROVE  CallTells(d)'
    BY <1>6, <1>7, OthersTell
<1>9. ASSUME NEW i \in Ids
      PROVE  RecordTells(i)'
  <2>1. \/ stored'[i] = stored[i] \/ stored'[i] = NoRecord
        \/ i = r.id /\ stored'[i] = told
    BY DEF Refused, OnlyRecord, told
  <2>2. Done(c)'
    BY <1>2 DEF Done
  <2> QED
    BY <1>1, <1>2, <2>1, <2>2, RecordsTell
<1>10. ASSUME NEW i \in Ids \ crossed'
       PROVE  RanAlone(i)'
  <2>1. i \in Ids \ crossed
    OBVIOUS
  <2>2. CASE i = r.id
    BY <1>2, <1>3, <1>7, <1>10, <2>1, <2>2, AloneUnrun
  <2>3. CASE i # r.id
    BY <1>2, <2>1, <2>3, AloneElsewhere DEF Refused, OnlyRecord
  <2> QED
    BY <2>2, <2>3
<1>11. ASSUME NEW d \in running' \cup acted'
       PROVE  Started(d)'
  <2>1. Started(d) /\ d \in TwinCalls
    BY DEF TwinInv, TwinTypeOK, Refused
  <2>2. d # c
    BY <2>1 DEF TwinInv, CallTells
  <2> QED
    BY <2>1, <2>2 DEF Only, Started, Has
<1>12. StartedEvents' <= ActionCap
    BY <1>3, StartsStep
<1> QED
    BY <1>5, <1>8, <1>9, <1>10, <1>11, <1>12 DEF TwinInv

\* The end of a call, on time or not.
LEMMA EndedStep ==
    ASSUME TwinInv, stored' \in [Ids -> TwinAnswers], calls' \in [TwinCalls -> CallRecords],
           NEW c \in TwinCalls, Only(c), NEW outcome, Ended(c, outcome),
           running' \subseteq running, UNCHANGED <<uses, acted, crossed>>
    PROVE  TwinInv'
<1>1. /\ CallTells(c) /\ Started(c) /\ calls[c].at # "done" /\ calls[c].id \in Ids
      /\ calls[c].events \in Seq(TwinEvents)
    BY CallFields DEF TwinInv, CallTells, Ended, Inside
<1>2. Started(c)'
    BY <1>1 DEF Started, Has, Ended
<1>3. TwinTypeOK'
    BY DEF TwinInv, TwinTypeOK
<1>4. CallTells(c)'
  <2> DEFINE said == Append(calls[c].events, TerminalOf(outcome))
  <2>1. said # <<>> /\ said[Len(said)] = TerminalOf(outcome)
    BY <1>1
  <2>2. /\ calls'[c].events = said /\ calls'[c].answer.by = c
        /\ calls'[c].answer.outcome = outcome /\ outcome \in Ends
    BY DEF Ended
  <2> HIDE DEF said
  <2> QED
    BY <1>1, <1>2, <2>1, <2>2 DEF CallTells, Ended, Inside, Done, Started
<1>5. \A i \in Ids : stored[i] # NoRecord => stored'[i] = stored[i]
    BY DEF Ended, OnlyRecord
<1>6. ASSUME NEW d \in TwinCalls
      PROVE  CallTells(d)'
    BY <1>1, <1>4, <1>5, OthersTell
<1>7. ASSUME NEW i \in Ids
      PROVE  RecordTells(i)'
  <2>1. \/ stored'[i] = stored[i]
        \/ /\ stored'[i].by = c /\ Done(c)'
           /\ calls'[c].id = i /\ calls'[c].answer = stored'[i]
    BY DEF Ended, OnlyRecord, Done
  <2> QED
    BY <1>1, <2>1, RecordsTell
<1>8. ASSUME NEW i \in Ids \ crossed'
      PROVE  RanAlone(i)'
  <2>1. i \in Ids \ crossed
    OBVIOUS
  <2>2. CASE i = calls[c].id
    BY <2>1, <2>2, AloneEnds
  <2>3. CASE i # calls[c].id
    BY <2>1, <2>3, AloneElsewhere DEF Ended, OnlyRecord
  <2> QED
    BY <2>2, <2>3
<1>9. ASSUME NEW d \in running' \cup acted'
      PROVE  Started(d)'
  <2> SUFFICES ASSUME d # c
               PROVE  Started(d)'
    BY <1>2
  <2>1. Started(d) /\ d \in TwinCalls
    BY DEF TwinInv, TwinTypeOK
  <2> QED
    BY <2>1 DEF Only, Started, Has
<1>10. StartedEvents' <= ActionCap
    BY <1>1, StartsStep
<1> QED
    BY <1>3, <1>6, <1>7, <1>8, <1>9, <1>10 DEF TwinInv

\* A handler that goes on as a generator, or acts.
LEMMA GeneratorStep ==
    ASSUME TwinInv, NEW c \in TwinCalls, Generator(c)
    PROVE  TwinInv'
<1>1. /\ calls' = [calls EXCEPT ![c].at = "generator"] /\ calls[c].at = "handler"
      /\ UNCHANGED <<stored, uses, guarded, running, acted, crossed>>
      /\ calls \in [TwinCalls -> CallRecords] /\ calls[c] \in CallRecords
    BY DEF Generator, TwinInv, TwinTypeOK
<1>2. /\ Only(c) /\ calls'[c].at = "generator" /\ calls'[c].id = calls[c].id
      /\ calls'[c].events = calls[c].events /\ calls'[c].mandate = calls[c].mandate
      /\ calls' \in [TwinCalls -> CallRecords]
    BY <1>1 DEF Only, CallRecords
<1>3. \A d \in TwinCalls : Started(d)' <=> Started(d)
    BY <1>2 DEF Only, Started, Has
<1>4. TwinTypeOK'
    BY <1>1, <1>2 DEF TwinInv, TwinTypeOK
<1>5. CallTells(c)'
    BY <1>1, <1>2, <1>3 DEF TwinInv, CallTells, Inside, Done
<1>6. ASSUME NEW d \in TwinCalls
      PROVE  CallTells(d)'
    BY <1>1, <1>2, <1>5, OthersTell
<1>7. ASSUME NEW i \in Ids
      PROVE  RecordTells(i)'
    BY <1>1, <1>2, RecordsTell
<1>8. ASSUME NEW i \in Ids \ crossed'
      PROVE  RanAlone(i)'
  <2>1. RanAlone(i)
    BY <1>1 DEF TwinInv
  <2>2. ASSUME NEW d \in TwinCalls
        PROVE  /\ calls'[d].id = calls[d].id
               /\ Inside(d)' => Inside(d)
               /\ Done(d)' => Done(d) /\ calls'[d] = calls[d]
    BY <1>1, <1>2 DEF Only, Inside, Done
  <2>3. CallsOf(i)' = CallsOf(i)
    BY <2>2 DEF CallsOf
  <2> SUFFICES ASSUME NEW d \in CallsOf(i), Started(d)'
               PROVE  /\ \A e \in CallsOf(i) : Started(e)' => d = e
                      /\ Inside(d)' => stored'[i] = NoRecord
                      /\ Done(d)' => stored'[i] = calls'[d].answer
    BY <2>3 DEF RanAlone
  <2>4. \A e \in CallsOf(i) : e \in TwinCalls /\ (Started(e)' <=> Started(e))
    BY <1>3 DEF CallsOf
  <2> QED
    BY <1>1, <2>1, <2>2, <2>4 DEF RanAlone
<1>9. StartedEvents' <= ActionCap
    BY <1>2, <1>3, StartsStep
<1> QED
    BY <1>1, <1>3, <1>4, <1>6, <1>7, <1>8, <1>9 DEF TwinInv, TwinTypeOK

LEMMA UnseenStep ==
    ASSUME TwinInv, UNCHANGED <<calls, stored, uses, crossed>>,
           running' \subseteq running, \A d \in acted' : d \in running \cup acted
    PROVE  TwinInv'
BY DEF TwinInv, TwinTypeOK, CallTells, RecordTells, RanAlone, StartedEvents, Started, Has,
       CallsOf, Inside, Done

LEMMA EnterStep ==
    ASSUME TwinInv, NEW c \in Arriving, NEW r \in TwinRequests, NEW pure \in PureAnswers,
           Enter(c, r, pure)
    PROVE  TwinInv'
<1>1. c \in TwinCalls /\ calls[c].at = "idle" /\ TwinTypeOK /\ r.id \in Ids
    BY DEF Arriving, TwinInv, TwinRequests
<1>2. /\ Only(c) /\ stored' \in [Ids -> TwinAnswers]
      /\ uses' = uses \/ (uses' = uses \cup {r.id} /\ ~(Cardinality(uses) >= UseCap))
      /\ crossed \subseteq crossed'
      /\ (\E d \in CallsOf(r.id) : Inside(d)) => r.id \in crossed'
      /\ acted' = acted
      /\ Replayed(c, r) \/ Executed(c, r) \/ \E verdict : Refused(c, r, verdict)
    BY <1>1, EnterDoes
<1>3. uses \subseteq uses' /\ uses' \subseteq Ids /\ Cardinality(uses') <= UseCap
    BY <1>1, <1>2, UsesStep
<1> QED
    BY <1>1, <1>2, <1>3, ReplayedStep, ExecutedStep, RefusedStep

LEMMA TwinStep ==
    ASSUME TwinInv, [TwinNext]_twinVars
    PROVE  TwinInv'
<1>1. ASSUME NEW c \in TwinCalls, Act(c) \/ EndLate(c) \/ UNCHANGED twinVars
      PROVE  TwinInv'
  <2>1. /\ UNCHANGED <<calls, stored, uses, crossed>> /\ running' \subseteq running
        /\ \A d \in acted' : d \in running \cup acted
    BY <1>1 DEF Act, EndLate, twinVars
  <2> QED
    BY <2>1, UnseenStep
<1>2. CASE UNCHANGED twinVars
    BY <1>2, UnseenStep DEF twinVars
<1>3. ASSUME NEW c \in TwinCalls, End(c) \/ TimeOut(c)
      PROVE  TwinInv'
  <2>1. Inside(c) /\ running' \subseteq running
    BY <1>3 DEF End, TimeOut, Inside
  <2>2. \E outcome \in Ends : Close(c, outcome)
    BY <1>3 DEF End, TimeOut, Ends
  <2> QED
    BY <2>1, <2>2, CloseDoes, EndedStep
<1> QED
    BY <1>1, <1>2, <1>3, EnterStep, GeneratorStep DEF TwinNext

LEMMA TwinStarts == TwinInit => TwinInv
<1> SUFFICES ASSUME TwinInit
             PROVE  TwinInv
    OBVIOUS
<1>1. /\ calls = [c \in TwinCalls |-> NewCall] /\ stored = [i \in Ids |-> NoRecord]
      /\ uses = {} /\ running = {} /\ acted = {} /\ guarded \in BOOLEAN
    BY DEF TwinInit
<1>2. NewCall \in CallRecords /\ NoRecord \in TwinAnswers
  <2>1. NoRecord \in TwinAnswers
    BY DEF NoRecord, TwinAnswers, Nobody
  <2> QED
    BY <2>1 DEF NewCall, CallRecords
<1>3. TwinTypeOK
    BY <1>1, <1>2 DEF TwinTypeOK
<1>4. \A c \in TwinCalls : calls[c].at = "idle" /\ calls[c].id = NoId /\ ~Started(c)
    BY <1>1 DEF NewCall, Started, Has
<1>5. /\ \A c \in TwinCalls : CallTells(c)
      /\ \A i \in Ids : RecordTells(i) /\ RanAlone(i)
    BY <1>1, <1>4 DEF CallTells, RecordTells, RanAlone, Inside, Done, CallsOf
<1>6. Cardinality(uses) <= UseCap /\ StartedEvents <= ActionCap
  <2>1. UseCap \in Nat /\ ActionCap \in Nat
    BY TwinConstants DEF TwinConstants
  <2>2. {c \in TwinCalls : Has(c, "started")} = {}
    BY <1>4 DEF Started
  <2>3. StartedEvents = 0 /\ Cardinality(uses) = 0
    BY <1>1, <2>2, FS_EmptySet DEF StartedEvents
  <2> QED
    BY <2>1, <2>3
<1> QED
    BY <1>1, <1>3, <1>5, <1>6 DEF TwinInv

\* The invariant says all that is asked of the second implementation.
LEMMA TwinInvSuffices == ASSUME TwinInv PROVE TwinSafe
<1> USE DEF TwinInv
<1>1. CapsHold
  <2> DEFINE charged == {calls[c].id : c \in {d \in TwinCalls : Started(d) /\ calls[d].mandate}}
  <2>1. charged \subseteq uses
    BY DEF CallTells
  <2>2. IsFiniteSet(uses) /\ UseCap \in Nat
    BY StartedCount, TwinConstants DEF TwinTypeOK, TwinConstants
  <2> HIDE DEF charged
  <2>3. /\ Cardinality(charged) <= Cardinality(uses) /\ Cardinality(charged) \in Nat
        /\ Cardinality(uses) \in Nat /\ Cardinality(uses) <= UseCap
    BY <2>1, <2>2, FS_Subset, FS_CardinalityType
  <2>4. Cardinality(charged) <= UseCap
    BY <2>2, <2>3
  <2> QED
    BY <2>4 DEF CapsHold, charged
<1>2. RunsOnce
    BY DEF RunsOnce, RanAlone, Done
<1>3. ReplaysAgree
    BY DEF ReplaysAgree, CallTells, Done
<1>4. RefusalsAreClean
  <2> SUFFICES ASSUME NEW i \in Ids \ crossed, NEW c \in CallsOf(i), c \in acted,
                      stored[i] # NoRecord, ~Started(stored[i].by)
               PROVE  FALSE
    BY DEF RefusalsAreClean
  <2>1. CallTells(c) /\ Started(c) /\ RanAlone(i) /\ c \in TwinCalls
    BY DEF CallsOf
  <2>2. Done(c)
    BY <2>1, CallFields DEF CallTells, RanAlone, Inside, Done
  <2>3. stored[i] = calls[c].answer /\ calls[c].answer.by = c
    BY <2>1, <2>2 DEF CallTells, RanAlone
  <2> QED
    BY <2>1, <2>3
<1>5. AnswersAttested
  <2> SUFFICES ASSUME NEW c \in TwinCalls, Done(c), NEW told, told = calls[c].answer
               PROVE  /\ calls[told.by].events # <<>>
                      /\ calls[told.by].events[Len(calls[told.by].events)]
                             = TerminalOf(told.outcome)
                      /\ calls[told.by].id = calls[c].id
                      /\ told.by # c => calls[c].events = <<>>
    BY DEF AnswersAttested, Done
  <2>1. CASE told.by = c
    BY <2>1 DEF CallTells
  <2>2. CASE told.by # c
    <3>1. /\ calls[c].events = <<>> /\ told.by \in TwinCalls /\ Done(told.by)
          /\ calls[told.by].id = calls[c].id /\ calls[told.by].answer = told
        BY <2>2 DEF CallTells
    <3> QED
        BY <3>1 DEF CallTells
  <2> QED
    BY <2>1, <2>2
<1> QED
    BY <1>1, <1>2, <1>3, <1>4, <1>5 DEF TwinSafe

\* The second implementation keeps its caps, its records, its replays and its
\* evidence for any number of calls, however they overlap (chp-host-ts).
THEOREM TwinStaysSafe == TwinSpec => []TwinSafe
BY TwinStarts, TwinStep, TwinInvSuffices, PTL DEF TwinSpec

-----------------------------------------------------------------------------
(***************************************************************************)
(* Induction.  The rule is stated for a set of numbers, and follows from   *)
(* the well-foundedness of <.                                              *)
(***************************************************************************)
LEMMA LeastElement ==
    ASSUME NEW S, S \subseteq Nat, S # {}
    PROVE  \E n \in S : \A m \in S : ~(m < n)
<1>1. \E n \in S : \A m \in S : ~(<<m, n>> \in OpToRel(<, Nat))
    BY NatLessThanWellFounded, WFMin
<1> QED
    BY <1>1 DEF OpToRel

\* A set with 0 and the successor of each of its numbers has all of them.
LEMMA Induction ==
    ASSUME NEW P, 0 \in P, \A n \in Nat : n \in P => n + 1 \in P
    PROVE  Nat \subseteq P
<1> SUFFICES ASSUME ~(Nat \subseteq P)
             PROVE  FALSE
    OBVIOUS
<1>1. PICK n \in Nat \ P : \A m \in Nat \ P : ~(m < n)
    BY LeastElement
<1>2. n # 0 /\ n - 1 \in Nat
    BY <1>1
<1>3. n - 1 \in P
    BY <1>1, <1>2
<1> QED
    BY <1>1, <1>2, <1>3

-----------------------------------------------------------------------------
(***************************************************************************)
(* The order of events                                                     *)
(***************************************************************************)
EventType == [event_id : Nat, host : Nat, sequence : Nat, invocation : Nat,
              causation : Nat, timestamp : Nat]

\* Events that their numbers tell apart.
Apart(es) ==
    /\ es \subseteq EventType
    /\ \A e, f \in es : e.event_id = f.event_id => e = f

\* The order of keys, written out.
Before(e, f) ==
    \/ e.timestamp < f.timestamp
    \/ e.timestamp = f.timestamp /\ e.host < f.host
    \/ e.timestamp = f.timestamp /\ e.host = f.host /\ e.sequence < f.sequence
    \/ /\ e.timestamp = f.timestamp /\ e.host = f.host /\ e.sequence = f.sequence
       /\ e.event_id < f.event_id

LEMMA BelowMeans ==
    ASSUME NEW e, NEW f
    PROVE  Below(K(e), K(f)) <=> Before(e, f)
<1>1. /\ DOMAIN K(e) = 1..4
      /\ K(e)[1] = e.timestamp /\ K(f)[1] = f.timestamp
      /\ K(e)[2] = e.host /\ K(f)[2] = f.host
      /\ K(e)[3] = e.sequence /\ K(f)[3] = f.sequence
      /\ K(e)[4] = e.event_id /\ K(f)[4] = f.event_id
    BY DEF K
<1> DEFINE a == K(e)
           b == K(f)
           At(n) == a[n] < b[n] /\ \A m \in 1..n - 1 : a[m] = b[m]
<1>2. Below(K(e), K(f)) <=> At(1) \/ At(2) \/ At(3) \/ At(4)
  <2>1. 1..4 = {1, 2, 3, 4}
    OBVIOUS
  <2> QED
    BY <1>1, <2>1 DEF Below
<1>3. 1..1 - 1 = {} /\ 1..2 - 1 = {1} /\ 1..3 - 1 = {1, 2} /\ 1..4 - 1 = {1, 2, 3}
    OBVIOUS
<1>4. /\ At(1) <=> a[1] < b[1]
      /\ At(2) <=> a[2] < b[2] /\ a[1] = b[1]
      /\ At(3) <=> a[3] < b[3] /\ a[1] = b[1] /\ a[2] = b[2]
      /\ At(4) <=> a[4] < b[4] /\ a[1] = b[1] /\ a[2] = b[2] /\ a[3] = b[3]
    BY <1>3
<1> HIDE DEF At, a, b
<1> QED
    BY <1>1, <1>2, <1>4 DEF Before, a, b

LEMMA FieldTypes ==
    ASSUME NEW e \in EventType
    PROVE  /\ e.event_id \in Nat /\ e.host \in Nat /\ e.sequence \in Nat
           /\ e.invocation \in Nat /\ e.causation \in Nat /\ e.timestamp \in Nat
    BY DEF EventType

\* No two events are below each other.
LEMMA BeforeOneWay ==
    ASSUME NEW e \in EventType, NEW f \in EventType, Before(e, f)
    PROVE  ~Before(f, e)
    BY FieldTypes DEF Before

\* Events that are told apart have a least one.
LEMMA LeastMeans ==
    ASSUME NEW es, Apart(es), es # {}
    PROVE  /\ Least(es) \in es
           /\ \A f \in es \ {Least(es)} : Before(Least(es), f)
<1> DEFINE times == {e.timestamp : e \in es}
<1>1. PICK t \in times : \A u \in times : ~(u < t)
  <2>1. times \subseteq Nat /\ times # {}
    BY FieldTypes DEF Apart
  <2> HIDE DEF times
  <2> QED
    BY <2>1, LeastElement
<1> DEFINE earliest == {e \in es : e.timestamp = t}
           hosts == {e.host : e \in earliest}
<1>2. PICK h \in hosts : \A g \in hosts : ~(g < h)
  <2>1. hosts \subseteq Nat /\ hosts # {}
    BY FieldTypes DEF Apart
  <2> HIDE DEF hosts
  <2> QED
    BY <2>1, LeastElement
<1> DEFINE local == {e \in earliest : e.host = h}
           sequences == {e.sequence : e \in local}
<1>3. PICK s \in sequences : \A r \in sequences : ~(r < s)
  <2>1. sequences \subseteq Nat /\ sequences # {}
    BY FieldTypes DEF Apart
  <2> HIDE DEF sequences
  <2> QED
    BY <2>1, LeastElement
<1> DEFINE first == {e \in local : e.sequence = s}
           ids == {e.event_id : e \in first}
<1>4. PICK i \in ids : \A j \in ids : ~(j < i)
  <2>1. ids \subseteq Nat /\ ids # {}
    BY FieldTypes DEF Apart
  <2> HIDE DEF ids
  <2> QED
    BY <2>1, LeastElement
<1>5. PICK e \in first : e.event_id = i
    BY <1>4
<1>6. ASSUME NEW f \in es, f # e
      PROVE  Before(e, f)
  <2>1. /\ e \in es /\ e \in EventType /\ f \in EventType
        /\ e.timestamp = t /\ e.host = h /\ e.sequence = s
        /\ e.event_id # f.event_id
    BY <1>5, <1>6 DEF Apart
  <2>2. ~(f.timestamp < t)
    BY <1>1
  <2>3. f.timestamp = t => ~(f.host < h)
    BY <1>2
  <2>4. f.timestamp = t /\ f.host = h => ~(f.sequence < s)
    BY <1>3
  <2>5. f.timestamp = t /\ f.host = h /\ f.sequence = s => ~(f.event_id < i)
    BY <1>4
  <2> HIDE DEF first
  <2> QED
    BY <1>5, <2>1, <2>2, <2>3, <2>4, <2>5, FieldTypes DEF Before
<1>7. \E l \in es : \A f \in es \ {l} : Below(K(l), K(f))
  <2>1. e \in es
    BY <1>5
  <2> HIDE DEF first
  <2> QED
    BY <1>6, <2>1, BelowMeans
<1> QED
    BY <1>7, BelowMeans DEF Least

\* What Kahn says of its first n events, given the order f of the fewer.
KahnStep(f, es, arcs, n) ==
    IF n = 0 THEN <<>>
    ELSE LET out == f[n - 1]
             ready == Ready(Remaining(es, out), arcs)
         IN  IF ready = {} THEN out ELSE Append(out, Least(ready))

LEMMA KahnStepLocal ==
    ASSUME NEW es, NEW arcs, NEW m \in Nat, NEW f, NEW g, \A n \in 0..m : f[n] = g[n],
           NEW n \in 0..(m + 1)
    PROVE  KahnStep(f, es, arcs, n) = KahnStep(g, es, arcs, n)
<1>1. n # 0 => n - 1 \in 0..m
    OBVIOUS
<1>2. n # 0 => f[n - 1] = g[n - 1]
    BY <1>1
<1> QED
    BY <1>2 DEF KahnStep

LEMMA KahnStepsExist ==
    ASSUME NEW es, NEW arcs
    PROVE  \A m \in Nat : \E f : \A n \in 0..m : f[n] = KahnStep(f, es, arcs, n)
<1> DEFINE P == {m \in Nat : \E f : \A n \in 0..m : f[n] = KahnStep(f, es, arcs, n)}
<1>1. 0 \in P
  <2> DEFINE f == [n \in 0..0 |-> <<>>]
  <2>1. \A n \in 0..0 : f[n] = KahnStep(f, es, arcs, n)
    BY DEF KahnStep
  <2> HIDE DEF f
  <2> QED
    BY <2>1
<1>2. ASSUME NEW m \in Nat, m \in P
      PROVE  m + 1 \in P
  <2>1. PICK f : \A n \in 0..m : f[n] = KahnStep(f, es, arcs, n)
    BY <1>2
  <2> DEFINE g == [n \in 0..(m + 1) |->
                      IF n = m + 1 THEN KahnStep(f, es, arcs, n) ELSE f[n]]
  <2>2. /\ \A n \in 0..m : f[n] = g[n]
        /\ g[m + 1] = KahnStep(f, es, arcs, m + 1)
    OBVIOUS
  <2> HIDE DEF g
  <2>3. \A n \in 0..(m + 1) : KahnStep(f, es, arcs, n) = KahnStep(g, es, arcs, n)
    BY <2>2, KahnStepLocal
  <2>4. \A n \in 0..(m + 1) : n \in 0..m \/ n = m + 1
    OBVIOUS
  <2>5. \A n \in 0..(m + 1) : g[n] = KahnStep(g, es, arcs, n)
    BY <2>1, <2>2, <2>3, <2>4
  <2> QED
    BY <2>5
<1>3. Nat \subseteq P
  <2> HIDE DEF P
  <2> QED
    BY <1>1, <1>2, Induction
<1> QED
    BY <1>3

\* What Kahn is, step by step.
LEMMA KahnDef ==
    ASSUME NEW es, NEW arcs, NEW m \in Nat
    PROVE  m = Cardinality(es) =>
              \E k : /\ \A n \in 0..m : k[n] = KahnStep(k, es, arcs, n)
                    /\ Kahn(es, arcs) = k[m]
<1>1. PICK f : \A n \in 0..m : f[n] = KahnStep(f, es, arcs, n)
    BY KahnStepsExist
<1>2. PICK g : g = [n \in 0..m |-> f[n]]
    OBVIOUS
<1>3. \A n \in 0..m : f[n] = g[n]
    BY <1>2
<1>4. \A n \in 0..(m + 1) : KahnStep(f, es, arcs, n) = KahnStep(g, es, arcs, n)
    BY <1>3, KahnStepLocal
<1>5. \A n \in 0..m : n \in 0..(m + 1)
    OBVIOUS
<1>6. \A n \in 0..m : f[n] = KahnStep(g, es, arcs, n)
    BY <1>1, <1>4, <1>5
<1> DEFINE Is(h) == h = [n \in 0..m |-> KahnStep(h, es, arcs, n)]
<1>7. Is(g)
    BY <1>2, <1>6
<1> DEFINE k == CHOOSE h : Is(h)
<1>8. Is(k)
    BY <1>7
<1>9. m = Cardinality(es) => Kahn(es, arcs) = k[m]
    BY DEF Kahn, KahnStep
<1> HIDE DEF k
<1>10. \A n \in 0..m : k[n] = KahnStep(k, es, arcs, n)
    BY <1>8
<1> QED
    BY <1>9, <1>10

\* What is left before place i.
LeftAt(es, order, i) == es \ {order[j] : j \in 1..i - 1}

\* Each event of the order was the least ready one at its place.
IsKahn(es, arcs, order) ==
    /\ order \in Seq(es)
    /\ IsFiniteSet(Remaining(es, order))
    /\ Cardinality(Remaining(es, order)) = Cardinality(es) - Len(order)
    /\ \A i \in 1..Len(order) :
          /\ order[i] \in Ready(LeftAt(es, order, i), arcs)
          /\ order[i] = Least(Ready(LeftAt(es, order, i), arcs))

\* One more event.
LEMMA KahnGrows ==
    ASSUME NEW es, IsFiniteSet(es), Apart(es), NEW arcs,
           NEW out, IsKahn(es, arcs, out), Ready(Remaining(es, out), arcs) # {}
    PROVE  \E order : /\ order = Append(out, Least(Ready(Remaining(es, out), arcs)))
                      /\ IsKahn(es, arcs, order)
                      /\ Len(order) = Len(out) + 1
<1>0. PICK ready : ready = Ready(Remaining(es, out), arcs)
    OBVIOUS
<1>o. PICK order : order = Append(out, Least(ready))
    OBVIOUS
<1> DEFINE left == Remaining(es, out)
           least == Least(ready)
<1>1. /\ out \in Seq(es) /\ Len(out) \in Nat /\ DOMAIN out = 1..Len(out)
      /\ Cardinality(es) \in Nat
    BY LenProperties, FS_CardinalityType DEF IsKahn
<1>2. ready \subseteq left /\ Apart(ready)
    BY <1>0 DEF Ready, Remaining, Apart
<1>3. least \in ready /\ least \in left /\ least \in es
    BY <1>0, <1>2, LeastMeans DEF Remaining
<1> HIDE DEF least
<1>4. /\ order \in Seq(es) /\ Len(order) = Len(out) + 1
      /\ \A i \in 1..Len(out) : order[i] = out[i]
      /\ order[Len(out) + 1] = least
  <2>1. order = Append(out, least)
    BY <1>o DEF least
  <2> QED
    BY <1>1, <1>3, <2>1, AppendProperties
<1>5. DOMAIN order = 1..Len(out) + 1
    BY <1>4, LenProperties
<1>6. Emitted(order) = Emitted(out) \cup {least}
  <2>1. \A i \in 1..Len(out) + 1 : i \in 1..Len(out) \/ i = Len(out) + 1
    BY <1>1
  <2>2. \A i \in 1..Len(out) : i \in 1..Len(out) + 1
    BY <1>1
  <2>3. Len(out) + 1 \in 1..Len(out) + 1
    BY <1>1
  <2>4. Emitted(order) = {order[i] : i \in 1..Len(out) + 1}
    BY <1>5 DEF Emitted
  <2>5. Emitted(out) = {order[i] : i \in 1..Len(out)}
    BY <1>1, <1>4 DEF Emitted
  <2> QED
    BY <1>4, <2>1, <2>2, <2>3, <2>4, <2>5
<1>7. Remaining(es, order) = left \ {least}
    BY <1>6 DEF Remaining
<1>8. /\ IsFiniteSet(Remaining(es, order))
      /\ Cardinality(Remaining(es, order)) = Cardinality(es) - Len(order)
  <2>1. IsFiniteSet(left) /\ Cardinality(left) = Cardinality(es) - Len(out)
    BY DEF IsKahn
  <2>2. /\ IsFiniteSet(left \ {least})
        /\ Cardinality(left \ {least}) = Cardinality(left) - 1
    BY <1>3, <2>1, FS_RemoveElement
  <2>3. Cardinality(left \ {least}) = Cardinality(es) - Len(order)
    BY <1>1, <1>4, <2>1, <2>2
  <2> QED
    BY <1>7, <2>2, <2>3
<1>9. ASSUME NEW i \in 1..Len(order)
      PROVE  /\ order[i] \in Ready(LeftAt(es, order, i), arcs)
             /\ order[i] = Least(Ready(LeftAt(es, order, i), arcs))
  <2>1. CASE i \in 1..Len(out)
    <3>1. \A j \in 1..i - 1 : j \in 1..Len(out)
        BY <1>1, <2>1
    <3>2. LeftAt(es, order, i) = LeftAt(es, out, i)
        BY <1>4, <3>1 DEF LeftAt
    <3> QED
        BY <1>4, <2>1, <3>2 DEF IsKahn
  <2>2. CASE i = Len(out) + 1
    <3>1. 1..i - 1 = 1..Len(out)
        BY <1>1, <2>2
    <3>2. {order[j] : j \in 1..i - 1} = Emitted(out)
        BY <1>1, <1>4, <3>1 DEF Emitted
    <3> QED
        BY <1>0, <1>3, <1>4, <2>2, <3>2 DEF LeftAt, Remaining, least
  <2> QED
    BY <1>1, <1>4, <2>1, <2>2
<1>10. IsKahn(es, arcs, order)
    BY <1>4, <1>8, <1>9 DEF IsKahn
<1> QED
    BY <1>0, <1>o, <1>4, <1>10

\* Kahn's algorithm ends where nothing is ready.
LEMMA KahnMeans ==
    ASSUME NEW es, IsFiniteSet(es), Apart(es), NEW arcs
    PROVE  /\ IsKahn(es, arcs, Kahn(es, arcs))
           /\ Ready(Remaining(es, Kahn(es, arcs)), arcs) = {}
<1>0. Cardinality(es) \in Nat
    BY FS_CardinalityType
<1>1. PICK m \in Nat : m = Cardinality(es)
    BY <1>0
<1>2. PICK k : /\ \A n \in 0..m : k[n] = KahnStep(k, es, arcs, n)
               /\ Kahn(es, arcs) = k[m]
    BY <1>1, KahnDef
<1> DEFINE Good(n) == /\ IsKahn(es, arcs, k[n])
                      /\ Len(k[n]) = n \/ Ready(Remaining(es, k[n]), arcs) = {}
           P == {n \in Nat : n <= m => Good(n)}
<1>3. 0 \in P
  <2>1. k[0] = KahnStep(k, es, arcs, 0)
    BY <1>2
  <2>2. k[0] = <<>>
    BY <2>1 DEF KahnStep
  <2>3. Len(k[0]) = 0 /\ Emitted(k[0]) = {} /\ k[0] \in Seq(es)
    BY <2>2 DEF Emitted
  <2>4. Remaining(es, k[0]) = es
    BY <2>3 DEF Remaining
  <2>5. \A i \in 1..0 : FALSE
    OBVIOUS
  <2>6. IsKahn(es, arcs, k[0])
    BY <1>1, <2>3, <2>4, <2>5 DEF IsKahn
  <2> QED
    BY <2>3, <2>6
<1>4. ASSUME NEW n \in Nat, n \in P
      PROVE  n + 1 \in P
  <2> HIDE DEF Good
  <2> SUFFICES ASSUME n + 1 <= m
               PROVE  Good(n + 1)
    OBVIOUS
  <2>1. Good(n)
    BY <1>1, <1>4
  <2> USE DEF Good
  <2>2. PICK ready : ready = Ready(Remaining(es, k[n]), arcs)
    OBVIOUS
  <2>3. n + 1 \in 0..m /\ n + 1 # 0 /\ (n + 1) - 1 = n
    BY <1>1
  <2>4. k[n + 1] = KahnStep(k, es, arcs, n + 1)
    BY <1>2, <2>3
  <2>5. k[n + 1] = IF ready = {} THEN k[n] ELSE Append(k[n], Least(ready))
    BY <2>2, <2>3, <2>4 DEF KahnStep
  <2> HIDE DEF P
  <2>6. CASE ready = {}
    <3>1. k[n + 1] = k[n]
        BY <2>5, <2>6
    <3> QED
        BY <2>1, <2>2, <2>6, <3>1
  <2>7. CASE ready # {}
    <3>1. IsKahn(es, arcs, k[n]) /\ Ready(Remaining(es, k[n]), arcs) # {}
        BY <2>1, <2>2, <2>7
    <3> HIDE DEF Good
    <3>2. \E order : /\ order = Append(k[n], Least(Ready(Remaining(es, k[n]), arcs)))
                     /\ IsKahn(es, arcs, order)
                     /\ Len(order) = Len(k[n]) + 1
        BY <3>1, KahnGrows
    <3>3. IsKahn(es, arcs, k[n + 1]) /\ Len(k[n + 1]) = Len(k[n]) + 1
        BY <2>2, <2>5, <2>7, <3>2
    <3> QED
        BY <2>1, <2>2, <2>7, <3>3 DEF Good
  <2> QED
    BY <2>6, <2>7
<1>5. Nat \subseteq P
  <2> HIDE DEF P
  <2> QED
    BY <1>3, <1>4, Induction
<1>6. Good(m)
  <2> HIDE DEF Good
  <2> QED
    BY <1>1, <1>5
<1>7. CASE Len(k[m]) = m
  <2>1. Cardinality(Remaining(es, k[m])) = 0 /\ IsFiniteSet(Remaining(es, k[m]))
    BY <1>1, <1>6, <1>7 DEF IsKahn
  <2>2. Remaining(es, k[m]) = {}
    BY <2>1, FS_EmptySet
  <2>3. Ready(Remaining(es, k[m]), arcs) = {}
    BY <2>2 DEF Ready
  <2> QED
    BY <1>2, <1>6, <2>3
<1> QED
    BY <1>2, <1>6, <1>7

LEMMA LeftAtMeans ==
    ASSUME NEW es, NEW order, NEW i, NEW e
    PROVE  e \in LeftAt(es, order, i) <=> e \in es /\ \A j \in 1..i - 1 : order[j] # e
    BY DEF LeftAt

\* Each event is there once, and not before what an edge puts in front of it.
LEMMA KahnRespects ==
    ASSUME NEW es, NEW arcs, NEW order, IsKahn(es, arcs, order)
    PROVE  /\ \A i, j \in 1..Len(order) : i < j => order[i] # order[j]
           /\ \A i \in 1..Len(order) : \A p \in arcs :
                 p[2] = order[i] /\ p[1] \in es => \E j \in 1..i - 1 : order[j] = p[1]
<1>1. order \in Seq(es) /\ Len(order) \in Nat
    BY LenProperties DEF IsKahn
<1>2. ASSUME NEW i \in 1..Len(order), NEW j \in 1..Len(order), i < j
      PROVE  order[i] # order[j]
  <2>1. order[j] \in LeftAt(es, order, j)
    BY <1>2 DEF IsKahn, Ready
  <2>2. i \in 1..j - 1
    BY <1>1, <1>2
  <2> QED
    BY <2>1, <2>2, LeftAtMeans
<1>3. ASSUME NEW i \in 1..Len(order), NEW p \in arcs, p[2] = order[i], p[1] \in es
      PROVE  \E j \in 1..i - 1 : order[j] = p[1]
  <2>1. p[1] \notin LeftAt(es, order, i)
    BY <1>3 DEF IsKahn, Ready
  <2> QED
    BY <1>3, <2>1, LeftAtMeans
<1> QED
    BY <1>2, <1>3

\* Sorting leaves nothing out.
LEMMA SortedMeans ==
    ASSUME NEW es, IsFiniteSet(es), Apart(es)
    PROVE  /\ IsKahn(es, {}, Sorted(es))
           /\ Remaining(es, Sorted(es)) = {}
           /\ Len(Sorted(es)) = Cardinality(es)
<1>1. /\ IsKahn(es, {}, Sorted(es))
      /\ Ready(Remaining(es, Sorted(es)), {}) = {}
    BY KahnMeans DEF Sorted
<1>2. Remaining(es, Sorted(es)) = {}
    BY <1>1 DEF Ready
<1>3. Sorted(es) \in Seq(es) /\ Len(Sorted(es)) \in Nat /\ Cardinality(es) \in Nat
    BY <1>1, LenProperties, FS_CardinalityType DEF IsKahn
<1>4. Cardinality(Remaining(es, Sorted(es))) = 0
    BY <1>2, FS_EmptySet
<1> QED
    BY <1>1, <1>2, <1>3, <1>4 DEF IsKahn

\* The order has every event once.
LEMMA OrderHasAll ==
    ASSUME NEW es, IsFiniteSet(es), Apart(es)
    PROVE  /\ OrderEvents(es) \in Seq(es)
           /\ Len(OrderEvents(es)) = Cardinality(es)
           /\ Emitted(OrderEvents(es)) = es
           /\ \A i, j \in 1..Len(OrderEvents(es)) :
                 i # j => OrderEvents(es)[i] # OrderEvents(es)[j]
<1>1. PICK out : out = Kahn(es, Edges(es))
    OBVIOUS
<1>2. PICK rest : rest = Remaining(es, out)
    OBVIOUS
<1>3. PICK tail : tail = Sorted(rest)
    OBVIOUS
<1>4. PICK order : order = out \o tail
    OBVIOUS
<1>5. OrderEvents(es) = order
    BY <1>1, <1>2, <1>3, <1>4 DEF OrderEvents
<1>6. IsKahn(es, Edges(es), out)
    BY <1>1, KahnMeans
<1>7. /\ rest \subseteq es /\ IsFiniteSet(rest) /\ Apart(rest)
      /\ Cardinality(rest) = Cardinality(es) - Len(out)
    BY <1>2, <1>6 DEF IsKahn, Remaining, Apart
<1>8. /\ IsKahn(rest, {}, tail) /\ Remaining(rest, tail) = {}
      /\ Len(tail) = Cardinality(rest)
    BY <1>3, <1>7, SortedMeans
<1>9. /\ out \in Seq(es) /\ Len(out) \in Nat /\ DOMAIN out = 1..Len(out)
      /\ tail \in Seq(rest) /\ Len(tail) \in Nat /\ DOMAIN tail = 1..Len(tail)
    BY <1>6, <1>8, LenProperties DEF IsKahn
<1>10. /\ order \in Seq(es)
       /\ Len(order) = Len(out) + Len(tail)
       /\ \A i \in 1..Len(out) + Len(tail) :
             order[i] = IF i <= Len(out) THEN out[i] ELSE tail[i - Len(out)]
  <2>1. tail \in Seq(es)
    BY <1>7, <1>9, SeqMonotonic
  <2> QED
    BY <1>4, <1>9, <2>1, ConcatProperties
<1>11. Cardinality(es) \in Nat /\ Len(order) = Cardinality(es)
    BY <1>7, <1>8, <1>9, <1>10, FS_CardinalityType
<1>12. DOMAIN order = 1..Len(order)
    BY <1>10, LenProperties
<1>13. ASSUME NEW e \in es
       PROVE  e \in Emitted(order)
  <2>1. CASE e \in rest
    <3>1. PICK n \in 1..Len(tail) : tail[n] = e
        BY <1>8, <1>9, <2>1 DEF Remaining, Emitted
    <3>2. n + Len(out) \in 1..Len(order) /\ order[n + Len(out)] = tail[n]
        BY <1>9, <1>10
    <3> QED
        BY <1>12, <3>1, <3>2 DEF Emitted
  <2>2. CASE e \notin rest
    <3>1. PICK n \in 1..Len(out) : out[n] = e
        BY <1>2, <1>9, <2>2 DEF Remaining, Emitted
    <3>2. n \in 1..Len(order) /\ order[n] = out[n]
        BY <1>9, <1>10
    <3> QED
        BY <1>12, <3>1, <3>2 DEF Emitted
  <2> QED
    BY <2>1, <2>2
<1>14. Emitted(order) = es
  <2>1. Emitted(order) \subseteq es
    BY <1>10, <1>12, ElementOfSeq DEF Emitted
  <2> QED
    BY <1>13, <2>1
<1>15. ASSUME NEW i \in 1..Len(order), NEW j \in 1..Len(order), i < j
       PROVE  order[i] # order[j]
  <2>1. CASE j <= Len(out)
    <3>1. i \in 1..Len(out) /\ j \in 1..Len(out)
        BY <1>9, <1>10, <1>15, <2>1
    <3>2. out[i] # out[j]
        BY <1>6, <1>15, <3>1, KahnRespects
    <3> QED
        BY <1>9, <1>10, <3>1, <3>2
  <2>2. CASE i > Len(out)
    <3>1. i - Len(out) \in 1..Len(tail) /\ j - Len(out) \in 1..Len(tail)
        BY <1>9, <1>10, <1>15, <2>2
    <3>2. i - Len(out) < j - Len(out)
        BY <1>9, <1>15
    <3>3. tail[i - Len(out)] # tail[j - Len(out)]
        BY <1>8, <3>1, <3>2, KahnRespects
    <3>4. ~(i <= Len(out)) /\ ~(j <= Len(out)) /\ i \in 1..Len(out) + Len(tail)
              /\ j \in 1..Len(out) + Len(tail)
        BY <1>9, <1>10, <1>15, <2>2
    <3>5. order[i] = tail[i - Len(out)] /\ order[j] = tail[j - Len(out)]
        BY <1>10, <3>4
    <3> QED
        BY <3>3, <3>5
  <2>3. CASE i <= Len(out) /\ j > Len(out)
    <3>1. i \in 1..Len(out) /\ j - Len(out) \in 1..Len(tail)
        BY <1>9, <1>10, <2>3
    <3>2. order[i] = out[i] /\ order[j] = tail[j - Len(out)]
        BY <1>9, <1>10, <2>3
    <3>3. order[j] \in rest
        BY <1>9, <3>1, <3>2, ElementOfSeq
    <3>4. order[i] \in Emitted(out)
        BY <1>9, <3>1, <3>2 DEF Emitted
    <3> QED
        BY <1>2, <3>3, <3>4 DEF Remaining
  <2> QED
    BY <1>9, <1>10, <2>1, <2>2, <2>3
<1>16. \A i, j \in 1..Len(order) : i # j => order[i] # order[j]
  <2>1. \A i, j \in 1..Len(order) : i # j => i < j \/ j < i
    BY <1>9, <1>10
  <2> QED
    BY <1>15, <2>1
<1> QED
    BY <1>5, <1>10, <1>11, <1>14, <1>16

\* Without a cycle Kahn's algorithm leaves nothing.
LEMMA OrderIsKahn ==
    ASSUME NEW es, IsFiniteSet(es), Apart(es), Acyclic(es)
    PROVE  IsKahn(es, Edges(es), OrderEvents(es))
<1>1. PICK out : out = Kahn(es, Edges(es))
    OBVIOUS
<1>2. PICK rest : rest = Remaining(es, out)
    OBVIOUS
<1>3. /\ IsKahn(es, Edges(es), out) /\ Ready(rest, Edges(es)) = {}
    BY <1>1, <1>2, KahnMeans
<1>4. rest = {}
  <2>1. rest \in SUBSET es
    BY <1>2 DEF Remaining
  <2> SUFFICES ASSUME rest # {}
               PROVE  FALSE
    OBVIOUS
  <2>2. PICK e \in rest : \A p \in Edges(es) : p[2] = e => p[1] \notin rest
    BY <2>1 DEF Acyclic
  <2> QED
    BY <1>3, <2>2 DEF Ready
<1>5. IsFiniteSet(rest) /\ Apart(rest) /\ Cardinality(rest) = 0
    BY <1>4, FS_EmptySet DEF Apart
<1>6. Sorted(rest) \in Seq(rest) /\ Len(Sorted(rest)) = 0
    BY <1>5, SortedMeans DEF IsKahn
<1>7. Sorted(rest) = <<>>
    BY <1>6, EmptySeq
<1>8. out \o <<>> = out
    BY <1>3, ConcatEmptySeq DEF IsKahn
<1>9. OrderEvents(es) = out
    BY <1>1, <1>2, <1>7, <1>8 DEF OrderEvents
<1> QED
    BY <1>3, <1>9

LEMMA PlaceMeans ==
    ASSUME NEW es, IsFiniteSet(es), Apart(es), NEW order, order = OrderEvents(es), NEW e \in es
    PROVE  /\ Place(order, e) \in 1..Len(order) /\ order[Place(order, e)] = e
           /\ \A n \in 1..Len(order) : order[n] = e => n = Place(order, e)
<1>1. /\ order \in Seq(es) /\ Emitted(order) = es /\ DOMAIN order = 1..Len(order)
      /\ \A i, j \in 1..Len(order) : i # j => order[i] # order[j]
    BY OrderHasAll, LenProperties
<1>2. \E n \in DOMAIN order : order[n] = e
    BY <1>1 DEF Emitted
<1>3. Place(order, e) \in DOMAIN order /\ order[Place(order, e)] = e
    BY <1>2 DEF Place
<1> QED
    BY <1>1, <1>3

\* An edge of a set without a cycle is respected.
LEMMA EdgesRespected ==
    ASSUME NEW es, IsFiniteSet(es), Apart(es), Acyclic(es),
           NEW order, order = OrderEvents(es),
           NEW a \in es, NEW b \in es, <<a, b>> \in Edges(es)
    PROVE  Place(order, a) < Place(order, b)
<1>1. /\ Place(order, b) \in 1..Len(order) /\ order[Place(order, b)] = b
      /\ \A n \in 1..Len(order) : order[n] = a => n = Place(order, a)
    BY PlaceMeans
<1>2. IsKahn(es, Edges(es), order) /\ order \in Seq(es)
    BY OrderIsKahn DEF IsKahn
<1>3. <<a, b>>[1] = a /\ <<a, b>>[2] = b
    OBVIOUS
<1>4. PICK j \in 1..Place(order, b) - 1 : order[j] = a
  <2>1. \A i \in 1..Len(order) : \A p \in Edges(es) :
           p[2] = order[i] /\ p[1] \in es => \E j \in 1..i - 1 : order[j] = p[1]
    BY <1>2, KahnRespects
  <2> QED
    BY <1>1, <1>3, <2>1
<1>5. Len(order) \in Nat
    BY <1>2, LenProperties
<1>6. j \in 1..Len(order) /\ j < Place(order, b)
    BY <1>1, <1>5
<1> QED
    BY <1>1, <1>4, <1>6

\* The check of a task bundle accepts the order of a set without a cycle.
LEMMA AcyclicAccepted ==
    ASSUME NEW es, IsFiniteSet(es), Apart(es), Acyclic(es)
    PROVE  CausalAcyclic(es)
<1>1. PICK order : order = OrderEvents(es)
    OBVIOUS
<1>2. /\ DOMAIN order = 1..Len(order) /\ Len(order) \in Nat
      /\ \A n \in 1..Len(order) : order[n] \in es
    BY <1>1, OrderHasAll, LenProperties, ElementOfSeq
<1>3. ASSUME NEW n \in DOMAIN order,
             {m \in DOMAIN order : order[m].invocation = order[n].causation} # {}
      PROVE  \E m \in {m \in DOMAIN order : order[m].invocation = order[n].causation} : m <= n
  <2>1. PICK inv : inv = OfInvocation(es, order[n].causation)
    OBVIOUS
  <2>2. PICK l : l = Least(inv)
    OBVIOUS
  <2>3. inv # {} /\ Apart(inv)
    BY <1>2, <1>3, <2>1 DEF OfInvocation, Apart
  <2>4. l \in inv
    BY <2>2, <2>3, LeastMeans
  <2>5. l \in es /\ l.invocation = order[n].causation
    BY <2>1, <2>4 DEF OfInvocation
  <2>6. CASE l = order[n]
    BY <1>2, <2>5, <2>6
  <2>7. CASE l # order[n]
    <3>1. order[n] \in es
        BY <1>2
    <3>2. <<l, order[n]>> \in Edges(es)
        BY <2>1, <2>2, <2>3, <2>5, <2>7, <3>1 DEF Edges
    <3>3. Place(order, l) < Place(order, order[n])
        BY <1>1, <2>5, <3>1, <3>2, EdgesRespected
    <3>4. /\ Place(order, l) \in 1..Len(order) /\ order[Place(order, l)] = l
          /\ n = Place(order, order[n])
        BY <1>1, <1>2, <2>5, <3>1, PlaceMeans
    <3> QED
        BY <1>2, <2>5, <3>3, <3>4
  <2> QED
    BY <2>6, <2>7
<1> QED
    BY <1>1, <1>3 DEF CausalAcyclic

\* Only an edge keeps the later of two neighbours from being the earlier.
LEMMA DelayIsCaused ==
    ASSUME NEW es, IsFiniteSet(es), Apart(es), Acyclic(es),
           NEW order, order = OrderEvents(es),
           NEW n \in 1..Len(order) - 1, Below(K(order[n + 1]), K(order[n]))
    PROVE  <<order[n], order[n + 1]>> \in Edges(es)
<1>1. /\ IsKahn(es, Edges(es), order) /\ order \in Seq(es) /\ Len(order) \in Nat
    BY OrderIsKahn, LenProperties DEF IsKahn
<1>2. n \in 1..Len(order) /\ n + 1 \in 1..Len(order) /\ n < n + 1
    BY <1>1
<1>3. PICK a, b : a = order[n] /\ b = order[n + 1]
    OBVIOUS
<1>4. a \in es /\ b \in es /\ a # b
    BY <1>1, <1>2, <1>3, ElementOfSeq, KahnRespects
<1>5. /\ a \in Ready(LeftAt(es, order, n), Edges(es))
      /\ a = Least(Ready(LeftAt(es, order, n), Edges(es)))
      /\ b \in Ready(LeftAt(es, order, n + 1), Edges(es))
    BY <1>1, <1>2, <1>3 DEF IsKahn
<1>6. \A e : e \in LeftAt(es, order, n) <=> e \in LeftAt(es, order, n + 1) \/ e = a
  <2>1. \A j \in 1..(n + 1) - 1 : j \in 1..n - 1 \/ j = n
    BY <1>2
  <2>2. n \in 1..(n + 1) - 1 /\ \A j \in 1..n - 1 : j \in 1..(n + 1) - 1
    BY <1>2
  <2>3. a \in LeftAt(es, order, n)
    BY <1>5 DEF Ready
  <2> QED
    BY <1>3, <2>1, <2>2, <2>3, LeftAtMeans
<1> SUFFICES ASSUME <<a, b>> \notin Edges(es)
             PROVE  FALSE
    BY <1>3
<1>7. b \in Ready(LeftAt(es, order, n), Edges(es))
  <2>1. b \in LeftAt(es, order, n)
    BY <1>5, <1>6 DEF Ready
  <2>2. ASSUME NEW p \in Edges(es), p[2] = b, p[1] \in LeftAt(es, order, n)
        PROVE  FALSE
    <3>1. p[1] \notin LeftAt(es, order, n + 1)
        BY <1>5, <2>2 DEF Ready
    <3>2. p[1] = a
        BY <1>6, <2>2, <3>1
    <3>3. p = <<a, b>>
        BY <2>2, <3>2 DEF Edges
    <3> QED
        BY <3>3
  <2> QED
    BY <2>1, <2>2 DEF Ready
<1>8. Before(a, b)
  <2>1. PICK ready : ready = Ready(LeftAt(es, order, n), Edges(es))
    OBVIOUS
  <2>2. ready \subseteq es
    BY <2>1, LeftAtMeans DEF Ready
  <2>3. Apart(ready) /\ ready # {}
    BY <1>7, <2>1, <2>2 DEF Apart
  <2>4. \A f \in ready \ {Least(ready)} : Before(Least(ready), f)
    BY <2>3, LeastMeans
  <2> QED
    BY <1>4, <1>5, <1>7, <2>1, <2>4
<1>9. Before(b, a)
    BY <1>3, BelowMeans
<1> QED
    BY <1>4, <1>8, <1>9, BeforeOneWay DEF Apart

-----------------------------------------------------------------------------
(***************************************************************************)
(* Hosts                                                                   *)
(***************************************************************************)
AtHost(h) == {e \in events : e.host = h}

EventsTyped ==
    /\ IsFiniteSet(events) /\ Apart(events)
    /\ \A e \in events : /\ e.host \in EventHosts
                         /\ e.event_id \in 1..Cardinality(events)
                         /\ e.sequence \in 1..Cardinality(AtHost(e.host))

\* A host's sequence is in the order in which its events were appended.
SequencesGrow ==
    \A e, f \in events :
        e.host = f.host => (e.sequence < f.sequence <=> e.event_id < f.event_id)

\* What is recorded has been caused by nothing, or an event of its cause was there
\* first; ...
EventsCaused ==
    \A e \in events :
        /\ 1 <= e.invocation
        /\ \/ e.causation = 0
           \/ \E f \in events : f.invocation = e.causation /\ f.event_id < e.event_id

\* ... and so will what is stamped and still has to be appended.
StampedType == [host : Nat, invocation : Nat, causation : Nat, timestamp : Nat]

StampedCaused ==
    /\ emitting \in [Emitters -> StampedType]
    /\ \A t \in Emitters :
          emitting[t] # Silent =>
              /\ emitting[t].host \in EventHosts
              /\ 1 <= emitting[t].invocation
              /\ \/ emitting[t].causation = 0
                 \/ \E f \in events : f.invocation = emitting[t].causation

\* An invocation that was begun once is on one host, and begins with one event.
OneRun ==
    /\ \A e \in events :
          e.invocation \notin reruns =>
              /\ \A f \in events : f.invocation = e.invocation => f.host = e.host
              /\ \A t \in Emitters :
                    emitting[t].invocation = e.invocation => emitting[t].host = e.host
    /\ \A t, u \in Emitters :
          (/\ emitting[t] # Silent
           /\ emitting[t].invocation = emitting[u].invocation
           /\ emitting[t].invocation \notin reruns
           /\ OfInvocation(events, emitting[t].invocation) = {}) => t = u

\* The first event of an invocation that was begun once, and not on a whole second.
Leads(a) ==
    /\ a.invocation \notin reruns
    /\ ~Whole(a.timestamp)
    /\ \A e \in OfInvocation(events, a.invocation) : a.event_id <= e.event_id

\* Until a clock is set back, no stamp is ahead of the clock but those of whole
\* seconds, and no stamp of an invocation is behind that of its first event.
TimesGrow ==
    ~stepped =>
        /\ \A e \in events : ~Whole(e.timestamp) => e.timestamp <= clock[e.host]
        /\ \A t \in Emitters :
              emitting[t] # Silent /\ ~Whole(emitting[t].timestamp) =>
                  emitting[t].timestamp <= clock[emitting[t].host]
        /\ \A a \in events :
              Leads(a) =>
                  /\ \A e \in events : e.invocation = a.invocation => a.timestamp <= e.timestamp
                  /\ \A t \in Emitters :
                        emitting[t].invocation = a.invocation =>
                            a.timestamp <= emitting[t].timestamp

OrderingInv ==
    /\ clock \in [EventHosts -> Nat] /\ stepped \in BOOLEAN
    /\ EventsTyped
    /\ SequencesGrow
    /\ EventsCaused
    /\ StampedCaused
    /\ OneRun
    /\ TimesGrow

\* The next whole second is whole.
LEMMA WholeNext ==
    ASSUME NEW P \in Nat \ {0}, NEW time \in Nat, time % P = 0
    PROVE  (time + P) % P = 0
<1> DEFINE d == time \div P
           c == (time + P) \div P
           r == (time + P) % P
<1>1. /\ time = P * d + (time % P) /\ d \in Int
      /\ time + P = P * c + r /\ c \in Int /\ r \in 0..P - 1
    BY SMTT(20)
<1> HIDE DEF d, c, r
<1>2. PICK k \in Int : k = d + 1 - c
    BY <1>1
<1>3. P * k = r
  <2>1. P * (d + 1 - c) = P * d + P - P * c
    BY <1>1, SMTT(20)
  <2> QED
    BY <1>1, <1>2, <2>1, SMTT(20)
<1>4. /\ k >= 1 => P * k >= P
      /\ k <= -1 => P * k < 0
      /\ k = 0 => P * k = 0
    BY SMTT(20)
<1>5. r = 0
    BY <1>1, <1>2, <1>3, <1>4, SMTT(20)
<1> QED
    BY <1>5 DEF r

\* A stamp is never behind the clock it was read from, and ahead of it on a whole
\* second only.
LEMMA StampMeans ==
    ASSUME OrderingConstants, NEW time \in Nat
    PROVE  /\ Stamp(time) \in Nat
           /\ time <= Stamp(time)
           /\ ~Whole(Stamp(time)) => Stamp(time) = time
<1>1. PerSecond \in Nat \ {0}
    BY DEF OrderingConstants
<1>2. CASE Whole(time)
  <2>1. Stamp(time) = time + PerSecond
    BY <1>2 DEF Stamp
  <2>2. Whole(time + PerSecond)
    BY <1>1, <1>2, WholeNext DEF Whole
  <2> QED
    BY <1>1, <2>1, <2>2
<1>3. CASE ~Whole(time)
    BY <1>3 DEF Stamp
<1> QED
    BY <1>2, <1>3

LEMMA StampedFields ==
    ASSUME StampedCaused, NEW t \in Emitters
    PROVE  /\ emitting[t] \in StampedType
           /\ emitting[t].host \in Nat /\ emitting[t].invocation \in Nat
           /\ emitting[t].causation \in Nat /\ emitting[t].timestamp \in Nat
           /\ Silent.invocation = 0
           /\ emitting[t].invocation # 0 => emitting[t] # Silent
BY DEF StampedCaused, StampedType, Silent

LEMMA OrderingInvInit ==
    ASSUME OrderingConstants, OrderingInit
    PROVE  OrderingInv
<1>1. clock \in [EventHosts -> Nat] /\ stepped \in BOOLEAN
    BY DEF OrderingInit
<1>2. events = {} /\ \A t \in Emitters : emitting[t] = Silent
    BY DEF OrderingInit
<1>3. EventsTyped
    BY <1>2, FS_EmptySet DEF EventsTyped, Apart
<1>4. StampedCaused
  <2>1. Silent \in StampedType
    BY DEF Silent, StampedType
  <2> QED
    BY <1>2, <2>1 DEF StampedCaused, OrderingInit
<1>5. OneRun
    BY <1>2 DEF OneRun
<1>6. TimesGrow
    BY <1>2 DEF TimesGrow
<1> QED
    BY <1>1, <1>2, <1>3, <1>4, <1>5, <1>6 DEF OrderingInv, SequencesGrow, EventsCaused

\* A stamp that a run takes on its way, or the only one of a run that begins.
LEMMA EmitKeepsOrderingInv ==
    ASSUME OrderingConstants, OrderingInv,
           NEW t \in Emitters, NEW h \in EventHosts, NEW inv \in Nat \ {0}, NEW cause \in Nat,
           Emit(t, h, inv, cause),
           cause = 0 \/ \E f \in events : f.invocation = cause,
           \A i : i \notin reruns' => i \notin reruns,
           inv \notin reruns' =>
               ~Known(inv) \/ \E c \in events : c.invocation = inv /\ c.host = h
    PROVE  OrderingInv'
<1>1. PICK e : e = [host |-> h, invocation |-> inv, causation |-> cause,
                    timestamp |-> Stamp(clock[h])]
    OBVIOUS
<1>2. h \in Nat /\ clock[h] \in Nat
    BY DEF OrderingConstants, OrderingInv
<1>3. /\ Stamp(clock[h]) \in Nat /\ clock[h] <= Stamp(clock[h])
      /\ ~Whole(Stamp(clock[h])) => Stamp(clock[h]) = clock[h]
    BY <1>2, StampMeans
<1>4. /\ e.host = h /\ e.invocation = inv /\ e.causation = cause
      /\ e.timestamp = Stamp(clock[h]) /\ e \in StampedType
    BY <1>1, <1>2, <1>3 DEF StampedType
<1>5. emitting \in [Emitters -> StampedType] /\ StampedCaused /\ EventsTyped
    BY DEF OrderingInv, StampedCaused
<1>6. /\ emitting[t] = Silent
      /\ emitting' = [emitting EXCEPT ![t] = e]
      /\ events' = events /\ clock' = clock /\ stepped' = stepped
    BY <1>1 DEF Emit
<1>7. /\ emitting'[t] = e
      /\ \A u \in Emitters \ {t} : emitting'[u] = emitting[u]
      /\ emitting' \in [Emitters -> StampedType]
    BY <1>4, <1>5, <1>6
<1>8. EventsTyped' /\ SequencesGrow' /\ EventsCaused'
    BY <1>6 DEF OrderingInv, EventsTyped, SequencesGrow, EventsCaused, AtHost
<1>9. StampedCaused'
  <2>1. ASSUME NEW u \in Emitters, emitting'[u] # Silent
        PROVE  /\ emitting'[u].host \in EventHosts
               /\ 1 <= emitting'[u].invocation
               /\ \/ emitting'[u].causation = 0
                  \/ \E f \in events : f.invocation = emitting'[u].causation
    <3>1. CASE u = t
        BY <1>4, <1>7, <3>1
    <3>2. CASE u # t
        BY <1>5, <1>7, <2>1, <3>2 DEF StampedCaused
    <3> QED
        BY <3>1, <3>2
  <2> QED
    BY <1>6, <1>7, <2>1 DEF StampedCaused
<1>10. inv \notin reruns' /\ ~Known(inv) =>
          /\ \A f \in events : f.invocation # inv
          /\ \A u \in Emitters : emitting[u].invocation # inv
    BY DEF Known, OfInvocation
<1>11. OneRun'
  <2>1. ASSUME NEW f \in events, f.invocation \notin reruns'
        PROVE  /\ \A g \in events : g.invocation = f.invocation => g.host = f.host
               /\ \A u \in Emitters :
                     emitting'[u].invocation = f.invocation => emitting'[u].host = f.host
    <3>1. /\ \A g \in events : g.invocation = f.invocation => g.host = f.host
          /\ \A u \in Emitters :
                emitting[u].invocation = f.invocation => emitting[u].host = f.host
        BY <2>1 DEF OrderingInv, OneRun
    <3>2. e.invocation = f.invocation => e.host = f.host
        BY <1>4, <1>10, <2>1, <3>1
    <3> QED
        BY <1>7, <3>1, <3>2
  <2>2. ASSUME NEW u \in Emitters, NEW w \in Emitters, emitting'[u] # Silent,
               emitting'[u].invocation = emitting'[w].invocation,
               emitting'[u].invocation \notin reruns',
               OfInvocation(events, emitting'[u].invocation) = {}
        PROVE  u = w
    <3>1. CASE emitting'[u].invocation = inv
      <4>1. \A f \in events : f.invocation # inv
        BY <2>2, <3>1 DEF OfInvocation
      <4>2. \A x \in Emitters : emitting[x].invocation # inv
        BY <1>10, <2>2, <3>1, <4>1
      <4> QED
        BY <1>7, <2>2, <3>1, <4>2
    <3>2. CASE emitting'[u].invocation # inv
      <4>1. u # t /\ w # t
        BY <1>4, <1>7, <2>2, <3>2
      <4> QED
        BY <1>7, <2>2, <4>1 DEF OrderingInv, OneRun
    <3> QED
        BY <3>1, <3>2
  <2>3. /\ \A f \in events : f.invocation \notin reruns' =>
              /\ \A g \in events : g.invocation = f.invocation => g.host = f.host
              /\ \A u \in Emitters :
                    emitting'[u].invocation = f.invocation => emitting'[u].host = f.host
    BY <2>1
  <2> QED
    BY <1>6, <2>2, <2>3 DEF OneRun, OfInvocation
<1>12. TimesGrow'
  <2> SUFFICES ASSUME ~stepped
               PROVE  /\ \A f \in events : ~Whole(f.timestamp) => f.timestamp <= clock[f.host]
                      /\ \A u \in Emitters :
                            emitting'[u] # Silent /\ ~Whole(emitting'[u].timestamp) =>
                                emitting'[u].timestamp <= clock[emitting'[u].host]
                      /\ \A a \in events :
                            Leads(a)' =>
                                /\ \A f \in events :
                                      f.invocation = a.invocation => a.timestamp <= f.timestamp
                                /\ \A u \in Emitters :
                                      emitting'[u].invocation = a.invocation =>
                                          a.timestamp <= emitting'[u].timestamp
    BY <1>6 DEF TimesGrow
  <2>1. /\ \A f \in events : ~Whole(f.timestamp) => f.timestamp <= clock[f.host]
        /\ \A u \in Emitters :
              emitting[u] # Silent /\ ~Whole(emitting[u].timestamp) =>
                  emitting[u].timestamp <= clock[emitting[u].host]
        /\ \A a \in events :
              Leads(a) =>
                  /\ \A f \in events : f.invocation = a.invocation => a.timestamp <= f.timestamp
                  /\ \A u \in Emitters :
                        emitting[u].invocation = a.invocation =>
                            a.timestamp <= emitting[u].timestamp
    BY DEF OrderingInv, TimesGrow
  <2>2. \A u \in Emitters :
           emitting'[u] # Silent /\ ~Whole(emitting'[u].timestamp) =>
               emitting'[u].timestamp <= clock[emitting'[u].host]
    BY <1>2, <1>3, <1>4, <1>7, <2>1
  <2>3. ASSUME NEW a \in events, Leads(a)'
        PROVE  /\ \A f \in events : f.invocation = a.invocation => a.timestamp <= f.timestamp
               /\ \A u \in Emitters :
                     emitting'[u].invocation = a.invocation =>
                         a.timestamp <= emitting'[u].timestamp
    <3>1. a.invocation \notin reruns' /\ Leads(a)
        BY <1>6, <2>3 DEF Leads, OfInvocation
    <3>2. ASSUME e.invocation = a.invocation
          PROVE  a.timestamp <= e.timestamp
      <4>1. PICK c \in events : c.invocation = inv /\ c.host = h
        BY <1>4, <1>10, <3>1, <3>2
      <4>2. a.host = h
        BY <1>4, <3>1, <3>2, <4>1 DEF OrderingInv, OneRun, Leads
      <4>3. a.timestamp <= clock[h] /\ a.timestamp \in Nat
        BY <1>5, <2>1, <3>1, <4>2, FieldTypes DEF Leads, EventsTyped, Apart
      <4> QED
        BY <1>2, <1>3, <1>4, <4>3
    <3> QED
        BY <1>7, <2>1, <3>1, <3>2
  <2> QED
    BY <2>1, <2>2, <2>3
<1> QED
    BY <1>6, <1>8, <1>9, <1>11, <1>12 DEF OrderingInv

LEMMA BeginKeepsOrderingInv ==
    ASSUME OrderingConstants, OrderingInv, NEW t \in Emitters, NEW h \in EventHosts,
           NEW inv \in 1..MaxEvents, NEW cause \in 0..MaxEvents, Begin(t, h, inv, cause)
    PROVE  OrderingInv'
<1>1. inv \in Nat \ {0} /\ cause \in Nat
    BY DEF OrderingConstants
<1>2. Emit(t, h, inv, cause) /\ (cause = 0 \/ \E f \in events : f.invocation = cause)
    BY DEF Begin, OfInvocation
<1>3. /\ \A i : i \notin reruns' => i \notin reruns
      /\ inv \notin reruns' => ~Known(inv)
  <2>1. reruns' = IF Known(inv) THEN reruns \cup {inv} ELSE reruns
    BY DEF Begin
  <2> QED
    BY <2>1
<1> QED
    BY <1>1, <1>2, <1>3, EmitKeepsOrderingInv

LEMMA ContinueKeepsOrderingInv ==
    ASSUME OrderingConstants, OrderingInv, NEW t \in Emitters, NEW c \in events, Continue(t, c)
    PROVE  OrderingInv'
<1>1. c \in EventType /\ c.host \in EventHosts /\ 1 <= c.invocation
    BY DEF OrderingInv, EventsTyped, EventsCaused, Apart
<1>2. PICK h \in EventHosts, inv \in Nat \ {0}, cause \in Nat :
          h = c.host /\ inv = c.invocation /\ cause = c.causation
    BY <1>1, FieldTypes
<1>3. Emit(t, h, inv, cause) /\ reruns' = reruns
    BY <1>2 DEF Continue
<1>4. cause = 0 \/ \E f \in events : f.invocation = cause
    BY <1>2 DEF OrderingInv, EventsCaused
<1>5. \E e \in events : e.invocation = inv /\ e.host = h
    BY <1>2
<1> QED
    BY <1>3, <1>4, <1>5, EmitKeepsOrderingInv

\* The stamp is dropped, and nothing else.
LEMMA AppendRaisesKeepsOrderingInv ==
    ASSUME OrderingConstants, OrderingInv, NEW t \in Emitters, AppendRaises(t)
    PROVE  OrderingInv'
<1>1. /\ events' = events /\ clock' = clock /\ stepped' = stepped /\ reruns' = reruns
      /\ emitting' = [emitting EXCEPT ![t] = Silent]
    BY DEF AppendRaises
<1>2. StampedCaused /\ emitting \in [Emitters -> StampedType] /\ Silent \in StampedType
    BY DEF OrderingInv, StampedCaused, Silent, StampedType
<1>3. /\ emitting' \in [Emitters -> StampedType]
      /\ \A u \in Emitters : emitting'[u] = Silent \/ emitting'[u] = emitting[u]
      /\ \A u \in Emitters : emitting'[u] # Silent => emitting'[u] = emitting[u]
    BY <1>1, <1>2
<1>4. EventsTyped' /\ SequencesGrow' /\ EventsCaused'
    BY <1>1 DEF OrderingInv, EventsTyped, SequencesGrow, EventsCaused, AtHost
<1>5. StampedCaused'
    BY <1>1, <1>2, <1>3 DEF StampedCaused
<1>6. \A e \in events : 1 <= e.invocation /\ e.invocation \in Nat
    BY FieldTypes DEF OrderingInv, EventsCaused, EventsTyped, Apart
<1>7. Silent.invocation = 0
    BY DEF Silent
<1>8. ASSUME NEW e \in events, NEW u \in Emitters, emitting'[u].invocation = e.invocation
      PROVE  emitting'[u] = emitting[u]
    BY <1>3, <1>6, <1>7, <1>8
<1>9. OneRun'
  <2>1. ASSUME NEW e \in events, e.invocation \notin reruns
        PROVE  /\ \A f \in events : f.invocation = e.invocation => f.host = e.host
               /\ \A u \in Emitters :
                     emitting'[u].invocation = e.invocation => emitting'[u].host = e.host
    BY <1>8, <2>1 DEF OrderingInv, OneRun
  <2>2. ASSUME NEW u \in Emitters, NEW w \in Emitters, emitting'[u] # Silent,
               emitting'[u].invocation = emitting'[w].invocation,
               emitting'[u].invocation \notin reruns,
               OfInvocation(events, emitting'[u].invocation) = {}
        PROVE  u = w
    <3>1. emitting'[u] = emitting[u] /\ 1 <= emitting[u].invocation
        BY <1>2, <1>3, <2>2 DEF StampedCaused
    <3>2. emitting'[w] = emitting[w]
        BY <1>3, <1>7, <2>2, <3>1
    <3> QED
        BY <2>2, <3>1, <3>2 DEF OrderingInv, OneRun
  <2> QED
    BY <1>1, <2>1, <2>2 DEF OneRun, OfInvocation
<1>10. TimesGrow'
  <2>1. \A a \in events : Leads(a)' <=> Leads(a)
    BY <1>1 DEF Leads, OfInvocation
  <2> QED
    BY <1>1, <1>3, <1>8, <2>1 DEF OrderingInv, TimesGrow
<1> QED
    BY <1>1, <1>4, <1>5, <1>9, <1>10 DEF OrderingInv

\* A host's first event, or one more.
LEMMA EventAdded ==
    ASSUME OrderingConstants, OrderingInv, NEW s \in StampedType, s.host \in EventHosts,
           NEW e, e = Sequenced(s), events' = events \cup {e}
    PROVE  /\ e \in EventType /\ e.host = s.host /\ e.invocation = s.invocation
           /\ e.causation = s.causation /\ e.timestamp = s.timestamp
           /\ e.event_id = Cardinality(events) + 1
           /\ EventsTyped' /\ SequencesGrow'
           /\ \A f \in events : f.event_id < e.event_id
<1> DEFINE h == s.host
<1>1. /\ IsFiniteSet(events) /\ Apart(events) /\ Cardinality(events) \in Nat
      /\ events \subseteq EventType
    BY FS_CardinalityType DEF OrderingInv, EventsTyped, Apart
<1>2. \A g : IsFiniteSet(AtHost(g)) /\ Cardinality(AtHost(g)) \in Nat
  <2>1. \A g : AtHost(g) \in SUBSET events
    BY DEF AtHost
  <2> QED
    BY <1>1, <2>1, FS_Subset, FS_CardinalityType
<1>3. /\ e = [event_id |-> Cardinality(events) + 1, host |-> h,
              sequence |-> Cardinality(AtHost(h)) + 1, invocation |-> s.invocation,
              causation |-> s.causation, timestamp |-> s.timestamp]
    BY DEF Sequenced, AtHost
<1>4. /\ h \in Nat /\ s.invocation \in Nat /\ s.causation \in Nat /\ s.timestamp \in Nat
    BY DEF StampedType
<1>0. h \in EventHosts
    OBVIOUS
<1> HIDE DEF h
<1>5. /\ e \in EventType /\ e.host = h /\ e.invocation = s.invocation
      /\ e.causation = s.causation /\ e.timestamp = s.timestamp
      /\ e.event_id = Cardinality(events) + 1
      /\ e.sequence = Cardinality(AtHost(h)) + 1
    BY <1>1, <1>2, <1>3, <1>4 DEF EventType
<1>6. \A f \in events : /\ f.event_id \in 1..Cardinality(events)
                        /\ f.sequence \in 1..Cardinality(AtHost(f.host))
                        /\ f.host \in EventHosts
    BY DEF OrderingInv, EventsTyped
<1>7. /\ \A f \in events : f.event_id < e.event_id
      /\ \A f \in events : f.host = h => f.sequence < e.sequence
    BY <1>1, <1>2, <1>5, <1>6
<1>8. e \notin events
    BY <1>1, <1>5, <1>7
<1>9. IsFiniteSet(events') /\ Cardinality(events') = Cardinality(events) + 1
    BY <1>1, <1>8, FS_AddElement
<1>10. Apart(events')
    BY <1>1, <1>5, <1>7 DEF Apart
<1>11. /\ Cardinality(AtHost(h)') = Cardinality(AtHost(h)) + 1
       /\ \A g : g # h => AtHost(g)' = AtHost(g)
  <2>1. AtHost(h)' = AtHost(h) \cup {e}
    BY <1>5 DEF AtHost
  <2>2. \A g : g # h => AtHost(g)' = AtHost(g)
    BY <1>5 DEF AtHost
  <2>3. e \notin AtHost(h)
    BY <1>8 DEF AtHost
  <2>4. Cardinality(AtHost(h) \cup {e}) = Cardinality(AtHost(h)) + 1
    BY <1>2, <2>3, FS_AddElement
  <2> QED
    BY <2>1, <2>2, <2>4
<1>12. EventsTyped'
  <2>1. ASSUME NEW f \in events'
        PROVE  /\ f.host \in EventHosts
               /\ f.event_id \in 1..Cardinality(events')
               /\ f.sequence \in 1..Cardinality(AtHost(f.host)')
    <3>1. CASE f = e
        BY <1>0, <1>1, <1>2, <1>5, <1>9, <1>11, <3>1
    <3>2. CASE f \in events
      <4>1. f.event_id \in 1..Cardinality(events')
        BY <1>1, <1>6, <1>9, <3>2
      <4>2. CASE f.host = h
        <5>1. f.sequence \in 1..Cardinality(AtHost(h)) /\ Cardinality(AtHost(h)) \in Nat
            BY <1>2, <1>6, <3>2, <4>2
        <5>2. f.sequence \in 1..Cardinality(AtHost(h)')
            BY <1>11, <5>1
        <5> QED
            BY <1>6, <3>2, <4>1, <4>2, <5>2
      <4>3. CASE f.host # h
        BY <1>6, <1>11, <3>2, <4>1, <4>3
      <4> QED
        BY <4>2, <4>3
    <3> QED
        BY <3>1, <3>2
  <2> QED
    BY <1>9, <1>10, <2>1 DEF EventsTyped
<1>13. SequencesGrow'
  <2>1. ASSUME NEW f \in events', NEW g \in events', f.host = g.host
        PROVE  f.sequence < g.sequence <=> f.event_id < g.event_id
    <3>1. \A i \in events : i.event_id \in Nat /\ i.sequence \in Nat
        BY <1>1, FieldTypes
    <3>2. e.event_id \in Nat /\ e.sequence \in Nat
        BY <1>5, FieldTypes
    <3>3. (f \in events \/ f = e) /\ (g \in events \/ g = e)
        OBVIOUS
    <3>4. f \in events /\ g \in events => (f.sequence < g.sequence <=> f.event_id < g.event_id)
        BY <2>1 DEF OrderingInv, SequencesGrow
    <3> QED
        BY <1>5, <1>7, <2>1, <3>1, <3>2, <3>3, <3>4
  <2> QED
    BY <2>1 DEF SequencesGrow
<1> QED
    BY <1>5, <1>7, <1>12, <1>13 DEF h

LEMMA AppendStampedKeepsOrderingInv ==
    ASSUME OrderingConstants, OrderingInv, NEW t \in Emitters, AppendStamped(t)
    PROVE  OrderingInv'
<1>1. PICK s, e : s = emitting[t] /\ e = Sequenced(s)
    OBVIOUS
<1>2. /\ s # Silent /\ events' = events \cup {e}
      /\ emitting' = [emitting EXCEPT ![t] = Silent]
      /\ clock' = clock /\ stepped' = stepped /\ reruns' = reruns
    BY <1>1 DEF AppendStamped
<1>3. /\ StampedCaused /\ emitting \in [Emitters -> StampedType] /\ Silent \in StampedType
      /\ Silent.invocation = 0
    BY DEF OrderingInv, StampedCaused, Silent, StampedType
<1>4. /\ s \in StampedType /\ s.host \in EventHosts /\ 1 <= s.invocation
      /\ s.causation = 0 \/ \E f \in events : f.invocation = s.causation
      /\ s.invocation \in Nat /\ s.timestamp \in Nat
    BY <1>1, <1>2, <1>3, StampedFields DEF StampedCaused
<1>5. /\ e \in EventType /\ e.host = s.host /\ e.invocation = s.invocation
      /\ e.causation = s.causation /\ e.timestamp = s.timestamp
      /\ EventsTyped' /\ SequencesGrow'
      /\ \A f \in events : f.event_id < e.event_id
    BY <1>1, <1>2, <1>4, EventAdded
<1>6. /\ emitting'[t] = Silent
      /\ \A u \in Emitters \ {t} : emitting'[u] = emitting[u]
      /\ emitting' \in [Emitters -> StampedType]
    BY <1>2, <1>3
<1>7. EventsCaused'
  <2>1. ASSUME NEW f \in events
        PROVE  /\ 1 <= f.invocation
               /\ \/ f.causation = 0
                  \/ \E g \in events' : g.invocation = f.causation /\ g.event_id < f.event_id
    BY <1>2 DEF OrderingInv, EventsCaused
  <2>2. /\ 1 <= e.invocation
        /\ \/ e.causation = 0
           \/ \E g \in events' : g.invocation = e.causation /\ g.event_id < e.event_id
    BY <1>2, <1>4, <1>5
  <2> QED
    BY <1>2, <2>1, <2>2 DEF EventsCaused
<1>8. StampedCaused'
  <2>1. ASSUME NEW u \in Emitters, emitting'[u] # Silent
        PROVE  /\ emitting'[u].host \in EventHosts
               /\ 1 <= emitting'[u].invocation
               /\ \/ emitting'[u].causation = 0
                  \/ \E f \in events' : f.invocation = emitting'[u].causation
    BY <1>2, <1>3, <1>6, <2>1 DEF StampedCaused
  <2> QED
    BY <1>6, <2>1 DEF StampedCaused
<1>9. /\ \A f \in events :
            f.invocation \notin reruns =>
                /\ \A g \in events : g.invocation = f.invocation => g.host = f.host
                /\ \A u \in Emitters :
                      emitting[u].invocation = f.invocation => emitting[u].host = f.host
      /\ \A u, w \in Emitters :
            (/\ emitting[u] # Silent
             /\ emitting[u].invocation = emitting[w].invocation
             /\ emitting[u].invocation \notin reruns
             /\ OfInvocation(events, emitting[u].invocation) = {}) => u = w
    BY DEF OrderingInv, OneRun
<1>10. ASSUME s.invocation \notin reruns, \A f \in events : f.invocation # s.invocation,
              NEW u \in Emitters
       PROVE  emitting'[u].invocation # s.invocation
  <2>1. OfInvocation(events, s.invocation) = {}
    BY <1>10 DEF OfInvocation
  <2>2. emitting[u].invocation = s.invocation => u = t
    BY <1>1, <1>2, <1>9, <1>10, <2>1
  <2> QED
    BY <1>3, <1>4, <1>6, <2>2
<1>11. OneRun'
  <2>1. ASSUME NEW f \in events, f.invocation \notin reruns
        PROVE  /\ \A g \in events' : g.invocation = f.invocation => g.host = f.host
               /\ \A u \in Emitters :
                     emitting'[u].invocation = f.invocation => emitting'[u].host = f.host
    <3>1. 1 <= f.invocation
        BY DEF OrderingInv, EventsCaused
    <3>2. e.invocation = f.invocation => e.host = f.host
        BY <1>1, <1>5, <1>9, <2>1
    <3> QED
        BY <1>2, <1>3, <1>6, <1>9, <2>1, <3>1, <3>2
  <2>2. ASSUME e.invocation \notin reruns
        PROVE  /\ \A g \in events' : g.invocation = e.invocation => g.host = e.host
               /\ \A u \in Emitters :
                     emitting'[u].invocation = e.invocation => emitting'[u].host = e.host
    <3>1. CASE \E f \in events : f.invocation = s.invocation
      <4>1. PICK f \in events : f.invocation = s.invocation
        BY <3>1
      <4>2. f.host = e.host
        BY <1>1, <1>5, <1>9, <2>2, <4>1
      <4> QED
        BY <1>5, <2>1, <2>2, <4>1, <4>2
    <3>2. CASE \A f \in events : f.invocation # s.invocation
        BY <1>2, <1>5, <1>10, <2>2, <3>2
    <3> QED
        BY <3>1, <3>2
  <2>3. ASSUME NEW u \in Emitters, NEW w \in Emitters, emitting'[u] # Silent,
               emitting'[u].invocation = emitting'[w].invocation,
               emitting'[u].invocation \notin reruns,
               OfInvocation(events', emitting'[u].invocation) = {}
        PROVE  u = w
    <3>1. u # t /\ emitting'[u] = emitting[u] /\ 1 <= emitting[u].invocation
        BY <1>3, <1>6, <2>3 DEF StampedCaused
    <3>2. w # t
        BY <1>3, <1>6, <2>3, <3>1
    <3>3. OfInvocation(events, emitting[u].invocation) = {}
        BY <1>2, <2>3, <3>1 DEF OfInvocation
    <3> QED
        BY <1>6, <1>9, <2>3, <3>1, <3>2, <3>3
  <2>4. \A f \in events' :
           f.invocation \notin reruns =>
               /\ \A g \in events' : g.invocation = f.invocation => g.host = f.host
               /\ \A u \in Emitters :
                     emitting'[u].invocation = f.invocation => emitting'[u].host = f.host
    BY <1>2, <2>1, <2>2
  <2> QED
    BY <1>2, <2>3, <2>4 DEF OneRun, OfInvocation
<1>12. TimesGrow'
  <2> SUFFICES ASSUME ~stepped
               PROVE  /\ \A f \in events' : ~Whole(f.timestamp) => f.timestamp <= clock[f.host]
                      /\ \A u \in Emitters :
                            emitting'[u] # Silent /\ ~Whole(emitting'[u].timestamp) =>
                                emitting'[u].timestamp <= clock[emitting'[u].host]
                      /\ \A a \in events' :
                            Leads(a)' =>
                                /\ \A f \in events' :
                                      f.invocation = a.invocation => a.timestamp <= f.timestamp
                                /\ \A u \in Emitters :
                                      emitting'[u].invocation = a.invocation =>
                                          a.timestamp <= emitting'[u].timestamp
    BY <1>2 DEF TimesGrow
  <2>1. /\ \A f \in events : ~Whole(f.timestamp) => f.timestamp <= clock[f.host]
        /\ \A u \in Emitters :
              emitting[u] # Silent /\ ~Whole(emitting[u].timestamp) =>
                  emitting[u].timestamp <= clock[emitting[u].host]
        /\ \A a \in events :
              Leads(a) =>
                  /\ \A f \in events : f.invocation = a.invocation => a.timestamp <= f.timestamp
                  /\ \A u \in Emitters :
                        emitting[u].invocation = a.invocation =>
                            a.timestamp <= emitting[u].timestamp
    BY DEF OrderingInv, TimesGrow
  <2>2. ASSUME NEW a \in events, Leads(a)'
        PROVE  /\ \A f \in events' : f.invocation = a.invocation => a.timestamp <= f.timestamp
               /\ \A u \in Emitters :
                     emitting'[u].invocation = a.invocation =>
                         a.timestamp <= emitting'[u].timestamp
    <3>1. Leads(a)
        BY <1>2, <2>2 DEF Leads, OfInvocation
    <3>2. 1 <= a.invocation
        BY DEF OrderingInv, EventsCaused
    <3> QED
        BY <1>1, <1>2, <1>3, <1>5, <1>6, <2>1, <3>1, <3>2
  <2>3. ASSUME Leads(e)'
        PROVE  /\ \A f \in events' : f.invocation = e.invocation => e.timestamp <= f.timestamp
               /\ \A u \in Emitters :
                     emitting'[u].invocation = e.invocation =>
                         e.timestamp <= emitting'[u].timestamp
    <3>1. /\ e.invocation \notin reruns
          /\ \A f \in events' : f.invocation = e.invocation => e.event_id <= f.event_id
        BY <1>2, <2>3 DEF Leads, OfInvocation
    <3>2. \A f \in events : f.event_id \in Nat /\ e.event_id \in Nat
        BY <1>5, FieldTypes DEF OrderingInv, EventsTyped, Apart
    <3>3. \A f \in events : f.invocation # s.invocation
        BY <1>2, <1>5, <3>1, <3>2
    <3>4. \A f \in events' : f.invocation = e.invocation => f = e
        BY <1>2, <1>5, <3>3
    <3>5. \A u \in Emitters : emitting'[u].invocation # e.invocation
        BY <1>5, <1>10, <3>1, <3>3
    <3>6. e.timestamp \in Nat
        BY <1>4, <1>5
    <3> QED
        BY <3>4, <3>5, <3>6
  <2>4. ~Whole(e.timestamp) => e.timestamp <= clock[e.host]
    BY <1>1, <1>2, <1>5, <2>1
  <2>5. \A u \in Emitters :
           emitting'[u] # Silent /\ ~Whole(emitting'[u].timestamp) =>
               emitting'[u].timestamp <= clock[emitting'[u].host]
    BY <1>6, <2>1
  <2> QED
    BY <1>2, <2>1, <2>2, <2>3, <2>4, <2>5
<1> QED
    BY <1>2, <1>5, <1>7, <1>8, <1>11, <1>12 DEF OrderingInv

LEMMA SetClockKeepsOrderingInv ==
    ASSUME OrderingConstants, OrderingInv,
           NEW h \in EventHosts, NEW time \in 1..MaxTime, SetClock(h, time)
    PROVE  OrderingInv'
<1>1. /\ events' = events /\ emitting' = emitting /\ reruns' = reruns
      /\ clock' = [clock EXCEPT ![h] = time]
      /\ stepped' = (stepped \/ time < clock[h])
      /\ clock \in [EventHosts -> Nat] /\ time \in Nat /\ stepped \in BOOLEAN
    BY DEF SetClock, OrderingInv, OrderingConstants
<1>2. clock' \in [EventHosts -> Nat] /\ stepped' \in BOOLEAN
    BY <1>1
<1>3. EventsTyped' /\ SequencesGrow' /\ EventsCaused' /\ StampedCaused' /\ OneRun'
    BY <1>1 DEF OrderingInv, EventsTyped, SequencesGrow, EventsCaused, StampedCaused, OneRun, AtHost
<1>4. TimesGrow'
  <2>1. CASE ~stepped'
    <3>1. ~stepped /\ ~(time < clock[h])
        BY <1>1, <2>1
    <3>2. ASSUME NEW g \in EventHosts, NEW stamp \in Nat, stamp <= clock[g]
          PROVE  stamp <= clock'[g]
      <4>1. clock[g] \in Nat /\ clock[h] \in Nat
        BY <1>1
      <4>2. clock'[g] = IF g = h THEN time ELSE clock[g]
        BY <1>1
      <4> QED
        BY <1>1, <3>1, <3>2, <4>1, <4>2
    <3>3. /\ \A e \in events : e.timestamp \in Nat /\ e.host \in EventHosts
          /\ \A t \in Emitters : emitting[t].timestamp \in Nat
          /\ \A t \in Emitters : emitting[t] # Silent => emitting[t].host \in EventHosts
      <4>1. StampedCaused /\ events \subseteq EventType
        BY DEF OrderingInv, EventsTyped, Apart
      <4> QED
        BY <4>1, FieldTypes, StampedFields DEF OrderingInv, EventsTyped, StampedCaused
    <3>4. \A a \in events : Leads(a)' <=> Leads(a)
        BY <1>1 DEF Leads
    <3>5. /\ \A e \in events : ~Whole(e.timestamp) => e.timestamp <= clock[e.host]
          /\ \A t \in Emitters :
                emitting[t] # Silent /\ ~Whole(emitting[t].timestamp) =>
                    emitting[t].timestamp <= clock[emitting[t].host]
        BY <3>1 DEF OrderingInv, TimesGrow
    <3>6. /\ \A e \in events : ~Whole(e.timestamp) => e.timestamp <= clock'[e.host]
          /\ \A t \in Emitters :
                emitting[t] # Silent /\ ~Whole(emitting[t].timestamp) =>
                    emitting[t].timestamp <= clock'[emitting[t].host]
        BY <3>2, <3>3, <3>5
    <3> QED
        BY <1>1, <3>1, <3>4, <3>6 DEF OrderingInv, TimesGrow
  <2>2. CASE stepped'
    BY <2>2 DEF TimesGrow
  <2> QED
    BY <2>1, <2>2
<1> QED
    BY <1>2, <1>3, <1>4 DEF OrderingInv

\* The first event of a cause that was begun once, and not on a whole second, is the
\* least of its invocation, and was there before what it caused.
LEMMA SpawnsAreLeast ==
    ASSUME OrderingConstants, OrderingInv, ~stepped,
           NEW a \in events, NEW b \in events, Spawns(a, b),
           a.invocation \notin reruns, ~Whole(a.timestamp)
    PROVE  /\ a \in OfInvocation(events, b.causation)
           /\ a = Least(OfInvocation(events, b.causation))
           /\ a.event_id < b.event_id
<1>1. events \subseteq EventType /\ Apart(events)
    BY DEF OrderingInv, EventsTyped, Apart
<1>2. PICK es : es = OfInvocation(events, b.causation)
    OBVIOUS
<1>3. es \subseteq events /\ Apart(es)
    BY <1>1, <1>2 DEF OfInvocation, Apart
<1>4. /\ b.causation = a.invocation /\ a \in es
      /\ \A e \in es : a.event_id <= e.event_id
    BY <1>2 DEF Spawns, OfInvocation
<1>5. \A e \in es : e.invocation = a.invocation
    BY <1>2, <1>4 DEF OfInvocation
<1>6. Leads(a)
    BY <1>2, <1>4 DEF Leads
<1>7. \A e \in es : e.host = a.host /\ a.timestamp <= e.timestamp
    BY <1>3, <1>5, <1>6 DEF OrderingInv, OneRun, TimesGrow
<1>8. PICK l : l = Least(es)
    OBVIOUS
<1>9. l \in es /\ \A f \in es \ {l} : Before(l, f)
    BY <1>3, <1>4, <1>8, LeastMeans
<1>10. a = l
  <2> SUFFICES ASSUME a # l
               PROVE  FALSE
    OBVIOUS
  <2>1. Before(l, a) /\ l.host = a.host /\ a.timestamp <= l.timestamp
    BY <1>4, <1>7, <1>9
  <2>2. /\ a.event_id \in Nat /\ l.event_id \in Nat /\ a.host \in Nat
        /\ a.sequence \in Nat /\ l.sequence \in Nat
        /\ a.timestamp \in Nat /\ l.timestamp \in Nat
    BY <1>1, <1>3, <1>9, FieldTypes
  <2>3. l.sequence < a.sequence \/ l.event_id < a.event_id
    BY <2>1, <2>2 DEF Before
  <2>4. l.event_id < a.event_id
    BY <1>3, <1>9, <2>1, <2>3 DEF OrderingInv, SequencesGrow
  <2> QED
    BY <1>4, <1>9, <2>2, <2>4
<1>11. a.event_id < b.event_id
  <2>1. 1 <= a.invocation
    BY DEF OrderingInv, EventsCaused
  <2>2. PICK f \in events : f.invocation = b.causation /\ f.event_id < b.event_id
    BY <1>4, <2>1 DEF OrderingInv, EventsCaused
  <2>3. a.event_id <= f.event_id
    BY <1>2, <1>4, <2>2 DEF OfInvocation
  <2>4. a.event_id \in Nat /\ f.event_id \in Nat /\ b.event_id \in Nat
    BY <1>1, FieldTypes
  <2> QED
    BY <2>2, <2>3, <2>4
<1> QED
    BY <1>2, <1>4, <1>8, <1>10, <1>11

\* Of the events of an invocation one was appended first.
LEMMA SomeSpawns ==
    ASSUME OrderingInv, NEW b \in events, OfInvocation(events, b.causation) # {}
    PROVE  \E a \in events : Spawns(a, b)
<1> DEFINE es == OfInvocation(events, b.causation)
           ids == {e.event_id : e \in es}
<1>1. es \subseteq events /\ \A e \in es : e.event_id \in Nat
    BY FieldTypes DEF OfInvocation, OrderingInv, EventsTyped, Apart
<1>2. PICK i \in ids : \A j \in ids : ~(j < i)
  <2>1. ids \subseteq Nat /\ ids # {}
    BY <1>1
  <2> HIDE DEF ids
  <2> QED
    BY <2>1, LeastElement
<1>3. PICK a \in es : a.event_id = i
    BY <1>2
<1>4. \A e \in es : a.event_id <= e.event_id
  <2>1. ASSUME NEW e \in es
        PROVE  ~(e.event_id < a.event_id)
    BY <1>2, <1>3
  <2> QED
    BY <1>1, <1>3, <2>1
<1>5. a \in events /\ a.invocation = b.causation
    BY <1>3 DEF OfInvocation
<1> QED
    BY <1>4, <1>5 DEF Spawns

\* So an edge leads to an event that was appended later, and each cause to its effect.
LEMMA EdgesGoForward ==
    ASSUME OrderingConstants, OrderingInv, ~stepped,
           \A a, b \in events : Spawns(a, b) => a.invocation \notin reruns /\ ~Whole(a.timestamp)
    PROVE  /\ \A p \in Edges(events) : p[1].event_id < p[2].event_id
           /\ \A a, b \in events : Causes(a, b) => <<a, b>> \in Edges(events)
<1>1. events \subseteq EventType
    BY DEF OrderingInv, EventsTyped, Apart
<1>2. ASSUME NEW p \in Edges(events)
      PROVE  p[1].event_id < p[2].event_id
  <2>1. p[1] \in events /\ p[2] \in events
    BY DEF Edges
  <2>2. CASE p[1].host = p[2].host /\ p[1].sequence < p[2].sequence
    BY <2>1, <2>2 DEF OrderingInv, SequencesGrow
  <2>3. CASE /\ OfInvocation(events, p[2].causation) # {}
             /\ p[1] = Least(OfInvocation(events, p[2].causation))
    <3>1. PICK b \in events : b = p[2]
        BY <2>1
    <3>2. PICK a \in events : Spawns(a, b)
        BY <2>3, <3>1, SomeSpawns
    <3>3. a.invocation \notin reruns /\ ~Whole(a.timestamp)
        BY <3>2
    <3>4. a = Least(OfInvocation(events, b.causation)) /\ a.event_id < b.event_id
        BY <3>2, <3>3, SpawnsAreLeast
    <3> QED
        BY <2>3, <3>1, <3>4
  <2> QED
    BY <2>2, <2>3 DEF Edges
<1>3. ASSUME NEW a \in events, NEW b \in events, Causes(a, b)
      PROVE  <<a, b>> \in Edges(events)
  <2>1. <<a, b>>[1] = a /\ <<a, b>>[2] = b /\ <<a, b>> \in events \X events
    OBVIOUS
  <2>2. CASE a.host = b.host /\ a.sequence < b.sequence
    BY <2>1, <2>2 DEF Edges
  <2>3. CASE Spawns(a, b)
    <3>1. a.invocation \notin reruns /\ ~Whole(a.timestamp)
        BY <2>3
    <3>2. /\ a \in OfInvocation(events, b.causation)
          /\ a = Least(OfInvocation(events, b.causation))
          /\ a.event_id < b.event_id
        BY <2>3, <3>1, SpawnsAreLeast
    <3>3. a # b
        BY <1>1, <3>2, FieldTypes
    <3>4. OfInvocation(events, b.causation) # {}
        BY <3>2
    <3> QED
        BY <2>1, <3>2, <3>3, <3>4 DEF Edges
  <2> QED
    BY <1>3, <2>2, <2>3 DEF Causes
<1> QED
    BY <1>2, <1>3

\* So they make no cycle.
LEMMA ForwardIsAcyclic ==
    ASSUME NEW es, es \subseteq EventType,
           \A p \in Edges(es) : p[1].event_id < p[2].event_id
    PROVE  Acyclic(es)
<1> SUFFICES ASSUME NEW some \in (SUBSET es) \ {{}}
             PROVE  \E e \in some : \A p \in Edges(es) : p[2] = e => p[1] \notin some
    BY DEF Acyclic
<1> DEFINE ids == {e.event_id : e \in some}
<1>1. PICK i \in ids : \A j \in ids : ~(j < i)
  <2>1. ids \subseteq Nat /\ ids # {}
    BY FieldTypes
  <2> HIDE DEF ids
  <2> QED
    BY <2>1, LeastElement
<1>2. PICK e \in some : e.event_id = i
    BY <1>1
<1>3. ASSUME NEW p \in Edges(es), p[2] = e, p[1] \in some
      PROVE  FALSE
  <2>1. p[1].event_id < i
    BY <1>2, <1>3
  <2> QED
    BY <1>1, <1>3, <2>1
<1> QED
    BY <1>2, <1>3

LEMMA OrderingInvMeans ==
    ASSUME OrderingConstants, OrderingInv
    PROVE  OrderingSafe
<1>1. /\ IsFiniteSet(events) /\ Apart(events) /\ events \subseteq EventType
    BY DEF OrderingInv, EventsTyped, Apart
<1>2. PICK order : order = OrderEvents(events)
    OBVIOUS
<1>3. ConsistentUnderSkew
  <2> SUFFICES ASSUME ~stepped,
                      \A a, b \in events :
                         Spawns(a, b) => a.invocation \notin reruns /\ ~Whole(a.timestamp),
                      NEW a \in events, NEW b \in events, Causes(a, b)
               PROVE  Place(order, a) < Place(order, b)
    BY <1>2 DEF ConsistentUnderSkew, CausallyConsistent
  <2>1. /\ \A p \in Edges(events) : p[1].event_id < p[2].event_id
        /\ <<a, b>> \in Edges(events)
    BY EdgesGoForward
  <2>2. Acyclic(events)
    BY <1>1, <2>1, ForwardIsAcyclic
  <2> QED
    BY <1>1, <1>2, <2>1, <2>2, EdgesRespected
<1>4. OrderExtendsEdges
  <2>1. Len(order) = Cardinality(events) /\ Emitted(order) = events
    BY <1>1, <1>2, OrderHasAll
  <2>2. ASSUME Acyclic(events), NEW p \in Edges(events)
        PROVE  Place(order, p[1]) < Place(order, p[2])
    <3>1. p[1] \in events /\ p[2] \in events /\ p = <<p[1], p[2]>>
        BY DEF Edges
    <3> QED
        BY <1>1, <1>2, <2>2, <3>1, EdgesRespected
  <2>3. ASSUME Acyclic(events)
        PROVE  CausalAcyclic(events)
    BY <1>1, <2>3, AcyclicAccepted
  <2> QED
    BY <1>2, <2>1, <2>2, <2>3 DEF OrderExtendsEdges, Emitted
<1>5. OnlyCausesDelay
    BY <1>1, <1>2, DelayIsCaused DEF OnlyCausesDelay
<1> QED
    BY <1>3, <1>4, <1>5 DEF OrderingSafe

\* Whatever the clocks do, whichever threads overtake each other and however often
\* an invocation is begun, the order that order_events gives holds every event once,
\* respects what the events say of their causes where that makes no cycle, and delays
\* none of them for another reason.  No cause is behind its effect while no clock is
\* set back and every cause was begun once, and not on a whole second.
THEOREM OrderingStaysSafe == OrderingSpec => []OrderingSafe
<1>1. OrderingConstants
    BY OrderingConstants
<1>2. OrderingInit => OrderingInv
    BY <1>1, OrderingInvInit
<1>3. OrderingInv /\ [OrderingNext]_orderingVars => OrderingInv'
  <2> SUFFICES ASSUME OrderingInv, [OrderingNext]_orderingVars
               PROVE  OrderingInv'
    OBVIOUS
  <2>1. CASE UNCHANGED orderingVars
    <3>1. /\ events' = events /\ emitting' = emitting /\ clock' = clock
          /\ stepped' = stepped /\ reruns' = reruns
        BY <2>1 DEF orderingVars
    <3>2. \A a : Leads(a)' <=> Leads(a)
        BY <3>1 DEF Leads
    <3>3. TimesGrow' <=> TimesGrow
        BY <3>1, <3>2 DEF TimesGrow
    <3> QED
        BY <3>1, <3>3 DEF OrderingInv, EventsTyped, SequencesGrow, EventsCaused,
                          StampedCaused, OneRun, AtHost
  <2>2. ASSUME NEW t \in Emitters, NEW h \in EventHosts, NEW inv \in 1..MaxEvents,
               NEW cause \in 0..MaxEvents, Begin(t, h, inv, cause)
        PROVE  OrderingInv'
    BY <1>1, <2>2, BeginKeepsOrderingInv
  <2>3. ASSUME NEW t \in Emitters, NEW e \in events, Continue(t, e)
        PROVE  OrderingInv'
    BY <1>1, <2>3, ContinueKeepsOrderingInv
  <2>4. ASSUME NEW t \in Emitters, AppendStamped(t)
        PROVE  OrderingInv'
    BY <1>1, <2>4, AppendStampedKeepsOrderingInv
  <2>5. ASSUME NEW t \in Emitters, AppendRaises(t)
        PROVE  OrderingInv'
    BY <1>1, <2>5, AppendRaisesKeepsOrderingInv
  <2>6. ASSUME NEW h \in EventHosts, NEW time \in 1..MaxTime, SetClock(h, time)
        PROVE  OrderingInv'
    BY <1>1, <2>6, SetClockKeepsOrderingInv
  <2> QED
    BY <2>1, <2>2, <2>3, <2>4, <2>5, <2>6 DEF OrderingNext
<1>4. OrderingInv => OrderingSafe
    BY <1>1, OrderingInvMeans
<1> QED
    BY <1>2, <1>3, <1>4, PTL DEF OrderingSpec

-----------------------------------------------------------------------------
(***************************************************************************)
(* Where a tree is split                                                   *)
(***************************************************************************)
SplitStep(f, n, k) == IF k * 2 < n THEN f[k * 2] ELSE k

LEMMA SplitStepsExist ==
    ASSUME NEW n \in Nat
    PROVE  \A d \in Nat : \E f : \A k \in 1..n : n - k <= d => f[k] = SplitStep(f, n, k)
<1> DEFINE P == {d \in Nat : \E f : \A k \in 1..n : n - k <= d => f[k] = SplitStep(f, n, k)}
<1>1. 0 \in P
  <2> DEFINE f == [k \in 1..n |-> k]
  <2>1. ASSUME NEW k \in 1..n, n - k <= 0
        PROVE  f[k] = SplitStep(f, n, k)
    <3>1. k = n /\ ~(k * 2 < n)
        BY <2>1
    <3> QED
        BY <3>1 DEF SplitStep
  <2> HIDE DEF f
  <2> QED
    BY <2>1
<1>2. ASSUME NEW d \in Nat, d \in P
      PROVE  d + 1 \in P
  <2>1. PICK f : \A k \in 1..n : n - k <= d => f[k] = SplitStep(f, n, k)
    BY <1>2
  <2> DEFINE g == [k \in 1..n |-> IF n - k <= d THEN f[k] ELSE SplitStep(f, n, k)]
  <2>2. \A k \in 1..n : /\ n - k <= d => g[k] = f[k]
                        /\ ~(n - k <= d) => g[k] = SplitStep(f, n, k)
    OBVIOUS
  <2> HIDE DEF g
  <2>3. ASSUME NEW k \in 1..n, n - k <= d + 1
        PROVE  g[k] = SplitStep(g, n, k)
    <3>1. g[k] = SplitStep(f, n, k)
        BY <2>1, <2>2
    <3>2. CASE k * 2 < n
      <4>1. k * 2 \in 1..n /\ n - k * 2 <= d
        BY <2>3, <3>2
      <4> QED
        BY <2>2, <3>1, <3>2, <4>1 DEF SplitStep
    <3>3. CASE ~(k * 2 < n)
        BY <3>1, <3>3 DEF SplitStep
    <3> QED
        BY <3>2, <3>3
  <2> QED
    BY <2>3
<1>3. Nat \subseteq P
  <2> HIDE DEF P
  <2> QED
    BY <1>1, <1>2, Induction
<1> QED
    BY <1>3

LEMMA SplitDef ==
    ASSUME NEW n \in Nat
    PROVE  \E f : (\A k \in 1..n : f[k] = SplitStep(f, n, k)) /\ Split(n) = f[1]
<1>1. PICK f : \A k \in 1..n : n - k <= n => f[k] = SplitStep(f, n, k)
    BY SplitStepsExist
<1>2. PICK g : g = [k \in 1..n |-> f[k]]
    OBVIOUS
<1>3. ASSUME NEW k \in 1..n
      PROVE  f[k] = SplitStep(g, n, k)
  <2>1. f[k] = SplitStep(f, n, k)
    BY <1>1
  <2>2. CASE k * 2 < n
    <3>1. k * 2 \in 1..n
        BY <2>2
    <3> QED
        BY <1>2, <2>1, <2>2, <3>1 DEF SplitStep
  <2>3. CASE ~(k * 2 < n)
    BY <2>1, <2>3 DEF SplitStep
  <2> QED
    BY <2>2, <2>3
<1> DEFINE Is(h) == h = [k \in 1..n |-> SplitStep(h, n, k)]
<1>4. Is(g)
    BY <1>2, <1>3
<1> DEFINE from == CHOOSE h : Is(h)
<1>5. Is(from)
    BY <1>4
<1>6. Split(n) = from[1]
    BY DEF Split, SplitStep
<1> HIDE DEF from
<1>7. \A k \in 1..n : from[k] = SplitStep(from, n, k)
    BY <1>5
<1> QED
    BY <1>6, <1>7

\* Both parts of a split have something.
LEMMA SplitParts ==
    ASSUME NEW n \in Nat, n > 1
    PROVE  Split(n) \in 1..n - 1
<1>1. PICK f : (\A k \in 1..n : f[k] = SplitStep(f, n, k)) /\ Split(n) = f[1]
    BY SplitDef
<1> DEFINE P == {d \in Nat : \A k \in 1..n - 1 : n - k <= d => f[k] \in 1..n - 1}
<1>2. 0 \in P
    OBVIOUS
<1>3. ASSUME NEW d \in Nat, d \in P
      PROVE  d + 1 \in P
  <2>1. ASSUME NEW k \in 1..n - 1, n - k <= d + 1
        PROVE  f[k] \in 1..n - 1
    <3>1. f[k] = SplitStep(f, n, k)
        BY <1>1
    <3>2. CASE k * 2 < n
      <4>1. k * 2 \in 1..n - 1 /\ n - k * 2 <= d
        BY <2>1, <3>2
      <4>2. f[k * 2] \in 1..n - 1
        BY <1>3, <4>1
      <4> QED
        BY <3>1, <3>2, <4>2 DEF SplitStep
    <3>3. CASE ~(k * 2 < n)
        BY <3>1, <3>3 DEF SplitStep
    <3> QED
        BY <3>2, <3>3
  <2> QED
    BY <2>1
<1>4. Nat \subseteq P
  <2> HIDE DEF P
  <2> QED
    BY <1>2, <1>3, Induction
<1>5. n \in P /\ 1 \in 1..n - 1 /\ n - 1 <= n
    BY <1>4
<1> QED
    BY <1>1, <1>5

\* A smaller tree that has more than the left part is split at the same place.
LEMMA SplitAlike ==
    ASSUME NEW m \in Nat, NEW n \in Nat, n > 1, Split(n) < m, m <= n
    PROVE  Split(m) = Split(n)
<1>1. PICK f : (\A k \in 1..n : f[k] = SplitStep(f, n, k)) /\ Split(n) = f[1]
    BY SplitDef
<1>2. PICK g : (\A k \in 1..m : g[k] = SplitStep(g, m, k)) /\ Split(m) = g[1]
    BY SplitDef
<1>3. Split(n) \in 1..n - 1
    BY SplitParts
<1> DEFINE P == {d \in Nat : \A k \in 1..n - 1 :
                    n - k <= d /\ f[k] = Split(n) => k <= Split(n) /\ g[k] = Split(n)}
<1>4. 0 \in P
    OBVIOUS
<1>5. ASSUME NEW d \in Nat, d \in P
      PROVE  d + 1 \in P
  <2>1. ASSUME NEW k \in 1..n - 1, n - k <= d + 1, f[k] = Split(n)
        PROVE  k <= Split(n) /\ g[k] = Split(n)
    <3>1. f[k] = SplitStep(f, n, k)
        BY <1>1
    <3>2. CASE k * 2 < n
      <4>1. k * 2 \in 1..n - 1 /\ n - k * 2 <= d
        BY <2>1, <3>2
      <4>2. k * 2 <= Split(n) /\ g[k * 2] = Split(n)
        BY <1>5, <2>1, <3>1, <3>2, <4>1 DEF SplitStep
      <4>3. k \in 1..m /\ k * 2 < m
        BY <1>3, <4>2
      <4>4. g[k] = g[k * 2]
        BY <1>2, <4>3 DEF SplitStep
      <4> QED
        BY <1>3, <4>2, <4>4
    <3>3. CASE ~(k * 2 < n)
      <4>1. Split(n) = k
        BY <2>1, <3>1, <3>3 DEF SplitStep
      <4>2. k \in 1..m /\ ~(k * 2 < m)
        BY <1>3, <3>3, <4>1
      <4>3. g[k] = k
        BY <1>2, <4>2 DEF SplitStep
      <4> QED
        BY <1>3, <4>1, <4>3
    <3> QED
        BY <3>2, <3>3
  <2> QED
    BY <2>1
<1>6. Nat \subseteq P
  <2> HIDE DEF P
  <2> QED
    BY <1>4, <1>5, Induction
<1>7. n \in P /\ 1 \in 1..n - 1 /\ n - 1 <= n
    BY <1>6
<1> QED
    BY <1>1, <1>2, <1>7

-----------------------------------------------------------------------------
(***************************************************************************)
(* Roots                                                                   *)
(***************************************************************************)
LEMMA SliceParts ==
    ASSUME NEW size \in Nat, NEW s \in Slices(size)
    PROVE  /\ s[1] \in Nat /\ s[2] \in Nat /\ s[1] + s[2] <= size
           /\ s[2] > 1 =>
                 /\ Left(s) \in Slices(size) /\ Right(s) \in Slices(size)
                 /\ Left(s)[1] = s[1] /\ Right(s)[1] = s[1] + Split(s[2])
                 /\ Left(s)[2] = Split(s[2]) /\ Right(s)[2] = s[2] - Split(s[2])
                 /\ Split(s[2]) \in 1..s[2] - 1
<1>1. s[1] \in Nat /\ s[2] \in Nat /\ s[1] + s[2] <= size
    BY DEF Slices
<1>2. ASSUME s[2] > 1
      PROVE  /\ Left(s) \in Slices(size) /\ Right(s) \in Slices(size)
             /\ Left(s)[1] = s[1] /\ Right(s)[1] = s[1] + Split(s[2])
             /\ Left(s)[2] = Split(s[2]) /\ Right(s)[2] = s[2] - Split(s[2])
             /\ Split(s[2]) \in 1..s[2] - 1
  <2>1. Split(s[2]) \in 1..s[2] - 1
    BY <1>1, <1>2, SplitParts
  <2> QED
    BY <1>1, <1>2, <2>1 DEF Left, Right, Slices
<1> QED
    BY <1>1, <1>2

\* What a slice is split into is shorter.
LEMMA PartsShorter ==
    ASSUME NEW size \in Nat, NEW s \in Slices(size), s[2] > 1, NEW m \in Nat, s[2] <= m + 1
    PROVE  /\ Left(s) \in Slices(size) /\ Left(s)[2] \in 1..m
           /\ Right(s) \in Slices(size) /\ Right(s)[2] \in 1..m
    BY SliceParts

RootStep(f, leaves, s) ==
    IF s[2] = 0 THEN EmptyHash
    ELSE IF s[2] = 1 THEN LeafHash(leaves[s[1] + 1])
    ELSE NodeHash(f[Left(s)], f[Right(s)])

\* f and g are the same on the slices of no more than m leaves.
SlicesAgree(f, g, S, m) == \A s \in S : s[2] <= m => f[s] = g[s]

LEMMA RootStepLocal ==
    ASSUME NEW leaves, Len(leaves) \in Nat, NEW m \in Nat, NEW f, NEW g,
           SlicesAgree(f, g, Slices(Len(leaves)), m),
           NEW s \in Slices(Len(leaves)), s[2] <= m + 1
    PROVE  RootStep(f, leaves, s) = RootStep(g, leaves, s)
<1>1. CASE s[2] > 1
  <2>1. f[Left(s)] = g[Left(s)] /\ f[Right(s)] = g[Right(s)]
    BY <1>1, PartsShorter DEF SlicesAgree
  <2> QED
    BY <1>1, <2>1 DEF RootStep
<1>2. CASE s[2] = 0 \/ s[2] = 1
    BY <1>2 DEF RootStep
<1> QED
    BY <1>1, <1>2, SliceParts

RootsUpTo(f, leaves, m) ==
    \A s \in Slices(Len(leaves)) : s[2] <= m => f[s] = RootStep(f, leaves, s)

LEMMA RootsExist ==
    ASSUME NEW leaves, Len(leaves) \in Nat
    PROVE  \A m \in Nat : \E f : RootsUpTo(f, leaves, m)
<1> DEFINE P == {m \in Nat : \E f : RootsUpTo(f, leaves, m)}
<1>1. 0 \in P
  <2>1. PICK f : f = [s \in Slices(Len(leaves)) |-> EmptyHash]
    OBVIOUS
  <2>2. ASSUME NEW s \in Slices(Len(leaves)), s[2] <= 0
        PROVE  f[s] = RootStep(f, leaves, s)
    <3>1. s[2] = 0
        BY <2>2, SliceParts
    <3> QED
        BY <2>1, <3>1 DEF RootStep
  <2> QED
    BY <2>2 DEF RootsUpTo
<1>2. ASSUME NEW m \in Nat, m \in P
      PROVE  m + 1 \in P
  <2>1. PICK f : RootsUpTo(f, leaves, m)
    BY <1>2
  <2>2. PICK g : g = [s \in Slices(Len(leaves)) |-> RootStep(f, leaves, s)]
    OBVIOUS
  <2>3. \A s \in Slices(Len(leaves)) : g[s] = RootStep(f, leaves, s)
    BY <2>2
  <2>4. SlicesAgree(f, g, Slices(Len(leaves)), m)
    BY <2>1, <2>3 DEF SlicesAgree, RootsUpTo
  <2>5. \A s \in Slices(Len(leaves)) : s[2] <= m + 1 =>
                      RootStep(f, leaves, s) = RootStep(g, leaves, s)
    BY <2>4, RootStepLocal
  <2>6. RootsUpTo(g, leaves, m + 1)
    BY <2>3, <2>5 DEF RootsUpTo
  <2> QED
    BY <2>6
<1>3. Nat \subseteq P
  <2> HIDE DEF P
  <2> QED
    BY <1>1, <1>2, Induction
<1> QED
    BY <1>3

\* The root of a slice, from those of the slices it is split into.
LEMMA RootsDef ==
    ASSUME NEW leaves, Len(leaves) \in Nat, NEW s \in Slices(Len(leaves))
    PROVE  Roots(leaves)[s] = RootStep(Roots(leaves), leaves, s)
<1>1. PICK f : RootsUpTo(f, leaves, Len(leaves))
    BY RootsExist
<1>2. PICK g : g = [t \in Slices(Len(leaves)) |-> RootStep(f, leaves, t)]
    OBVIOUS
<1>3. \A t \in Slices(Len(leaves)) : t[2] <= Len(leaves) /\ t[2] <= Len(leaves) + 1
    BY SliceParts
<1>4. SlicesAgree(f, g, Slices(Len(leaves)), Len(leaves))
    BY <1>1, <1>2, <1>3 DEF SlicesAgree, RootsUpTo
<1>5. \A t \in Slices(Len(leaves)) : RootStep(f, leaves, t) = RootStep(g, leaves, t)
    BY <1>3, <1>4, RootStepLocal
<1> DEFINE Is(h) == h = [t \in Slices(Len(leaves)) |-> RootStep(h, leaves, t)]
<1>6. Is(g)
    BY <1>2, <1>5
<1> DEFINE root == CHOOSE h : Is(h)
<1>7. Is(root)
    BY <1>6
<1>8. Roots(leaves) = root
    BY DEF Roots, RootStep
<1> HIDE DEF root
<1>9. root[s] = RootStep(root, leaves, s)
    BY <1>7
<1> QED
    BY <1>8, <1>9

\* A hash is the term of what was hashed.
LEMMA Hashes ==
    ASSUME NEW a, NEW b, NEW c, NEW d
    PROVE  /\ LeafHash(a) = LeafHash(b) <=> a = b
           /\ NodeHash(a, b) = NodeHash(c, d) <=> a = c /\ b = d
           /\ LeafHash(a) # NodeHash(b, c) /\ LeafHash(a) # EmptyHash
           /\ NodeHash(a, b) # EmptyHash
<1>1. /\ LeafHash(a)[1] = "leaf" /\ LeafHash(a)[2] = a /\ LeafHash(b)[2] = b
      /\ NodeHash(a, b)[1] = "node" /\ NodeHash(a, b)[2] = a /\ NodeHash(a, b)[3] = b
      /\ NodeHash(c, d)[1] = "node" /\ NodeHash(c, d)[2] = c /\ NodeHash(c, d)[3] = d
      /\ EmptyHash[1] = "empty"
    BY DEF LeafHash, NodeHash, EmptyHash
<1>2. "leaf" # "node" /\ "leaf" # "empty" /\ "node" # "empty"
    OBVIOUS
<1>3. /\ LeafHash(a) # NodeHash(b, c) /\ LeafHash(a) # EmptyHash
      /\ NodeHash(a, b) # EmptyHash
  <2>1. NodeHash(b, c)[1] = "node"
    BY DEF NodeHash
  <2> QED
    BY <1>1, <1>2, <2>1
<1>4. LeafHash(a) = LeafHash(b) <=> a = b
    BY <1>1
<1>5. NodeHash(a, b) = NodeHash(c, d) <=> a = c /\ b = d
    BY <1>1
<1> QED
    BY <1>3, <1>4, <1>5

LEMMA NodesTell ==
    ASSUME NEW a, NEW b, NEW c, NEW d, NodeHash(a, b) = NodeHash(c, d)
    PROVE  a = c /\ b = d
    BY Hashes

\* The same leaves.
SameLeaves(v, s, w, t) ==
    /\ s[2] = t[2]
    /\ \A i \in 1..s[2] : v[s[1] + i] = w[t[1] + i]

LEMMA RootCases ==
    ASSUME NEW v, Len(v) \in Nat, NEW s \in Slices(Len(v))
    PROVE  /\ s[2] = 0 => Roots(v)[s] = EmptyHash
           /\ s[2] = 1 => Roots(v)[s] = LeafHash(v[s[1] + 1])
           /\ s[2] > 1 => Roots(v)[s] = NodeHash(Roots(v)[Left(s)], Roots(v)[Right(s)])
<1>1. Roots(v)[s] = RootStep(Roots(v), v, s) /\ s[2] \in Nat
    BY RootsDef, SliceParts
<1> QED
    BY <1>1 DEF RootStep

\* Two slices have the same leaves if their parts have.
LEMMA SameParts ==
    ASSUME NEW v, Len(v) \in Nat, NEW w, Len(w) \in Nat,
           NEW s \in Slices(Len(v)), NEW t \in Slices(Len(w)), s[2] > 1, t[2] > 1
    PROVE  SameLeaves(v, s, w, t) <=>
              SameLeaves(v, Left(s), w, Left(t)) /\ SameLeaves(v, Right(s), w, Right(t))
<1>1. /\ s[1] \in Nat /\ s[2] \in Nat /\ t[1] \in Nat /\ t[2] \in Nat
      /\ Left(s)[1] = s[1] /\ Right(s)[1] = s[1] + Split(s[2])
      /\ Left(s)[2] = Split(s[2]) /\ Right(s)[2] = s[2] - Split(s[2])
      /\ Split(s[2]) \in 1..s[2] - 1
      /\ Left(t)[1] = t[1] /\ Right(t)[1] = t[1] + Split(t[2])
      /\ Left(t)[2] = Split(t[2]) /\ Right(t)[2] = t[2] - Split(t[2])
      /\ Split(t[2]) \in 1..t[2] - 1
    BY SliceParts
<1>2. ASSUME SameLeaves(v, s, w, t)
      PROVE  SameLeaves(v, Left(s), w, Left(t)) /\ SameLeaves(v, Right(s), w, Right(t))
  <2>1. s[2] = t[2] /\ \A i \in 1..s[2] : v[s[1] + i] = w[t[1] + i]
    BY <1>2 DEF SameLeaves
  <2>2. Left(s)[2] = Left(t)[2] /\ Right(s)[2] = Right(t)[2]
    BY <1>1, <2>1
  <2>3. \A i \in 1..Left(s)[2] : v[Left(s)[1] + i] = w[Left(t)[1] + i]
    BY <1>1, <2>1
  <2>4. ASSUME NEW i \in 1..Right(s)[2]
        PROVE  v[Right(s)[1] + i] = w[Right(t)[1] + i]
    <3>0. i \in 1..s[2] - Split(s[2])
        BY <1>1
    <3>a. s[2] \in Nat /\ Split(s[2]) \in Nat /\ i \in Nat
        BY <1>1, <3>0
    <3>1. Split(s[2]) + i \in 1..s[2]
        BY <3>0, <3>a
    <3>2. v[s[1] + (Split(s[2]) + i)] = w[t[1] + (Split(s[2]) + i)]
        BY <2>1, <3>1
    <3>3. /\ s[1] + (Split(s[2]) + i) = Right(s)[1] + i
          /\ t[1] + (Split(s[2]) + i) = Right(t)[1] + i
        BY <1>1, <2>1
    <3> QED
        BY <3>2, <3>3
  <2> QED
    BY <2>2, <2>3, <2>4 DEF SameLeaves
<1>3. ASSUME SameLeaves(v, Left(s), w, Left(t)), SameLeaves(v, Right(s), w, Right(t))
      PROVE  SameLeaves(v, s, w, t)
  <2>1. Split(s[2]) = Split(t[2]) /\ s[2] = t[2]
    BY <1>1, <1>3, SMTT(40) DEF SameLeaves
  <2>2. ASSUME NEW i \in 1..s[2]
        PROVE  v[s[1] + i] = w[t[1] + i]
    <3>1. CASE i <= Split(s[2])
      <4>1. i \in 1..Left(s)[2]
        BY <1>1, <3>1
      <4> QED
        BY <1>1, <1>3, <4>1 DEF SameLeaves
    <3>2. CASE i > Split(s[2])
      <4>1. i - Split(s[2]) \in 1..Right(s)[2]
        BY <1>1, <3>2, SMTT(40)
      <4>2. v[Right(s)[1] + (i - Split(s[2]))] = w[Right(t)[1] + (i - Split(s[2]))]
        BY <1>3, <4>1 DEF SameLeaves
      <4>3. /\ Right(s)[1] + (i - Split(s[2])) = s[1] + i
            /\ Right(t)[1] + (i - Split(s[2])) = t[1] + i
        BY <1>1, <2>1, SMTT(40)
      <4> QED
        BY <4>2, <4>3
    <3> QED
        BY <1>1, <3>1, <3>2
  <2> QED
    BY <2>1, <2>2 DEF SameLeaves
<1> QED
    BY <1>2, <1>3

\* A root tells the leaves that are under it.
LEMMA RootsTell ==
    ASSUME NEW v, Len(v) \in Nat, NEW w, Len(w) \in Nat
    PROVE  \A s \in Slices(Len(v)), t \in Slices(Len(w)) :
              Roots(v)[s] = Roots(w)[t] <=> SameLeaves(v, s, w, t)
<1> DEFINE Told(s, t) == Roots(v)[s] = Roots(w)[t] <=> SameLeaves(v, s, w, t)
           P == {m \in Nat : \A s \in Slices(Len(v)), t \in Slices(Len(w)) :
                                s[2] <= m => Told(s, t)}
<1>1. ASSUME NEW s \in Slices(Len(v)), NEW t \in Slices(Len(w)), s[2] <= 1 \/ t[2] <= 1
      PROVE  Told(s, t)
  <2>1. s[1] \in Nat /\ s[2] \in Nat /\ t[1] \in Nat /\ t[2] \in Nat
    BY SliceParts
  <2>a. /\ s[2] = 0 => Roots(v)[s] = EmptyHash
        /\ s[2] = 1 => Roots(v)[s] = LeafHash(v[s[1] + 1])
        /\ s[2] > 1 => Roots(v)[s] = NodeHash(Roots(v)[Left(s)], Roots(v)[Right(s)])
    BY RootCases
  <2>b. /\ t[2] = 0 => Roots(w)[t] = EmptyHash
        /\ t[2] = 1 => Roots(w)[t] = LeafHash(w[t[1] + 1])
        /\ t[2] > 1 => Roots(w)[t] = NodeHash(Roots(w)[Left(t)], Roots(w)[Right(t)])
    BY RootCases
  <2>c. \A a, b, c : NodeHash(a, b) # LeafHash(c)
    BY Hashes
  <2>2. CASE s[2] # t[2]
    <3>1. (s[2] = 0 \/ s[2] = 1 \/ s[2] > 1) /\ (t[2] = 0 \/ t[2] = 1 \/ t[2] > 1)
        BY <2>1
    <3>2. Roots(v)[s] # Roots(w)[t]
      <4>1. CASE s[2] = 0 /\ t[2] = 1
        BY <2>a, <2>b, <4>1, Hashes
      <4>2. CASE s[2] = 1 /\ t[2] = 0
        BY <2>a, <2>b, <4>2, Hashes
      <4>3. CASE s[2] = 0 /\ t[2] > 1
        BY <2>a, <2>b, <4>3, Hashes
      <4>4. CASE s[2] > 1 /\ t[2] = 0
        BY <2>a, <2>b, <4>4, Hashes
      <4>5. CASE s[2] = 1 /\ t[2] > 1
        BY <2>a, <2>b, <4>5, Hashes, SMTT(40)
      <4>6. CASE s[2] > 1 /\ t[2] = 1
        BY <2>a, <2>b, <2>c, <4>6
      <4> QED
        BY <1>1, <2>1, <2>2, <3>1, <4>1, <4>2, <4>3, <4>4, <4>5, <4>6
    <3> QED
        BY <2>2, <3>2 DEF SameLeaves
  <2>3. CASE s[2] = 0 /\ t[2] = 0
    <3>1. Roots(v)[s] = Roots(w)[t]
        BY <2>3, <2>a, <2>b
    <3>2. \A i \in 1..s[2] : FALSE
        BY <2>3
    <3> QED
        BY <2>3, <3>1, <3>2 DEF SameLeaves
  <2>4. CASE s[2] = 1 /\ t[2] = 1
    <3>1. Roots(v)[s] = Roots(w)[t] <=> v[s[1] + 1] = w[t[1] + 1]
        BY <2>4, <2>a, <2>b, Hashes
    <3>2. 1..s[2] = {1}
        BY <2>4
    <3> QED
        BY <2>4, <3>1, <3>2 DEF SameLeaves
  <2> QED
    BY <1>1, <2>1, <2>2, <2>3, <2>4
<1>2. 0 \in P
  <2>1. \A s \in Slices(Len(v)), t \in Slices(Len(w)) : s[2] <= 0 => Told(s, t)
    <3> HIDE DEF Told
    <3>1. \A s \in Slices(Len(v)) : s[2] <= 0 => s[2] <= 1
        BY SliceParts
    <3> QED
        BY <1>1, <3>1
  <2> QED
    BY <2>1
<1>3. ASSUME NEW m \in Nat, m \in P
      PROVE  m + 1 \in P
  <2>1. ASSUME NEW s \in Slices(Len(v)), NEW t \in Slices(Len(w)), s[2] <= m + 1,
               s[2] > 1, t[2] > 1
        PROVE  Told(s, t)
    <3>1. t[2] \in Nat
        BY SliceParts
    <3>2. /\ Left(s) \in Slices(Len(v)) /\ Left(s)[2] <= m
          /\ Right(s) \in Slices(Len(v)) /\ Right(s)[2] <= m
        BY <2>1, PartsShorter
    <3>3. Left(t) \in Slices(Len(w)) /\ Right(t) \in Slices(Len(w))
        BY <2>1, SliceParts
    <3>4. Told(Left(s), Left(t)) /\ Told(Right(s), Right(t))
        BY <1>3, <3>2, <3>3
    <3>5. /\ Roots(v)[s] = NodeHash(Roots(v)[Left(s)], Roots(v)[Right(s)])
          /\ Roots(w)[t] = NodeHash(Roots(w)[Left(t)], Roots(w)[Right(t)])
        BY <2>1, RootCases
    <3>6. Roots(v)[s] = Roots(w)[t] <=>
             Roots(v)[Left(s)] = Roots(w)[Left(t)] /\ Roots(v)[Right(s)] = Roots(w)[Right(t)]
        BY <3>5, Hashes
    <3> QED
        BY <2>1, <3>4, <3>6, SameParts
  <2>2. \A s \in Slices(Len(v)), t \in Slices(Len(w)) : s[2] <= m + 1 => Told(s, t)
    <3> HIDE DEF Told
    <3>1. /\ \A s \in Slices(Len(v)) : s[2] <= 1 \/ s[2] > 1
          /\ \A t \in Slices(Len(w)) : t[2] <= 1 \/ t[2] > 1
        BY SliceParts
    <3> QED
        BY <1>1, <2>1, <3>1
  <2> QED
    BY <2>2
<1>4. Nat \subseteq P
  <2> HIDE DEF P
  <2> QED
    BY <1>2, <1>3, Induction
<1>5. \A s \in Slices(Len(v)) : s[2] <= Len(v)
    BY SliceParts
<1>6. Len(v) \in P
    BY <1>4
<1> QED
    BY <1>5, <1>6

\* The lists that have one root are one, whatever their lengths and their leaves
\* (merkle_root; SHA-256 taken as injective).
THEOREM RootTells ==
    ASSUME NEW D, NEW v \in Seq(D), NEW w \in Seq(D), MerkleRoot(v) = MerkleRoot(w)
    PROVE  v = w
<1>1. Len(v) \in Nat /\ Len(w) \in Nat
    BY LenProperties
<1>2. <<0, Len(v)>> \in Slices(Len(v)) /\ <<0, Len(w)>> \in Slices(Len(w))
    BY <1>1 DEF Slices
<1>3. SameLeaves(v, <<0, Len(v)>>, w, <<0, Len(w)>>)
    BY <1>1, <1>2, RootsTell DEF MerkleRoot
<1>4. Len(v) = Len(w) /\ \A i \in 1..Len(v) : v[0 + i] = w[0 + i]
    BY <1>3 DEF SameLeaves
<1>5. \A i \in 1..Len(v) : v[i] = w[i]
    BY <1>4
<1> QED
    BY <1>4, <1>5, SeqEqual

-----------------------------------------------------------------------------
(***************************************************************************)
(* Inclusion                                                               *)
(***************************************************************************)
LEMMA HoldingParts ==
    ASSUME NEW size \in Nat, NEW index \in Nat, NEW s \in Holding(size, index)
    PROVE  /\ s \in Slices(size) /\ s[1] \in Nat /\ s[2] \in Nat /\ 1 <= s[2]
           /\ s[1] + s[2] <= size /\ s[1] <= index /\ index < s[1] + s[2]
           /\ s[2] <= size /\ s[2] <= size + 1
<1>1. s \in Slices(size) /\ s[1] <= index /\ index < s[1] + s[2]
    BY DEF Holding
<1> QED
    BY <1>1, SliceParts

\* The part that has the leaf is shorter.
LEMMA HoldingGoesDown ==
    ASSUME NEW size \in Nat, NEW index \in Nat, NEW s \in Holding(size, index), s[2] # 1
    PROVE  /\ s[2] > 1
           /\ index < Right(s)[1] => Left(s) \in Holding(size, index)
           /\ ~(index < Right(s)[1]) => Right(s) \in Holding(size, index)
           /\ \A m \in Nat : s[2] <= m + 1 => Left(s)[2] <= m /\ Right(s)[2] <= m
<1>1. /\ s \in Slices(size) /\ s[1] \in Nat /\ s[2] \in Nat /\ s[2] > 1
      /\ s[1] <= index /\ index < s[1] + s[2]
    BY HoldingParts
<1>2. /\ Left(s) \in Slices(size) /\ Right(s) \in Slices(size)
      /\ Left(s)[1] = s[1] /\ Right(s)[1] = s[1] + Split(s[2])
      /\ Left(s)[2] = Split(s[2]) /\ Right(s)[2] = s[2] - Split(s[2])
      /\ Split(s[2]) \in 1..s[2] - 1
    BY <1>1, SliceParts
<1>3. index < Right(s)[1] => Left(s) \in Holding(size, index)
    BY <1>1, <1>2 DEF Holding
<1>4. ~(index < Right(s)[1]) => Right(s) \in Holding(size, index)
  <2>1. Right(s)[1] + Right(s)[2] = s[1] + s[2] /\ Right(s)[1] \in Nat
    BY <1>1, <1>2
  <2> QED
    BY <1>1, <1>2, <2>1 DEF Holding
<1>5. \A m \in Nat : s[2] <= m + 1 => Left(s)[2] <= m /\ Right(s)[2] <= m
    BY <1>1, <1>2
<1> QED
    BY <1>1, <1>3, <1>4, <1>5

PathStep(f, leaves, index, s) ==
    IF s[2] = 1 THEN <<>>
    ELSE IF index < Right(s)[1] THEN Append(f[Left(s)], Roots(leaves)[Right(s)])
    ELSE Append(f[Right(s)], Roots(leaves)[Left(s)])

LEMMA PathStepLocal ==
    ASSUME NEW leaves, Len(leaves) \in Nat, NEW index \in Nat, NEW m \in Nat, NEW f, NEW g,
           SlicesAgree(f, g, Holding(Len(leaves), index), m),
           NEW s \in Holding(Len(leaves), index), s[2] <= m + 1
    PROVE  PathStep(f, leaves, index, s) = PathStep(g, leaves, index, s)
<1>1. CASE s[2] = 1
    BY <1>1 DEF PathStep
<1>2. CASE s[2] # 1 /\ index < Right(s)[1]
  <2>1. Left(s) \in Holding(Len(leaves), index) /\ Left(s)[2] <= m
    BY <1>2, HoldingGoesDown
  <2>2. f[Left(s)] = g[Left(s)]
    BY <2>1 DEF SlicesAgree
  <2> QED
    BY <1>2, <2>2 DEF PathStep
<1>3. CASE s[2] # 1 /\ ~(index < Right(s)[1])
  <2>1. Right(s) \in Holding(Len(leaves), index) /\ Right(s)[2] <= m
    BY <1>3, HoldingGoesDown
  <2>2. f[Right(s)] = g[Right(s)]
    BY <2>1 DEF SlicesAgree
  <2> QED
    BY <1>3, <2>2 DEF PathStep
<1> QED
    BY <1>1, <1>2, <1>3

PathUpTo(f, leaves, index, m) ==
    \A s \in Holding(Len(leaves), index) : s[2] <= m => f[s] = PathStep(f, leaves, index, s)

LEMMA PathExists ==
    ASSUME NEW leaves, Len(leaves) \in Nat, NEW index \in Nat
    PROVE  \A m \in Nat : \E f : PathUpTo(f, leaves, index, m)
<1> DEFINE P == {m \in Nat : \E f : PathUpTo(f, leaves, index, m)}
<1>1. 0 \in P
  <2>1. \A s \in Holding(Len(leaves), index) : ~(s[2] <= 0)
    BY HoldingParts
  <2>2. PathUpTo(0, leaves, index, 0)
    BY <2>1 DEF PathUpTo
  <2> QED
    BY <2>2
<1>2. ASSUME NEW m \in Nat, m \in P
      PROVE  m + 1 \in P
  <2>1. PICK f : PathUpTo(f, leaves, index, m)
    BY <1>2
  <2>2. PICK g : g = [s \in Holding(Len(leaves), index) |-> PathStep(f, leaves, index, s)]
    OBVIOUS
  <2>3. \A s \in Holding(Len(leaves), index) : g[s] = PathStep(f, leaves, index, s)
    BY <2>2
  <2>4. SlicesAgree(f, g, Holding(Len(leaves), index), m)
    BY <2>1, <2>3 DEF PathUpTo, SlicesAgree
  <2>5. \A s \in Holding(Len(leaves), index) : s[2] <= m + 1 =>
           PathStep(f, leaves, index, s) = PathStep(g, leaves, index, s)
    BY <2>4, PathStepLocal
  <2>6. PathUpTo(g, leaves, index, m + 1)
    BY <2>3, <2>5 DEF PathUpTo
  <2> QED
    BY <2>6
<1>3. Nat \subseteq P
  <2> HIDE DEF P
  <2> QED
    BY <1>1, <1>2, Induction
<1> QED
    BY <1>3

LEMMA PathDef ==
    ASSUME NEW leaves, Len(leaves) \in Nat, NEW index \in Nat
    PROVE  \E f : /\ \A s \in Holding(Len(leaves), index) : f[s] = PathStep(f, leaves, index, s)
                 /\ InclusionProof(leaves, index) = f[<<0, Len(leaves)>>]
<1>0. PICK most \in Nat : \A s \in Holding(Len(leaves), index) : s[2] <= most /\ s[2] <= most + 1
    BY HoldingParts
<1>1. PICK f : PathUpTo(f, leaves, index, most)
    BY PathExists
<1>2. PICK g : g = [s \in Holding(Len(leaves), index) |-> PathStep(f, leaves, index, s)]
    OBVIOUS
<1>3. SlicesAgree(f, g, Holding(Len(leaves), index), most)
    BY <1>1, <1>2 DEF PathUpTo, SlicesAgree
<1>4. \A s \in Holding(Len(leaves), index) :
         PathStep(f, leaves, index, s) = PathStep(g, leaves, index, s)
    BY <1>0, <1>3, PathStepLocal
<1> DEFINE Is(h) == h = [s \in Holding(Len(leaves), index) |-> PathStep(h, leaves, index, s)]
<1>5. Is(g)
    BY <1>2, <1>4
<1> DEFINE path == CHOOSE h : Is(h)
<1>6. Is(path)
    BY <1>5
<1>7. InclusionProof(leaves, index) = path[<<0, Len(leaves)>>]
    BY DEF InclusionProof, PathStep
<1> HIDE DEF path
<1>8. \A s \in Holding(Len(leaves), index) : path[s] = PathStep(path, leaves, index, s)
    BY <1>6
<1> QED
    BY <1>7, <1>8

WalkStep(f, size, index, path, leaf, s) ==
    IF s[2] = 1 THEN Found(leaf, leaf, path)
    ELSE IF index < Right(s)[1] THEN Climbed(f[Left(s)], TRUE)
    ELSE Climbed(f[Right(s)], FALSE)

LEMMA WalkStepLocal ==
    ASSUME NEW size \in Nat, NEW index \in Nat, NEW path, NEW leaf, NEW m \in Nat, NEW f, NEW g,
           SlicesAgree(f, g, Holding(size, index), m),
           NEW s \in Holding(size, index), s[2] <= m + 1
    PROVE  WalkStep(f, size, index, path, leaf, s) = WalkStep(g, size, index, path, leaf, s)
<1>1. CASE s[2] = 1
    BY <1>1 DEF WalkStep
<1>2. CASE s[2] # 1 /\ index < Right(s)[1]
  <2>1. Left(s) \in Holding(size, index) /\ Left(s)[2] <= m
    BY <1>2, HoldingGoesDown
  <2>2. f[Left(s)] = g[Left(s)]
    BY <2>1 DEF SlicesAgree
  <2> QED
    BY <1>2, <2>2 DEF WalkStep
<1>3. CASE s[2] # 1 /\ ~(index < Right(s)[1])
  <2>1. Right(s) \in Holding(size, index) /\ Right(s)[2] <= m
    BY <1>3, HoldingGoesDown
  <2>2. f[Right(s)] = g[Right(s)]
    BY <2>1 DEF SlicesAgree
  <2> QED
    BY <1>3, <2>2 DEF WalkStep
<1> QED
    BY <1>1, <1>2, <1>3

WalkUpTo(f, size, index, path, leaf, m) ==
    \A s \in Holding(size, index) : s[2] <= m => f[s] = WalkStep(f, size, index, path, leaf, s)

LEMMA WalkExists ==
    ASSUME NEW size \in Nat, NEW index \in Nat, NEW path, NEW leaf
    PROVE  \A m \in Nat : \E f : WalkUpTo(f, size, index, path, leaf, m)
<1> DEFINE P == {m \in Nat : \E f : WalkUpTo(f, size, index, path, leaf, m)}
<1>1. 0 \in P
  <2>1. \A s \in Holding(size, index) : ~(s[2] <= 0)
    BY HoldingParts
  <2>2. WalkUpTo(0, size, index, path, leaf, 0)
    BY <2>1 DEF WalkUpTo
  <2> QED
    BY <2>2
<1>2. ASSUME NEW m \in Nat, m \in P
      PROVE  m + 1 \in P
  <2>1. PICK f : WalkUpTo(f, size, index, path, leaf, m)
    BY <1>2
  <2>2. PICK g : g = [s \in Holding(size, index) |-> WalkStep(f, size, index, path, leaf, s)]
    OBVIOUS
  <2>3. \A s \in Holding(size, index) : g[s] = WalkStep(f, size, index, path, leaf, s)
    BY <2>2
  <2>4. SlicesAgree(f, g, Holding(size, index), m)
    BY <2>1, <2>3 DEF WalkUpTo, SlicesAgree
  <2>5. \A s \in Holding(size, index) : s[2] <= m + 1 =>
           WalkStep(f, size, index, path, leaf, s) = WalkStep(g, size, index, path, leaf, s)
    BY <2>4, WalkStepLocal
  <2>6. WalkUpTo(g, size, index, path, leaf, m + 1)
    BY <2>3, <2>5 DEF WalkUpTo
  <2> QED
    BY <2>6
<1>3. Nat \subseteq P
  <2> HIDE DEF P
  <2> QED
    BY <1>1, <1>2, Induction
<1> QED
    BY <1>3

LEMMA WalkDef ==
    ASSUME NEW size \in Nat, NEW index \in Nat, NEW path, NEW leaf
    PROVE  \E f : /\ \A s \in Holding(size, index) : f[s] = WalkStep(f, size, index, path, leaf, s)
                 /\ Walk(size, index, path, leaf) = f[<<0, size>>]
<1>0. PICK most \in Nat : \A s \in Holding(size, index) : s[2] <= most /\ s[2] <= most + 1
    BY HoldingParts
<1>1. PICK f : WalkUpTo(f, size, index, path, leaf, most)
    BY WalkExists
<1>2. PICK g : g = [s \in Holding(size, index) |-> WalkStep(f, size, index, path, leaf, s)]
    OBVIOUS
<1>3. SlicesAgree(f, g, Holding(size, index), most)
    BY <1>1, <1>2 DEF WalkUpTo, SlicesAgree
<1>4. \A s \in Holding(size, index) :
         WalkStep(f, size, index, path, leaf, s) = WalkStep(g, size, index, path, leaf, s)
    BY <1>0, <1>3, WalkStepLocal
<1> DEFINE Is(h) == h = [s \in Holding(size, index) |-> WalkStep(h, size, index, path, leaf, s)]
<1>5. Is(g)
    BY <1>2, <1>4
<1> DEFINE walk == CHOOSE h : Is(h)
<1>6. Is(walk)
    BY <1>5
<1>7. Walk(size, index, path, leaf) = walk[<<0, size>>]
    BY DEF Walk, WalkStep
<1> HIDE DEF walk
<1>8. \A s \in Holding(size, index) : walk[s] = WalkStep(walk, size, index, path, leaf, s)
    BY <1>6
<1> QED
    BY <1>7, <1>8

\* The first entry is read, and the others are left.
LEMMA EntryRead ==
    ASSUME NEW H, NEW rest \in Seq(H), NEW h \in H
    PROVE  /\ <<h>> \o rest \in Seq(H)
           /\ <<h>> \o rest # <<>>
           /\ Head(<<h>> \o rest) = h
           /\ Tail(<<h>> \o rest) = rest
<1>1. <<h>> \in Seq(H) /\ Len(<<h>>) = 1 /\ <<h>>[1] = h
    OBVIOUS
<1>2. PICK s : s = <<h>> \o rest
    OBVIOUS
<1>3. Len(rest) \in Nat
    BY LenProperties
<1>4. /\ s \in Seq(H) /\ Len(s) = 1 + Len(rest)
      /\ \A i \in 1..1 + Len(rest) : s[i] = IF i <= 1 THEN <<h>>[i] ELSE rest[i - 1]
    BY <1>1, <1>2, ConcatProperties
<1>5. s # <<>>
    BY <1>3, <1>4
<1>6. /\ Tail(s) \in Seq(H) /\ Len(Tail(s)) = Len(rest)
      /\ \A i \in 1..Len(rest) : Tail(s)[i] = s[i + 1]
    BY <1>3, <1>4, <1>5, HeadTailProperties
<1>7. \A i \in 1..Len(rest) : Tail(s)[i] = rest[i]
    BY <1>3, <1>4, <1>6
<1>8. Tail(s) = rest
    BY <1>6, <1>7, SeqEqual
<1>9. Head(s) = h
    BY <1>1, <1>3, <1>4
<1> QED
    BY <1>2, <1>4, <1>5, <1>8, <1>9

\* A proof and what follows it: the last entry is read first.
LEMMA EntryMoves ==
    ASSUME NEW H, NEW q \in Seq(H), NEW rest \in Seq(H), NEW h \in H
    PROVE  /\ Append(q, h) \in Seq(H)
           /\ Append(q, h) \o rest = q \o (<<h>> \o rest)
<1>1. <<h>> \in Seq(H)
    OBVIOUS
<1>2. Append(q, h) = q \o <<h>> /\ Append(q, h) \in Seq(H)
    BY AppendIsConcat, AppendProperties
<1>3. (q \o <<h>>) \o rest = q \o (<<h>> \o rest)
    BY <1>1, ConcatAssociative
<1> QED
    BY <1>2, <1>3

LEMMA FoundMeans ==
    ASSUME NEW old, NEW new, NEW rest
    PROVE  /\ ~Found(old, new, rest).short
           /\ Found(old, new, rest).old = old
           /\ Found(old, new, rest).new = new
           /\ Found(old, new, rest).rest = rest
    BY DEF Found

LEMMA ClimbedMeans ==
    ASSUME NEW H, NEW rest \in Seq(H), NEW h \in H, NEW x
    PROVE  /\ Climbed(Found(x, x, <<h>> \o rest), TRUE)
                  = Found(NodeHash(x, h), NodeHash(x, h), rest)
           /\ Climbed(Found(x, x, <<h>> \o rest), FALSE)
                  = Found(NodeHash(h, x), NodeHash(h, x), rest)
<1>1. PICK path, sub : path = <<h>> \o rest /\ sub = Found(x, x, path)
    OBVIOUS
<1>2. ~sub.short /\ sub.new = x /\ sub.rest = path
    BY <1>1 DEF Found
<1>3. Head(path) = h /\ Tail(path) = rest /\ path # <<>>
    BY <1>1, EntryRead
<1>4. ~Spent(sub)
    BY <1>2, <1>3 DEF Spent
<1> QED
    BY <1>1, <1>2, <1>3, <1>4 DEF Climbed

\* The proof of a leaf leads to the root and is used up.
LEMMA InclusionComplete ==
    ASSUME NEW D, NEW leaves \in Seq(D), NEW index \in 0..Len(leaves) - 1
    PROVE  Walk(Len(leaves), index, InclusionProof(leaves, index), LeafHash(leaves[index + 1]))
              = Found(MerkleRoot(leaves), MerkleRoot(leaves), <<>>)
<1>1. Len(leaves) \in Nat /\ index \in Nat
    BY LenProperties
<1>2. PICK size \in Nat : size = Len(leaves)
    BY <1>1
<1>3. PICK holding, R, leaf, proof :
          /\ holding = Holding(size, index) /\ R = Roots(leaves)
          /\ leaf = LeafHash(leaves[index + 1]) /\ proof = InclusionProof(leaves, index)
    OBVIOUS
<1>4. PICK f : /\ \A s \in holding : f[s] = PathStep(f, leaves, index, s)
               /\ proof = f[<<0, size>>]
    BY <1>1, <1>2, <1>3, PathDef
<1>5. PICK w : /\ \A s \in holding : w[s] = WalkStep(w, size, index, proof, leaf, s)
               /\ Walk(size, index, proof, leaf) = w[<<0, size>>]
    BY <1>1, <1>3, WalkDef
<1>6. PICK H : H = {R[s] : s \in Slices(size)}
    OBVIOUS
<1> DEFINE Good(s) == /\ f[s] \in Seq(H)
                      /\ \A rest \in Seq(H) : proof = f[s] \o rest => w[s] = Found(R[s], R[s], rest)
           P == {m \in Nat : \A s \in holding : s[2] <= m => Good(s)}
<1>7. 0 \in P
  <2>1. \A s \in holding : ~(s[2] <= 0)
    BY <1>1, <1>3, HoldingParts
  <2> HIDE DEF Good
  <2> QED
    BY <2>1
<1>8. ASSUME NEW s \in holding, s[2] = 1
      PROVE  Good(s)
  <2>1. /\ s \in Slices(size) /\ s[1] \in Nat /\ s[1] = index
    BY <1>1, <1>3, <1>8, HoldingParts
  <2>2. R[s] = leaf
    BY <1>2, <1>3, <1>8, <2>1, RootCases
  <2>3. f[s] = <<>> /\ w[s] = Found(leaf, leaf, proof)
    BY <1>4, <1>5, <1>8 DEF PathStep, WalkStep
  <2>4. \A rest \in Seq(H) : <<>> \o rest = rest
    BY ConcatEmptySeq
  <2>5. <<>> \in Seq(H)
    BY EmptySeq
  <2> QED
    BY <2>2, <2>3, <2>4, <2>5
<1>9. ASSUME NEW s \in holding, s[2] # 1, index < Right(s)[1], Good(Left(s))
      PROVE  Good(s)
  <2>1. s \in Slices(size) /\ s[2] > 1 /\ Right(s) \in Slices(size)
    BY <1>1, <1>3, <1>9, HoldingParts, HoldingGoesDown, SliceParts
  <2>2. PICK h \in H : h = R[Right(s)]
    BY <1>6, <2>1
  <2>3. PICK q \in Seq(H) : q = f[Left(s)]
    BY <1>9
  <2>4. f[s] = Append(q, h)
    BY <1>3, <1>4, <1>9, <2>2, <2>3 DEF PathStep
  <2>5. R[s] = NodeHash(R[Left(s)], h)
    BY <1>2, <1>3, <2>1, <2>2, RootCases
  <2>6. w[s] = Climbed(w[Left(s)], TRUE)
    BY <1>5, <1>9 DEF WalkStep
  <2>7. ASSUME NEW rest \in Seq(H), proof = f[s] \o rest
        PROVE  w[s] = Found(R[s], R[s], rest)
    <3>1. proof = q \o (<<h>> \o rest) /\ <<h>> \o rest \in Seq(H)
        BY <2>4, <2>7, EntryMoves, EntryRead
    <3>2. PICK x : x = R[Left(s)]
        OBVIOUS
    <3>3. w[Left(s)] = Found(x, x, <<h>> \o rest)
        BY <1>9, <2>3, <3>1, <3>2
    <3>4. Climbed(Found(x, x, <<h>> \o rest), TRUE)
             = Found(NodeHash(x, h), NodeHash(x, h), rest)
        BY <2>2, <2>7, ClimbedMeans
    <3>5. w[s] = Found(NodeHash(x, h), NodeHash(x, h), rest)
        BY <2>6, <3>3, <3>4
    <3> QED
        BY <2>5, <3>2, <3>5
  <2>8. f[s] \in Seq(H)
    BY <2>4, EntryMoves, EmptySeq
  <2> QED
    BY <2>7, <2>8
<1>10. ASSUME NEW s \in holding, s[2] # 1, ~(index < Right(s)[1]), Good(Right(s))
       PROVE  Good(s)
  <2>1. s \in Slices(size) /\ s[2] > 1 /\ Left(s) \in Slices(size)
    BY <1>1, <1>3, <1>10, HoldingParts, HoldingGoesDown, SliceParts
  <2>2. PICK h \in H : h = R[Left(s)]
    BY <1>6, <2>1
  <2>3. PICK q \in Seq(H) : q = f[Right(s)]
    BY <1>10
  <2>4. f[s] = Append(q, h)
    BY <1>3, <1>4, <1>10, <2>2, <2>3 DEF PathStep
  <2>5. R[s] = NodeHash(h, R[Right(s)])
    BY <1>2, <1>3, <2>1, <2>2, RootCases
  <2>6. w[s] = Climbed(w[Right(s)], FALSE)
    BY <1>5, <1>10 DEF WalkStep
  <2>7. ASSUME NEW rest \in Seq(H), proof = f[s] \o rest
        PROVE  w[s] = Found(R[s], R[s], rest)
    <3>1. proof = q \o (<<h>> \o rest) /\ <<h>> \o rest \in Seq(H)
        BY <2>4, <2>7, EntryMoves, EntryRead
    <3>2. PICK x : x = R[Right(s)]
        OBVIOUS
    <3>3. w[Right(s)] = Found(x, x, <<h>> \o rest)
        BY <1>10, <2>3, <3>1, <3>2
    <3>4. Climbed(Found(x, x, <<h>> \o rest), FALSE)
             = Found(NodeHash(h, x), NodeHash(h, x), rest)
        BY <2>2, <2>7, ClimbedMeans
    <3>5. w[s] = Found(NodeHash(h, x), NodeHash(h, x), rest)
        BY <2>6, <3>3, <3>4
    <3> QED
        BY <2>5, <3>2, <3>5
  <2>8. f[s] \in Seq(H)
    BY <2>4, EntryMoves, EmptySeq
  <2> QED
    BY <2>7, <2>8
<1>11. ASSUME NEW m \in Nat, m \in P
       PROVE  m + 1 \in P
  <2> HIDE DEF Good
  <2>1. ASSUME NEW s \in holding, s[2] <= m + 1
        PROVE  Good(s)
    <3>1. CASE s[2] = 1
        BY <1>8, <3>1
    <3>2. CASE s[2] # 1 /\ index < Right(s)[1]
      <4>1. Left(s) \in holding /\ Left(s)[2] <= m
        BY <1>1, <1>3, <2>1, <3>2, HoldingGoesDown
      <4>2. Good(Left(s))
        BY <1>11, <4>1
      <4> QED
        BY <1>9, <3>2, <4>2
    <3>3. CASE s[2] # 1 /\ ~(index < Right(s)[1])
      <4>1. Right(s) \in holding /\ Right(s)[2] <= m
        BY <1>1, <1>3, <2>1, <3>3, HoldingGoesDown
      <4>2. Good(Right(s))
        BY <1>11, <4>1
      <4> QED
        BY <1>10, <3>3, <4>2
    <3> QED
        BY <3>1, <3>2, <3>3
  <2> QED
    BY <2>1
<1>12. Nat \subseteq P
  <2> HIDE DEF P
  <2> QED
    BY <1>7, <1>11, Induction
<1>13. <<0, size>> \in holding /\ <<0, size>>[2] <= size
    BY <1>1, <1>2, <1>3 DEF Holding, Slices
<1>14. Good(<<0, size>>)
  <2> HIDE DEF Good
  <2>1. size \in P
    BY <1>12
  <2> QED
    BY <1>13, <2>1
<1>15. proof \o <<>> = proof /\ <<>> \in Seq(H)
    BY <1>4, <1>14, ConcatEmptySeq, EmptySeq
<1>16. w[<<0, size>>] = Found(R[<<0, size>>], R[<<0, size>>], <<>>)
    BY <1>4, <1>14, <1>15
<1> QED
    BY <1>2, <1>3, <1>5, <1>16 DEF MerkleRoot

\* Whatever the proof, a walk to the root is a walk from the leaf that is there.
LEMMA InclusionSound ==
    ASSUME NEW D, NEW leaves \in Seq(D), NEW index \in 0..Len(leaves) - 1, NEW path, NEW leaf,
           NEW walk, walk = Walk(Len(leaves), index, path, leaf),
           ~walk.short, walk.new = MerkleRoot(leaves)
    PROVE  leaf = LeafHash(leaves[index + 1])
<1>1. Len(leaves) \in Nat /\ index \in Nat
    BY LenProperties
<1>2. PICK size \in Nat : size = Len(leaves)
    BY <1>1
<1>3. PICK holding, R : holding = Holding(size, index) /\ R = Roots(leaves)
    OBVIOUS
<1>4. PICK w : /\ \A s \in holding : w[s] = WalkStep(w, size, index, path, leaf, s)
               /\ walk = w[<<0, size>>]
    BY <1>1, <1>2, <1>3, WalkDef
<1> DEFINE Good(s) == ~w[s].short /\ w[s].new = R[s] => leaf = LeafHash(leaves[index + 1])
           P == {m \in Nat : \A s \in holding : s[2] <= m => Good(s)}
<1>5. 0 \in P
    BY <1>1, <1>3, HoldingParts
<1>6. ASSUME NEW m \in Nat, m \in P
      PROVE  m + 1 \in P
  <2>1. ASSUME NEW s \in holding, s[2] <= m + 1, ~w[s].short, w[s].new = R[s]
        PROVE  leaf = LeafHash(leaves[index + 1])
    <3>1. /\ s \in Slices(size) /\ s[1] \in Nat /\ s[2] \in Nat
          /\ s[1] <= index /\ index < s[1] + s[2]
        BY <1>1, <1>3, HoldingParts
    <3>2. CASE s[2] = 1
      <4>0. w[s] = Found(leaf, leaf, path)
        BY <1>4, <3>2 DEF WalkStep
      <4>1. w[s].new = leaf
        BY <4>0, FoundMeans
      <4>2. R[s] = LeafHash(leaves[s[1] + 1]) /\ s[1] = index
        BY <1>1, <1>2, <1>3, <3>1, <3>2, RootCases
      <4> QED
        BY <2>1, <4>1, <4>2
    <3>3. CASE s[2] # 1
      <4>1. R[s] = NodeHash(R[Left(s)], R[Right(s)])
        BY <1>2, <1>3, <3>1, <3>3, RootCases
      <4>2. ASSUME NEW half \in holding, half[2] <= m, NEW fromLeft \in BOOLEAN,
                   w[s] = Climbed(w[half], fromLeft),
                   half = IF fromLeft THEN Left(s) ELSE Right(s)
            PROVE  leaf = LeafHash(leaves[index + 1])
        <5>1. ~Spent(w[half])
            BY <2>1, <4>2 DEF Climbed, Stop
        <5>2. ~w[half].short
            BY <5>1 DEF Spent
        <5>3. CASE fromLeft
          <6>1. w[s].new = NodeHash(w[half].new, Head(w[half].rest))
            BY <4>2, <5>1, <5>3, FoundMeans DEF Climbed
          <6>a. NodeHash(w[half].new, Head(w[half].rest)) = NodeHash(R[Left(s)], R[Right(s)])
            BY <2>1, <4>1, <6>1
          <6>b. half = Left(s)
            BY <4>2, <5>3
          <6>c. w[half].new = R[Left(s)]
            BY <6>a, NodesTell
          <6>2. w[half].new = R[half]
            BY <6>b, <6>c
          <6> QED
            BY <1>6, <4>2, <5>2, <6>2
        <5>4. CASE ~fromLeft
          <6>1. w[s].new = NodeHash(Head(w[half].rest), w[half].new)
            BY <4>2, <5>1, <5>4, FoundMeans DEF Climbed
          <6>a. NodeHash(Head(w[half].rest), w[half].new) = NodeHash(R[Left(s)], R[Right(s)])
            BY <2>1, <4>1, <6>1
          <6>b. half = Right(s)
            BY <4>2, <5>4
          <6>c. w[half].new = R[Right(s)]
            BY <6>a, NodesTell
          <6>2. w[half].new = R[half]
            BY <6>b, <6>c
          <6> QED
            BY <1>6, <4>2, <5>2, <6>2
        <5> QED
            BY <5>3, <5>4
      <4>3. CASE index < Right(s)[1]
        <5>1. Left(s) \in holding /\ Left(s)[2] <= m
            BY <1>1, <1>3, <2>1, <3>3, <4>3, HoldingGoesDown
        <5>2. w[s] = Climbed(w[Left(s)], TRUE)
            BY <1>4, <3>3, <4>3 DEF WalkStep
        <5> QED
            BY <4>2, <5>1, <5>2
      <4>4. CASE ~(index < Right(s)[1])
        <5>1. Right(s) \in holding /\ Right(s)[2] <= m
            BY <1>1, <1>3, <2>1, <3>3, <4>4, HoldingGoesDown
        <5>2. w[s] = Climbed(w[Right(s)], FALSE)
            BY <1>4, <3>3, <4>4 DEF WalkStep
        <5> QED
            BY <4>2, <5>1, <5>2
      <4> QED
        BY <4>3, <4>4
    <3> QED
        BY <3>2, <3>3
  <2> QED
    BY <2>1
<1>7. Nat \subseteq P
  <2> HIDE DEF P
  <2> QED
    BY <1>5, <1>6, Induction
<1>8. <<0, size>> \in holding /\ <<0, size>>[2] <= size
    BY <1>1, <1>2, <1>3 DEF Holding, Slices
<1>9. size \in P
    BY <1>7
<1> QED
    BY <1>2, <1>3, <1>4, <1>8, <1>9 DEF MerkleRoot

-----------------------------------------------------------------------------
(***************************************************************************)
(* Consistency                                                             *)
(***************************************************************************)
\* The slices that have the last old leaf, with what is known about their older root.
Sides(size, k) == Holding(size, k - 1) \X BOOLEAN

PairsAgree(f, g, S, m) == \A s \in S : s[1][2] <= m => f[s] = g[s]

LEMMA SidesParts ==
    ASSUME NEW size \in Nat, NEW k \in Nat \ {0}, NEW s \in Sides(size, k)
    PROVE  /\ s[1] \in Holding(size, k - 1) /\ s[2] \in BOOLEAN
           /\ s[1] \in Slices(size) /\ s[1][1] \in Nat /\ s[1][2] \in Nat /\ 1 <= s[1][2]
           /\ s[1][1] < k /\ k <= s[1][1] + s[1][2] /\ s[1][1] + s[1][2] <= size
           /\ s[1][2] <= size /\ s[1][2] <= size + 1
<1>1. s[1] \in Holding(size, k - 1) /\ s[2] \in BOOLEAN
    BY DEF Sides
<1>2. PICK t \in Holding(size, k - 1) : t = s[1]
    BY <1>1
<1>3. k - 1 \in Nat
    OBVIOUS
<1>4. /\ t \in Slices(size) /\ t[1] \in Nat /\ t[2] \in Nat /\ 1 <= t[2]
      /\ t[1] + t[2] <= size /\ t[1] <= k - 1 /\ k - 1 < t[1] + t[2]
      /\ t[2] <= size /\ t[2] <= size + 1
    BY <1>3, HoldingParts
<1>5. t[1] < k /\ k <= t[1] + t[2]
    BY <1>4
<1> QED
    BY <1>1, <1>2, <1>4, <1>5

LEMMA SidesGoDown ==
    ASSUME NEW size \in Nat, NEW k \in Nat \ {0}, NEW s \in Holding(size, k - 1),
           k # s[1] + s[2]
    PROVE  /\ s[2] > 1
           /\ k <= Right(s)[1] => Left(s) \in Holding(size, k - 1)
           /\ ~(k <= Right(s)[1]) => Right(s) \in Holding(size, k - 1)
           /\ \A m \in Nat : s[2] <= m + 1 => Left(s)[2] <= m /\ Right(s)[2] <= m
<1>1. k - 1 \in Nat
    OBVIOUS
<1>2. /\ s \in Slices(size) /\ s[1] \in Nat /\ s[2] \in Nat /\ 1 <= s[2]
      /\ s[1] <= k - 1 /\ k - 1 < s[1] + s[2]
    BY <1>1, HoldingParts
<1>3. s[2] # 1
    BY <1>2
<1>4. /\ s[2] > 1
      /\ k - 1 < Right(s)[1] => Left(s) \in Holding(size, k - 1)
      /\ ~(k - 1 < Right(s)[1]) => Right(s) \in Holding(size, k - 1)
      /\ \A m \in Nat : s[2] <= m + 1 => Left(s)[2] <= m /\ Right(s)[2] <= m
    BY <1>1, <1>3, HoldingGoesDown
<1>5. Right(s)[1] \in Nat
    BY <1>2, <1>4, SliceParts
<1>6. k <= Right(s)[1] <=> k - 1 < Right(s)[1]
    BY <1>5
<1> QED
    BY <1>4, <1>6

SubStep(f, k, leaves, s) ==
    IF k = s[1][1] + s[1][2] THEN IF s[2] THEN <<>> ELSE <<Roots(leaves)[s[1]]>>
    ELSE IF k <= Right(s[1])[1]
         THEN Append(f[<<Left(s[1]), s[2]>>], Roots(leaves)[Right(s[1])])
         ELSE Append(f[<<Right(s[1]), FALSE>>], Roots(leaves)[Left(s[1])])

LEMMA SubStepLocal ==
    ASSUME NEW leaves, Len(leaves) \in Nat, NEW k \in Nat \ {0}, NEW m \in Nat, NEW f, NEW g,
           PairsAgree(f, g, Sides(Len(leaves), k), m),
           NEW s \in Sides(Len(leaves), k), s[1][2] <= m + 1
    PROVE  SubStep(f, k, leaves, s) = SubStep(g, k, leaves, s)
<1>1. CASE k = s[1][1] + s[1][2]
    BY <1>1 DEF SubStep
<1>2. CASE k # s[1][1] + s[1][2] /\ k <= Right(s[1])[1]
  <2>1. PICK t \in Holding(Len(leaves), k - 1) : t = s[1]
    BY SidesParts
  <2>2. Left(t) \in Holding(Len(leaves), k - 1) /\ Left(t)[2] <= m
    BY <1>2, <2>1, SidesGoDown
  <2>3. s[2] \in BOOLEAN
    BY SidesParts
  <2>4. PICK u : u = <<Left(s[1]), s[2]>>
    OBVIOUS
  <2>5. u \in Sides(Len(leaves), k) /\ u[1][2] <= m
    BY <2>1, <2>2, <2>3, <2>4 DEF Sides
  <2>6. f[u] = g[u]
    BY <2>5 DEF PairsAgree
  <2> QED
    BY <1>2, <2>4, <2>6 DEF SubStep
<1>3. CASE k # s[1][1] + s[1][2] /\ ~(k <= Right(s[1])[1])
  <2>1. PICK t \in Holding(Len(leaves), k - 1) : t = s[1]
    BY SidesParts
  <2>2. Right(t) \in Holding(Len(leaves), k - 1) /\ Right(t)[2] <= m
    BY <1>3, <2>1, SidesGoDown
  <2>3. PICK u : u = <<Right(s[1]), FALSE>>
    OBVIOUS
  <2>4. u \in Sides(Len(leaves), k) /\ u[1][2] <= m
    BY <2>1, <2>2, <2>3 DEF Sides
  <2>5. f[u] = g[u]
    BY <2>4 DEF PairsAgree
  <2> QED
    BY <1>3, <2>3, <2>5 DEF SubStep
<1> QED
    BY <1>1, <1>2, <1>3

SubUpTo(f, k, leaves, m) ==
    \A s \in Sides(Len(leaves), k) : s[1][2] <= m => f[s] = SubStep(f, k, leaves, s)

LEMMA SubExists ==
    ASSUME NEW leaves, Len(leaves) \in Nat, NEW k \in Nat \ {0}
    PROVE  \A m \in Nat : \E f : SubUpTo(f, k, leaves, m)
<1> DEFINE P == {m \in Nat : \E f : SubUpTo(f, k, leaves, m)}
<1>1. 0 \in P
  <2>1. \A s \in Sides(Len(leaves), k) : ~(s[1][2] <= 0)
    BY SidesParts
  <2>2. SubUpTo(0, k, leaves, 0)
    BY <2>1 DEF SubUpTo
  <2> QED
    BY <2>2
<1>2. ASSUME NEW m \in Nat, m \in P
      PROVE  m + 1 \in P
  <2>1. PICK f : SubUpTo(f, k, leaves, m)
    BY <1>2
  <2>2. PICK g : g = [s \in Sides(Len(leaves), k) |-> SubStep(f, k, leaves, s)]
    OBVIOUS
  <2>3. \A s \in Sides(Len(leaves), k) : g[s] = SubStep(f, k, leaves, s)
    BY <2>2
  <2>4. PairsAgree(f, g, Sides(Len(leaves), k), m)
    BY <2>1, <2>3 DEF SubUpTo, PairsAgree
  <2>5. \A s \in Sides(Len(leaves), k) : s[1][2] <= m + 1 =>
           SubStep(f, k, leaves, s) = SubStep(g, k, leaves, s)
    BY <2>4, SubStepLocal
  <2>6. SubUpTo(g, k, leaves, m + 1)
    BY <2>3, <2>5 DEF SubUpTo
  <2> QED
    BY <2>6
<1>3. Nat \subseteq P
  <2> HIDE DEF P
  <2> QED
    BY <1>1, <1>2, Induction
<1> QED
    BY <1>3

LEMMA SubDef ==
    ASSUME NEW leaves, Len(leaves) \in Nat, NEW k \in Nat \ {0}
    PROVE  \E f : /\ \A s \in Sides(Len(leaves), k) : f[s] = SubStep(f, k, leaves, s)
                 /\ Subproof(k, leaves, TRUE) = f[<<<<0, Len(leaves)>>, TRUE>>]
<1>0. PICK most \in Nat : \A s \in Sides(Len(leaves), k) : s[1][2] <= most /\ s[1][2] <= most + 1
    BY SidesParts
<1>1. PICK f : SubUpTo(f, k, leaves, most)
    BY SubExists
<1>2. PICK g : g = [s \in Sides(Len(leaves), k) |-> SubStep(f, k, leaves, s)]
    OBVIOUS
<1>3. PairsAgree(f, g, Sides(Len(leaves), k), most)
    BY <1>1, <1>2 DEF SubUpTo, PairsAgree
<1>4. \A s \in Sides(Len(leaves), k) : SubStep(f, k, leaves, s) = SubStep(g, k, leaves, s)
    BY <1>0, <1>3, SubStepLocal
<1> DEFINE Is(h) == h = [s \in Sides(Len(leaves), k) |-> SubStep(h, k, leaves, s)]
<1>5. Is(g)
    BY <1>2, <1>4
<1> DEFINE proof == CHOOSE h : Is(h)
<1>6. Is(proof)
    BY <1>5
<1>7. Subproof(k, leaves, TRUE) = proof[<<<<0, Len(leaves)>>, TRUE>>]
    BY DEF Sides, Subproof, SubStep
<1> HIDE DEF proof
<1>8. \A s \in Sides(Len(leaves), k) : proof[s] = SubStep(proof, k, leaves, s)
    BY <1>6
<1> QED
    BY <1>7, <1>8

JoinStep(f, k, size, path, first, s) ==
    IF k = s[1][1] + s[1][2]
    THEN IF s[2] THEN Found(first, first, path)
         ELSE IF path = <<>> THEN Stop
         ELSE Found(Head(path), Head(path), Tail(path))
    ELSE IF k <= Right(s[1])[1] THEN Joined(f[<<Left(s[1]), s[2]>>], TRUE)
    ELSE Joined(f[<<Right(s[1]), FALSE>>], FALSE)

LEMMA JoinStepLocal ==
    ASSUME NEW size \in Nat, NEW k \in Nat \ {0}, NEW path, NEW first, NEW m \in Nat, NEW f, NEW g,
           PairsAgree(f, g, Sides(size, k), m),
           NEW s \in Sides(size, k), s[1][2] <= m + 1
    PROVE  JoinStep(f, k, size, path, first, s) = JoinStep(g, k, size, path, first, s)
<1>1. CASE k = s[1][1] + s[1][2]
    BY <1>1 DEF JoinStep
<1>2. CASE k # s[1][1] + s[1][2] /\ k <= Right(s[1])[1]
  <2>1. PICK t \in Holding(size, k - 1) : t = s[1]
    BY SidesParts
  <2>2. Left(t) \in Holding(size, k - 1) /\ Left(t)[2] <= m
    BY <1>2, <2>1, SidesGoDown
  <2>3. s[2] \in BOOLEAN
    BY SidesParts
  <2>4. PICK u : u = <<Left(s[1]), s[2]>>
    OBVIOUS
  <2>5. u \in Sides(size, k) /\ u[1][2] <= m
    BY <2>1, <2>2, <2>3, <2>4 DEF Sides
  <2>6. f[u] = g[u]
    BY <2>5 DEF PairsAgree
  <2> QED
    BY <1>2, <2>4, <2>6 DEF JoinStep
<1>3. CASE k # s[1][1] + s[1][2] /\ ~(k <= Right(s[1])[1])
  <2>1. PICK t \in Holding(size, k - 1) : t = s[1]
    BY SidesParts
  <2>2. Right(t) \in Holding(size, k - 1) /\ Right(t)[2] <= m
    BY <1>3, <2>1, SidesGoDown
  <2>3. PICK u : u = <<Right(s[1]), FALSE>>
    OBVIOUS
  <2>4. u \in Sides(size, k) /\ u[1][2] <= m
    BY <2>1, <2>2, <2>3 DEF Sides
  <2>5. f[u] = g[u]
    BY <2>4 DEF PairsAgree
  <2> QED
    BY <1>3, <2>3, <2>5 DEF JoinStep
<1> QED
    BY <1>1, <1>2, <1>3

JoinUpTo(f, k, size, path, first, m) ==
    \A s \in Sides(size, k) : s[1][2] <= m => f[s] = JoinStep(f, k, size, path, first, s)

LEMMA JoinExists ==
    ASSUME NEW size \in Nat, NEW k \in Nat \ {0}, NEW path, NEW first
    PROVE  \A m \in Nat : \E f : JoinUpTo(f, k, size, path, first, m)
<1> DEFINE P == {m \in Nat : \E f : JoinUpTo(f, k, size, path, first, m)}
<1>1. 0 \in P
  <2>1. \A s \in Sides(size, k) : ~(s[1][2] <= 0)
    BY SidesParts
  <2>2. JoinUpTo(0, k, size, path, first, 0)
    BY <2>1 DEF JoinUpTo
  <2> QED
    BY <2>2
<1>2. ASSUME NEW m \in Nat, m \in P
      PROVE  m + 1 \in P
  <2>1. PICK f : JoinUpTo(f, k, size, path, first, m)
    BY <1>2
  <2>2. PICK g : g = [s \in Sides(size, k) |-> JoinStep(f, k, size, path, first, s)]
    OBVIOUS
  <2>3. \A s \in Sides(size, k) : g[s] = JoinStep(f, k, size, path, first, s)
    BY <2>2
  <2>4. PairsAgree(f, g, Sides(size, k), m)
    BY <2>1, <2>3 DEF JoinUpTo, PairsAgree
  <2>5. \A s \in Sides(size, k) : s[1][2] <= m + 1 =>
           JoinStep(f, k, size, path, first, s) = JoinStep(g, k, size, path, first, s)
    BY <2>4, JoinStepLocal
  <2>6. JoinUpTo(g, k, size, path, first, m + 1)
    BY <2>3, <2>5 DEF JoinUpTo
  <2> QED
    BY <2>6
<1>3. Nat \subseteq P
  <2> HIDE DEF P
  <2> QED
    BY <1>1, <1>2, Induction
<1> QED
    BY <1>3

LEMMA JoinDef ==
    ASSUME NEW size \in Nat, NEW k \in Nat \ {0}, NEW path, NEW first
    PROVE  \E f : /\ \A s \in Sides(size, k) : f[s] = JoinStep(f, k, size, path, first, s)
                 /\ ConsistencyWalk(k, size, TRUE, path, first) = f[<<<<0, size>>, TRUE>>]
<1>0. PICK most \in Nat : \A s \in Sides(size, k) : s[1][2] <= most /\ s[1][2] <= most + 1
    BY SidesParts
<1>1. PICK f : JoinUpTo(f, k, size, path, first, most)
    BY JoinExists
<1>2. PICK g : g = [s \in Sides(size, k) |-> JoinStep(f, k, size, path, first, s)]
    OBVIOUS
<1>3. PairsAgree(f, g, Sides(size, k), most)
    BY <1>1, <1>2 DEF JoinUpTo, PairsAgree
<1>4. \A s \in Sides(size, k) :
         JoinStep(f, k, size, path, first, s) = JoinStep(g, k, size, path, first, s)
    BY <1>0, <1>3, JoinStepLocal
<1> DEFINE Is(h) == h = [s \in Sides(size, k) |-> JoinStep(h, k, size, path, first, s)]
<1>5. Is(g)
    BY <1>2, <1>4
<1> DEFINE walk == CHOOSE h : Is(h)
<1>6. Is(walk)
    BY <1>5
<1>7. ConsistencyWalk(k, size, TRUE, path, first) = walk[<<<<0, size>>, TRUE>>]
    BY DEF Sides, ConsistencyWalk, JoinStep
<1> HIDE DEF walk
<1>8. \A s \in Sides(size, k) : walk[s] = JoinStep(walk, k, size, path, first, s)
    BY <1>6
<1> QED
    BY <1>7, <1>8

JoinWalks(f, k, size, path, first) ==
    /\ \A s \in Sides(size, k) : f[s] = JoinStep(f, k, size, path, first, s)
    /\ ConsistencyWalk(k, size, TRUE, path, first) = f[<<<<0, size>>, TRUE>>]

LEMMA JoinWalksExist ==
    ASSUME NEW size \in Nat, NEW k \in Nat \ {0}
    PROVE  \A path, first : \E f : JoinWalks(f, k, size, path, first)
    BY JoinDef DEF JoinWalks

LEMMA JoinedMeans ==
    ASSUME NEW H, NEW rest \in Seq(H), NEW h \in H, NEW o, NEW n
    PROVE  /\ Joined(Found(o, n, <<h>> \o rest), TRUE) = Found(o, NodeHash(n, h), rest)
           /\ Joined(Found(o, n, <<h>> \o rest), FALSE)
                  = Found(NodeHash(h, o), NodeHash(h, n), rest)
<1>1. PICK path, sub : path = <<h>> \o rest /\ sub = Found(o, n, path)
    OBVIOUS
<1>2. ~sub.short /\ sub.old = o /\ sub.new = n /\ sub.rest = path
    BY <1>1 DEF Found
<1>3. Head(path) = h /\ Tail(path) = rest /\ path # <<>>
    BY <1>1, EntryRead
<1>4. ~Spent(sub)
    BY <1>2, <1>3 DEF Spent
<1> QED
    BY <1>1, <1>2, <1>3, <1>4 DEF Joined

\* The older tree's part of a slice.
Older(s, k) == <<s[1], k - s[1]>>

\* A part that the last old leaf is in is split in the older tree as in the newer one.
LEMMA OlderParts ==
    ASSUME NEW v, Len(v) \in Nat, NEW k \in Nat \ {0}, NEW s \in Holding(Len(v), k - 1),
           k # s[1] + s[2]
    PROVE  /\ k <= Right(s)[1] => Older(Left(s), k) = Older(s, k)
           /\ ~(k <= Right(s)[1]) =>
                 Roots(v)[Older(s, k)]
                    = NodeHash(Roots(v)[Left(s)], Roots(v)[Older(Right(s), k)])
<1>1. k - 1 \in Nat
    OBVIOUS
<1>2. /\ s \in Slices(Len(v)) /\ s[1] \in Nat /\ s[2] \in Nat
      /\ s[1] <= k - 1 /\ k - 1 < s[1] + s[2] /\ s[1] + s[2] <= Len(v)
    BY <1>1, HoldingParts
<1>3. s[2] > 1
    BY SidesGoDown
<1>4. /\ Left(s)[1] = s[1] /\ Right(s)[1] = s[1] + Split(s[2])
      /\ Split(s[2]) \in 1..s[2] - 1
    BY <1>2, <1>3, SliceParts
<1>5. k <= Right(s)[1] => Older(Left(s), k) = Older(s, k)
    BY <1>4 DEF Older
<1>6. ASSUME ~(k <= Right(s)[1])
      PROVE  Roots(v)[Older(s, k)]
                = NodeHash(Roots(v)[Left(s)], Roots(v)[Older(Right(s), k)])
  <2>1. k - s[1] \in Nat /\ Split(s[2]) < k - s[1] /\ k - s[1] <= s[2]
    BY <1>2, <1>4, <1>6
  <2>2. Split(k - s[1]) = Split(s[2])
    BY <1>2, <1>3, <2>1, SplitAlike
  <2>3. PICK t : t = Older(s, k)
    OBVIOUS
  <2>4. t[1] = s[1] /\ t[2] = k - s[1] /\ t[2] > 1
    BY <1>4, <2>1, <2>3 DEF Older
  <2>5. t \in Slices(Len(v))
    BY <1>2, <2>1, <2>3 DEF Older, Slices
  <2>6. Roots(v)[t] = NodeHash(Roots(v)[Left(t)], Roots(v)[Right(t)])
    BY <2>4, <2>5, RootCases
  <2>7. Left(t) = Left(s)
    BY <2>2, <2>4 DEF Left
  <2>8. Right(t) = <<s[1] + Split(s[2]), k - s[1] - Split(s[2])>>
    BY <2>2, <2>4 DEF Right
  <2>9. Older(Right(s), k) = <<s[1] + Split(s[2]), k - (s[1] + Split(s[2]))>>
    BY <1>4 DEF Older
  <2>10. k - s[1] - Split(s[2]) = k - (s[1] + Split(s[2]))
    BY <1>2, <1>4
  <2> QED
    BY <2>3, <2>6, <2>7, <2>8, <2>9, <2>10
<1> QED
    BY <1>5, <1>6

\* The host's proof leads to the newer root and is used up, and it leads to the
\* older root too exactly if that is the root of the tree's first k leaves.
LEMMA ConsistencyWalks ==
    ASSUME NEW D, NEW leaves \in Seq(D), NEW k \in 1..Len(leaves) - 1, NEW first
    PROVE  \E o, n :
              /\ ConsistencyWalk(k, Len(leaves), TRUE, Subproof(k, leaves, TRUE), first)
                    = Found(o, n, <<>>)
              /\ o = first /\ n = MerkleRoot(leaves) <=> first = Roots(leaves)[<<0, k>>]
<1>1. Len(leaves) \in Nat /\ k \in Nat \ {0} /\ k - 1 \in Nat
    BY LenProperties
<1>2. PICK size \in Nat : size = Len(leaves)
    BY <1>1
<1>3. PICK holding, R, proof :
          /\ holding = Holding(size, k - 1) /\ R = Roots(leaves)
          /\ proof = Subproof(k, leaves, TRUE)
    OBVIOUS
<1>4. PICK f : /\ \A s \in Sides(size, k) : f[s] = SubStep(f, k, leaves, s)
               /\ proof = f[<<<<0, size>>, TRUE>>]
    BY <1>1, <1>2, <1>3, SubDef
<1>5. PICK w : /\ \A s \in Sides(size, k) : w[s] = JoinStep(w, k, size, proof, first, s)
               /\ ConsistencyWalk(k, size, TRUE, proof, first) = w[<<<<0, size>>, TRUE>>]
  <2>1. k \in Nat \ {0} /\ size \in Nat
    BY <1>1, <1>2
  <2>2. \E g : JoinWalks(g, k, size, proof, first)
    BY <2>1, JoinWalksExist
  <2> QED
    BY <2>2 DEF JoinWalks
<1>6. PICK H : H = {R[s] : s \in Slices(size)}
    OBVIOUS
<1>7. ASSUME NEW s \in holding, NEW b \in BOOLEAN
      PROVE  /\ f[<<s, b>>] = SubStep(f, k, leaves, <<s, b>>)
             /\ w[<<s, b>>] = JoinStep(w, k, size, proof, first, <<s, b>>)
  <2>1. <<s, b>> \in Sides(size, k)
    BY <1>3 DEF Sides
  <2> QED
    BY <1>4, <1>5, <2>1
\* What the two recursions say at a slice.
<1>8. ASSUME NEW s \in holding, k = s[1] + s[2]
      PROVE  /\ f[<<s, TRUE>>] = <<>> /\ f[<<s, FALSE>>] = <<R[s]>>
             /\ w[<<s, TRUE>>] = Found(first, first, proof)
             /\ proof # <<>> => w[<<s, FALSE>>] = Found(Head(proof), Head(proof), Tail(proof))
    BY <1>3, <1>7, <1>8 DEF SubStep, JoinStep
<1>9. ASSUME NEW s \in holding, NEW b \in BOOLEAN, k # s[1] + s[2], k <= Right(s)[1]
      PROVE  /\ f[<<s, b>>] = Append(f[<<Left(s), b>>], R[Right(s)])
             /\ w[<<s, b>>] = Joined(w[<<Left(s), b>>], TRUE)
  <2>1. PICK p : p = <<s, b>>
    OBVIOUS
  <2>2. p[1] = s /\ p[2] = b
    BY <2>1
  <2>3. f[p] = SubStep(f, k, leaves, p) /\ w[p] = JoinStep(w, k, size, proof, first, p)
    BY <1>7, <1>9, <2>1
  <2>4. /\ f[p] = Append(f[<<Left(s), p[2]>>], R[Right(s)])
        /\ w[p] = Joined(w[<<Left(s), p[2]>>], TRUE)
    BY <1>3, <1>9, <2>2, <2>3 DEF SubStep, JoinStep
  <2> QED
    BY <2>1, <2>2, <2>4
<1>10. ASSUME NEW s \in holding, NEW b \in BOOLEAN, k # s[1] + s[2], ~(k <= Right(s)[1])
       PROVE  /\ f[<<s, b>>] = Append(f[<<Right(s), FALSE>>], R[Left(s)])
              /\ w[<<s, b>>] = Joined(w[<<Right(s), FALSE>>], FALSE)
    BY <1>3, <1>7, <1>10 DEF SubStep, JoinStep
<1>11. ASSUME NEW s \in holding
       PROVE  /\ s \in Slices(size) /\ R[s] \in H
              /\ k # s[1] + s[2] =>
                    /\ Left(s) \in Slices(size) /\ R[Left(s)] \in H
                    /\ Right(s) \in Slices(size) /\ R[Right(s)] \in H
                    /\ R[s] = NodeHash(R[Left(s)], R[Right(s)])
                    /\ k <= Right(s)[1] => Older(Left(s), k) = Older(s, k)
                    /\ ~(k <= Right(s)[1]) =>
                          R[Older(s, k)] = NodeHash(R[Left(s)], R[Older(Right(s), k)])
  <2>1. s \in Slices(size)
    BY <1>1, <1>3, HoldingParts
  <2>2. ASSUME k # s[1] + s[2]
        PROVE  /\ Left(s) \in Slices(size) /\ Right(s) \in Slices(size)
               /\ R[s] = NodeHash(R[Left(s)], R[Right(s)])
               /\ k <= Right(s)[1] => Older(Left(s), k) = Older(s, k)
               /\ ~(k <= Right(s)[1]) =>
                     R[Older(s, k)] = NodeHash(R[Left(s)], R[Older(Right(s), k)])
    <3>1. s[2] > 1
        BY <1>1, <1>3, <2>2, SidesGoDown
    <3>2. Left(s) \in Slices(size) /\ Right(s) \in Slices(size)
        BY <1>2, <2>1, <3>1, SliceParts
    <3>3. R[s] = NodeHash(R[Left(s)], R[Right(s)])
        BY <1>2, <1>3, <2>1, <3>1, RootCases
    <3>4. /\ k <= Right(s)[1] => Older(Left(s), k) = Older(s, k)
          /\ ~(k <= Right(s)[1]) =>
                R[Older(s, k)] = NodeHash(R[Left(s)], R[Older(Right(s), k)])
        BY <1>1, <1>2, <1>3, <2>2, OlderParts
    <3> QED
        BY <3>2, <3>3, <3>4
  <2> QED
    BY <1>6, <2>1, <2>2
<1> DEFINE
       GoodF(s) == /\ f[<<s, FALSE>>] \in Seq(H)
                   /\ \A rest \in Seq(H) : proof = f[<<s, FALSE>>] \o rest =>
                         w[<<s, FALSE>>] = Found(R[Older(s, k)], R[s], rest)
       GoodT(s) == /\ f[<<s, TRUE>>] \in Seq(H)
                   /\ \A rest \in Seq(H) : proof = f[<<s, TRUE>>] \o rest =>
                         \E o, n : /\ w[<<s, TRUE>>] = Found(o, n, rest)
                                   /\ o = first /\ n = R[s] <=> first = R[Older(s, k)]
       P == {m \in Nat : \A s \in holding : s[2] <= m => GoodF(s) /\ GoodT(s)}
<1>12. 0 \in P
  <2>1. \A s \in holding : ~(s[2] <= 0)
    BY <1>1, <1>3, HoldingParts
  <2> HIDE DEF GoodF, GoodT
  <2> QED
    BY <2>1
<1>13. ASSUME NEW s \in holding, k = s[1] + s[2]
       PROVE  GoodF(s) /\ GoodT(s)
  <2>1. PICK h \in H : h = R[s]
    BY <1>11
  <2>2. Older(s, k) = s
    <3>1. s[1] \in Nat /\ s[2] \in Nat
        BY <1>1, <1>3, HoldingParts
    <3>2. s = <<s[1], s[2]>>
        BY <1>11 DEF Slices
    <3> QED
        BY <1>13, <3>1, <3>2 DEF Older
  <2>3. GoodF(s)
    <3>0. f[<<s, FALSE>>] = <<R[s]>>
        BY <1>8, <1>13
    <3>a. <<h>> \in Seq(H)
        BY <2>1
    <3>1. f[<<s, FALSE>>] = <<h>> /\ <<h>> \in Seq(H)
        BY <2>1, <3>0, <3>a
    <3>2. ASSUME NEW rest \in Seq(H), proof = <<h>> \o rest
          PROVE  w[<<s, FALSE>>] = Found(R[Older(s, k)], R[s], rest)
      <4>1. proof # <<>> /\ Head(proof) = h /\ Tail(proof) = rest
        BY <3>2, EntryRead
      <4> QED
        BY <1>8, <1>13, <2>1, <2>2, <4>1
    <3> QED
        BY <3>1, <3>2
  <2>4. GoodT(s)
    <3>1. f[<<s, TRUE>>] = <<>> /\ <<>> \in Seq(H) /\ \A rest \in Seq(H) : <<>> \o rest = rest
        BY <1>8, <1>13, EmptySeq, ConcatEmptySeq
    <3>2. w[<<s, TRUE>>] = Found(first, first, proof)
        BY <1>8, <1>13
    <3>3. first = first /\ first = R[s] <=> first = R[Older(s, k)]
        BY <2>2
    <3> QED
        BY <3>1, <3>2, <3>3
  <2> QED
    BY <2>3, <2>4
<1>14. ASSUME NEW s \in holding, k # s[1] + s[2], k <= Right(s)[1],
              GoodF(Left(s)), GoodT(Left(s))
       PROVE  GoodF(s) /\ GoodT(s)
  <2>1. PICK h \in H : h = R[Right(s)]
    BY <1>11, <1>14
  <2>2. R[s] = NodeHash(R[Left(s)], h) /\ Older(Left(s), k) = Older(s, k)
    BY <1>11, <1>14, <2>1
  <2>3. GoodF(s)
    <3>1. PICK q \in Seq(H) : q = f[<<Left(s), FALSE>>]
        BY <1>14
    <3>2. f[<<s, FALSE>>] = Append(q, h) /\ w[<<s, FALSE>>] = Joined(w[<<Left(s), FALSE>>], TRUE)
        BY <1>9, <1>14, <2>1, <3>1
    <3>3. Append(q, h) \in Seq(H)
        BY <3>1, EntryMoves, EmptySeq
    <3>4. ASSUME NEW rest \in Seq(H), proof = f[<<s, FALSE>>] \o rest
          PROVE  w[<<s, FALSE>>] = Found(R[Older(s, k)], R[s], rest)
      <4>1. proof = q \o (<<h>> \o rest) /\ <<h>> \o rest \in Seq(H)
        BY <3>2, <3>4, EntryMoves, EntryRead, SMTT(40)
      <4>2. PICK x, y : x = R[Older(s, k)] /\ y = R[Left(s)]
        OBVIOUS
      <4>3. w[<<Left(s), FALSE>>] = Found(x, y, <<h>> \o rest)
        BY <1>14, <2>2, <3>1, <4>1, <4>2
      <4>4. Joined(Found(x, y, <<h>> \o rest), TRUE) = Found(x, NodeHash(y, h), rest)
        BY <2>1, <3>4, JoinedMeans
      <4> QED
        BY <2>2, <3>2, <4>2, <4>3, <4>4
    <3> QED
        BY <3>2, <3>3, <3>4
  <2>4. GoodT(s)
    <3>1. PICK q \in Seq(H) : q = f[<<Left(s), TRUE>>]
        BY <1>14
    <3>2. f[<<s, TRUE>>] = Append(q, h) /\ w[<<s, TRUE>>] = Joined(w[<<Left(s), TRUE>>], TRUE)
        BY <1>9, <1>14, <2>1, <3>1
    <3>3. Append(q, h) \in Seq(H)
        BY <3>1, EntryMoves, EmptySeq
    <3>4. ASSUME NEW rest \in Seq(H), proof = f[<<s, TRUE>>] \o rest
          PROVE  \E o, n : /\ w[<<s, TRUE>>] = Found(o, n, rest)
                           /\ o = first /\ n = R[s] <=> first = R[Older(s, k)]
      <4>1. proof = q \o (<<h>> \o rest) /\ <<h>> \o rest \in Seq(H)
        BY <3>2, <3>4, EntryMoves, EntryRead, SMTT(40)
      <4>2. PICK o, n : /\ w[<<Left(s), TRUE>>] = Found(o, n, <<h>> \o rest)
                        /\ o = first /\ n = R[Left(s)] <=> first = R[Older(Left(s), k)]
        BY <1>14, <3>1, <4>1
      <4>3. Joined(Found(o, n, <<h>> \o rest), TRUE) = Found(o, NodeHash(n, h), rest)
        BY <2>1, <3>4, JoinedMeans
      <4>4. w[<<s, TRUE>>] = Found(o, NodeHash(n, h), rest)
        BY <3>2, <4>2, <4>3
      <4>5. NodeHash(n, h) = NodeHash(R[Left(s)], h) <=> n = R[Left(s)]
        BY NodesTell
      <4>6. o = first /\ NodeHash(n, h) = R[s] <=> first = R[Older(s, k)]
        BY <2>2, <4>2, <4>5
      <4> QED
        BY <4>4, <4>6
    <3> QED
        BY <3>2, <3>3, <3>4
  <2> QED
    BY <2>3, <2>4
<1>15. ASSUME NEW s \in holding, k # s[1] + s[2], ~(k <= Right(s)[1]), GoodF(Right(s)),
              NEW b \in BOOLEAN
       PROVE  /\ f[<<s, b>>] \in Seq(H)
              /\ \A rest \in Seq(H) : proof = f[<<s, b>>] \o rest =>
                    w[<<s, b>>] = Found(R[Older(s, k)], R[s], rest)
  <2>1. PICK h \in H : h = R[Left(s)]
    BY <1>11, <1>15
  <2>2. /\ R[s] = NodeHash(h, R[Right(s)])
        /\ R[Older(s, k)] = NodeHash(h, R[Older(Right(s), k)])
    BY <1>11, <1>15, <2>1
  <2>3. PICK q \in Seq(H) : q = f[<<Right(s), FALSE>>]
    BY <1>15
  <2>4. f[<<s, b>>] = Append(q, h) /\ w[<<s, b>>] = Joined(w[<<Right(s), FALSE>>], FALSE)
    BY <1>10, <1>15, <2>1, <2>3
  <2>5. Append(q, h) \in Seq(H)
    BY <2>3, EntryMoves, EmptySeq
  <2>6. ASSUME NEW rest \in Seq(H), proof = f[<<s, b>>] \o rest
        PROVE  w[<<s, b>>] = Found(R[Older(s, k)], R[s], rest)
    <3>1. proof = q \o (<<h>> \o rest) /\ <<h>> \o rest \in Seq(H)
        BY <2>4, <2>6, EntryMoves, EntryRead
    <3>2. PICK x, y : x = R[Older(Right(s), k)] /\ y = R[Right(s)]
        OBVIOUS
    <3>3. w[<<Right(s), FALSE>>] = Found(x, y, <<h>> \o rest)
        BY <1>15, <2>3, <3>1, <3>2
    <3>4. Joined(Found(x, y, <<h>> \o rest), FALSE)
             = Found(NodeHash(h, x), NodeHash(h, y), rest)
        BY <2>1, <2>6, JoinedMeans
    <3> QED
        BY <2>2, <2>4, <3>2, <3>3, <3>4
  <2> QED
    BY <2>4, <2>5, <2>6
<1>16. ASSUME NEW s \in holding, k # s[1] + s[2], ~(k <= Right(s)[1]), GoodF(Right(s))
       PROVE  GoodF(s) /\ GoodT(s)
  <2>1. GoodF(s)
    BY <1>15, <1>16
  <2>2. /\ f[<<s, TRUE>>] \in Seq(H)
        /\ \A rest \in Seq(H) : proof = f[<<s, TRUE>>] \o rest =>
              w[<<s, TRUE>>] = Found(R[Older(s, k)], R[s], rest)
    BY <1>15, <1>16
  <2>3. PICK o, n : o = R[Older(s, k)] /\ n = R[s]
    OBVIOUS
  <2>4. o = first /\ n = R[s] <=> first = R[Older(s, k)]
    BY <2>3
  <2>5. GoodT(s)
    BY <2>2, <2>3, <2>4
  <2> QED
    BY <2>1, <2>5
<1>17. ASSUME NEW m \in Nat, m \in P
       PROVE  m + 1 \in P
  <2> HIDE DEF GoodF, GoodT
  <2>1. ASSUME NEW s \in holding, s[2] <= m + 1
        PROVE  GoodF(s) /\ GoodT(s)
    <3>1. CASE k = s[1] + s[2]
        BY <1>13, <3>1
    <3>2. CASE k # s[1] + s[2] /\ k <= Right(s)[1]
      <4>1. Left(s) \in holding /\ Left(s)[2] <= m
        BY <1>1, <1>3, <2>1, <3>2, SidesGoDown
      <4>2. GoodF(Left(s)) /\ GoodT(Left(s))
        BY <1>17, <4>1
      <4> QED
        BY <1>14, <3>2, <4>2
    <3>3. CASE k # s[1] + s[2] /\ ~(k <= Right(s)[1])
      <4>1. Right(s) \in holding /\ Right(s)[2] <= m
        BY <1>1, <1>3, <2>1, <3>3, SidesGoDown
      <4>2. GoodF(Right(s))
        BY <1>17, <4>1
      <4> QED
        BY <1>16, <3>3, <4>2
    <3> QED
        BY <3>1, <3>2, <3>3
  <2> QED
    BY <2>1
<1>18. Nat \subseteq P
  <2> HIDE DEF P
  <2> QED
    BY <1>12, <1>17, Induction
<1>19. <<0, size>> \in holding /\ <<0, size>>[2] <= size
    BY <1>1, <1>2, <1>3 DEF Holding, Slices
<1>20. GoodT(<<0, size>>)
  <2> HIDE DEF GoodF, GoodT
  <2>1. size \in P
    BY <1>18
  <2> QED
    BY <1>19, <2>1
<1>21. proof \o <<>> = proof /\ <<>> \in Seq(H)
    BY <1>4, <1>20, ConcatEmptySeq, EmptySeq
<1>22. PICK o, n :
          /\ w[<<<<0, size>>, TRUE>>] = Found(o, n, <<>>)
          /\ o = first /\ n = R[<<0, size>>] <=> first = R[Older(<<0, size>>, k)]
    BY <1>4, <1>20, <1>21
<1>23. Older(<<0, size>>, k) = <<0, k>>
    BY <1>1 DEF Older
<1> QED
    BY <1>2, <1>3, <1>5, <1>22, <1>23 DEF MerkleRoot

LEMMA BeginningMeans ==
    ASSUME NEW D, NEW older \in Seq(D), NEW newer \in Seq(D)
    PROVE  IsPrefix(older, newer) <=>
              Len(older) <= Len(newer) /\ \A i \in 1..Len(older) : older[i] = newer[i]
<1>1. Len(older) \in Nat /\ Len(newer) \in Nat
    BY LenProperties
<1>2. ASSUME Len(older) <= Len(newer)
      PROVE  SubSeq(older, 1, Len(older)) = SubSeq(newer, 1, Len(older)) <=>
                \A i \in 1..Len(older) : older[i] = newer[i]
  <2>1. PICK s, t : s = SubSeq(older, 1, Len(older)) /\ t = SubSeq(newer, 1, Len(older))
    OBVIOUS
  <2>2. \A i \in 1..Len(older) : older[i] \in D /\ newer[i] \in D
    BY <1>1, <1>2, ElementOfSeq
  <2>3. /\ s \in Seq(D) /\ Len(s) = Len(older)
        /\ \A i \in 1..Len(older) : s[i] = older[i]
    BY <1>1, <2>1
  <2>4. /\ t \in Seq(D) /\ Len(t) = Len(older)
        /\ \A i \in 1..Len(older) : t[i] = newer[i]
    BY <1>1, <1>2, <2>1, <2>2
  <2>5. s = t <=> \A i \in 1..Len(older) : s[i] = t[i]
    BY <2>3, <2>4, SeqEqual
  <2> QED
    BY <2>1, <2>3, <2>4, <2>5
<1> QED
    BY <1>2 DEF IsPrefix

\* The root of the first leaves of a tree is that of a claim exactly if they are.
LEMMA OlderRootMeans ==
    ASSUME NEW D, NEW older \in Seq(D), NEW newer \in Seq(D), Len(older) <= Len(newer)
    PROVE  MerkleRoot(older) = Roots(newer)[<<0, Len(older)>>] <=>
              \A i \in 1..Len(older) : older[i] = newer[i]
<1>1. Len(older) \in Nat /\ Len(newer) \in Nat
    BY LenProperties
<1>2. PICK s : s = <<0, Len(older)>>
    OBVIOUS
<1>3. s \in Slices(Len(older)) /\ s \in Slices(Len(newer)) /\ s[1] = 0 /\ s[2] = Len(older)
    BY <1>1, <1>2 DEF Slices
<1>4. Roots(older)[s] = Roots(newer)[s] <=> SameLeaves(older, s, newer, s)
    BY <1>1, <1>3, RootsTell
<1>5. SameLeaves(older, s, newer, s) <=> \A i \in 1..Len(older) : older[0 + i] = newer[0 + i]
    BY <1>3 DEF SameLeaves
<1>6. \A i \in 1..Len(older) : 0 + i = i
    BY <1>1
<1> QED
    BY <1>2, <1>4, <1>5, <1>6 DEF MerkleRoot

LEMMA ArrivesMeans ==
    ASSUME NEW o, NEW n, NEW first, NEW second
    PROVE  Arrives(Found(o, n, <<>>), first, second) <=> o = first /\ n = second
<1>1. PICK walk : walk = Found(o, n, <<>>)
    OBVIOUS
<1>2. ~walk.short /\ walk.old = o /\ walk.new = n /\ walk.rest = <<>>
    BY <1>1 DEF Found
<1> QED
    BY <1>1, <1>2 DEF Arrives

\* The consistency proof the host computes is accepted exactly for a beginning.
LEMMA ConsistencyMeans ==
    ASSUME NEW D, NEW older \in Seq(D), NEW newer \in Seq(D)
    PROVE  VerifyConsistency(MerkleRoot(older), MerkleRoot(newer), Len(older), Len(newer),
                             IF Len(older) <= Len(newer) THEN ConsistencyProof(newer, Len(older))
                             ELSE <<>>)
              <=> IsPrefix(older, newer)
<1>1. PICK k \in Nat, size \in Nat : k = Len(older) /\ size = Len(newer)
    BY LenProperties
<1>2. PICK first, second : first = MerkleRoot(older) /\ second = MerkleRoot(newer)
    OBVIOUS
<1>3. IsPrefix(older, newer) <=> k <= size /\ \A i \in 1..k : older[i] = newer[i]
    BY <1>1, BeginningMeans
<1>4. CASE ~(k <= size)
  <2>1. ~IsPrefix(older, newer) /\ k \notin 0..size
    BY <1>3, <1>4
  <2> QED
    BY <1>1, <2>1 DEF VerifyConsistency
<1>5. CASE k <= size
  <2>1. PICK proof : proof = ConsistencyProof(newer, k)
    OBVIOUS
  <2> SUFFICES VerifyConsistency(first, second, k, size, proof) <=> IsPrefix(older, newer)
    BY <1>1, <1>2, <1>5, <2>1
  <2>2. first = Roots(newer)[<<0, k>>] <=> \A i \in 1..k : older[i] = newer[i]
    BY <1>1, <1>2, <1>5, OlderRootMeans
  <2>3. k \in 0..size
    BY <1>5
  <2>4. CASE k = 0
    <3>1. proof = <<>>
        BY <1>1, <2>1, <2>4 DEF ConsistencyProof
    <3>2. VerifyConsistency(first, second, k, size, proof)
        BY <2>3, <2>4, <3>1 DEF VerifyConsistency
    <3>3. \A i \in 1..k : FALSE
        BY <2>4
    <3> QED
        BY <1>3, <1>5, <3>2, <3>3
  <2>5. CASE k = size /\ k # 0
    <3>1. proof = <<>>
        BY <1>1, <2>1, <2>5 DEF ConsistencyProof
    <3>2. VerifyConsistency(first, second, k, size, proof) <=> first = second
        BY <2>3, <2>5, <3>1 DEF VerifyConsistency
    <3>3. second = Roots(newer)[<<0, k>>]
        BY <1>1, <1>2, <2>5 DEF MerkleRoot
    <3> QED
        BY <1>3, <1>5, <2>2, <3>2, <3>3
  <2>6. CASE k # size /\ k # 0
    <3>1. k \in 1..Len(newer) - 1
        BY <1>1, <1>5, <2>6
    <3>2. proof = Subproof(k, newer, TRUE)
        BY <1>1, <2>1, <2>6 DEF ConsistencyProof
    <3>a. \E o, n :
             /\ ConsistencyWalk(k, Len(newer), TRUE, Subproof(k, newer, TRUE), first)
                   = Found(o, n, <<>>)
             /\ o = first /\ n = MerkleRoot(newer) <=> first = Roots(newer)[<<0, k>>]
        BY <3>1, ConsistencyWalks
    <3>3. PICK o, n :
             /\ ConsistencyWalk(k, size, TRUE, proof, first) = Found(o, n, <<>>)
             /\ o = first /\ n = second <=> first = Roots(newer)[<<0, k>>]
        BY <1>1, <1>2, <3>2, <3>a
    <3>4. VerifyConsistency(first, second, k, size, proof) <=>
             Arrives(ConsistencyWalk(k, size, TRUE, proof, first), first, second)
        BY <2>3, <2>6 DEF VerifyConsistency
    <3>5. Arrives(Found(o, n, <<>>), first, second) <=> o = first /\ n = second
        BY ArrivesMeans
    <3> QED
        BY <1>3, <1>5, <2>2, <3>3, <3>4, <3>5
  <2> QED
    BY <2>4, <2>5, <2>6
<1> QED
    BY <1>4, <1>5

\* The inclusion proof of a leaf is accepted, and no proof at all, made by the host
\* or by anybody else, is accepted for another leaf or at another place
\* (inclusion_proof, verify_inclusion).
THEOREM InclusionMeans ==
    ASSUME NEW D, NEW newer \in Seq(D), NEW index \in Nat, NEW leaf
    PROVE  LET there == index < Len(newer) /\ newer[index + 1] = leaf
               accepts(path) == VerifyInclusion(MerkleRoot(newer), leaf, index, Len(newer), path)
           IN  /\ there => accepts(InclusionProof(newer, index))
               /\ \A path : accepts(path) => there
<1>1. PICK size \in Nat : size = Len(newer)
    BY LenProperties
<1>2. PICK root : root = MerkleRoot(newer)
    OBVIOUS
<1>3. ASSUME index < size, newer[index + 1] = leaf
      PROVE  VerifyInclusion(root, leaf, index, size, InclusionProof(newer, index))
  <2>1. index \in 0..Len(newer) - 1 /\ index \in 0..size - 1
    BY <1>1, <1>3
  <2>2. Walk(size, index, InclusionProof(newer, index), LeafHash(leaf)) = Found(root, root, <<>>)
    BY <1>1, <1>2, <1>3, <2>1, InclusionComplete
  <2>3. Arrives(Found(root, root, <<>>), root, root)
    BY ArrivesMeans
  <2> QED
    BY <2>1, <2>2, <2>3 DEF VerifyInclusion
<1>4. ASSUME NEW path, VerifyInclusion(root, leaf, index, size, path)
      PROVE  index < size /\ newer[index + 1] = leaf
  <2>1. PICK walk : walk = Walk(size, index, path, LeafHash(leaf))
    OBVIOUS
  <2>2. index \in 0..size - 1 /\ ~walk.short /\ walk.new = root
    BY <1>4, <2>1 DEF VerifyInclusion, Arrives
  <2>3. LeafHash(leaf) = LeafHash(newer[index + 1])
    BY <1>1, <1>2, <2>1, <2>2, InclusionSound
  <2>4. leaf = newer[index + 1]
    BY <2>3, Hashes
  <2> QED
    BY <2>2, <2>4
<1> QED
    BY <1>1, <1>2, <1>3, <1>4

\* The leaves are what they are, whichever component moves.
TreesTyped == tree \in Seq(Leaves) /\ claim \in Seq(Leaves)

LEMMA TreesTypedSteps ==
    ASSUME TreesTyped, [FederationNext]_federationVars
    PROVE  TreesTyped'
<1>1. CASE TreeNext
  <2>1. PICK leaf \in Leaves : GrowTree(leaf) \/ GrowClaim(leaf)
    BY <1>1 DEF TreeNext
  <2>2. Append(tree, leaf) \in Seq(Leaves) /\ Append(claim, leaf) \in Seq(Leaves)
    BY AppendProperties DEF TreesTyped
  <2> QED
    BY <2>1, <2>2 DEF GrowTree, GrowClaim, TreesTyped
<1>2. CASE UNCHANGED treeVars
    BY <1>2 DEF TreesTyped, treeVars
<1>3. TreeNext \/ UNCHANGED treeVars
  <2>1. CASE UNCHANGED federationVars
    BY <2>1 DEF federationVars
  <2>2. CASE FederationNext
    BY <2>2 DEF FederationNext, Stays, Moves
  <2> QED
    BY <2>1, <2>2
<1> QED
    BY <1>1, <1>2, <1>3

LEMMA TreesExact ==
    ASSUME TreesTyped
    PROVE  ProofsExact
<1>1. ConsistencyExact
    BY ConsistencyMeans DEF ConsistencyExact, TreesTyped
<1>2. InclusionExact
  <2>1. ASSUME NEW index \in 0..Len(tree), NEW leaf \in Leaves
        PROVE  LET there == index < Len(tree) /\ tree[index + 1] = leaf
                   accepts(path) == VerifyInclusion(MerkleRoot(tree), leaf, index, Len(tree), path)
               IN  /\ there => accepts(InclusionProof(tree, index))
                   /\ (\E path \in Proofs : accepts(path)) => there
    <3>1. index \in Nat
        OBVIOUS
    <3>2. LET there == index < Len(tree) /\ tree[index + 1] = leaf
              accepts(path) == VerifyInclusion(MerkleRoot(tree), leaf, index, Len(tree), path)
          IN  /\ there => accepts(InclusionProof(tree, index))
              /\ \A path : accepts(path) => there
        BY <3>1, InclusionMeans DEF TreesTyped
    <3> QED
        BY <3>2
  <2> QED
    BY <2>1 DEF InclusionExact
<1> QED
    BY <1>1, <1>2 DEF ProofsExact

\* For trees of any size, a consistency proof the host computes is accepted
\* exactly where the older tree is a beginning of the newer one, and an inclusion
\* proof exactly for the leaf at its place (verify_consistency, verify_inclusion).
THEOREM ProofsStayExact == FederationSpec => []ProofsExact
<1>1. FederationInit => TreesTyped
    BY EmptySeq DEF FederationInit, TreesTyped
<1>2. TreesTyped => ProofsExact
    BY TreesExact
<1> QED
    BY <1>1, <1>2, TreesTypedSteps, PTL DEF FederationSpec

-----------------------------------------------------------------------------
(***************************************************************************)
(* Heads                                                                   *)
(***************************************************************************)
LEMMA GreatestElement ==
    ASSUME NEW N \in Nat, NEW S, S \subseteq 1..N, S # {}
    PROVE  /\ Max(S) \in S /\ Max(S) \in 1..N
           /\ \A k \in S : k <= Max(S)
<1>1. PICK T : T = {N - k : k \in S}
    OBVIOUS
<1>2. T \subseteq Nat /\ T # {}
  <2>1. ASSUME NEW k \in S
        PROVE  N - k \in Nat
    <3>1. k \in 1..N
        OBVIOUS
    <3> QED
        BY <3>1
  <2> QED
    BY <1>1, <2>1
<1>3. PICK t \in T : \A u \in T : ~(u < t)
    BY <1>2, LeastElement
<1>4. PICK m \in S : t = N - m
    BY <1>1, <1>3
<1>5. \A k \in S : m >= k
  <2>1. ASSUME NEW k \in S
        PROVE  m >= k
    <3>1. N - k \in T /\ ~(N - k < N - m)
        BY <1>1, <1>3, <1>4
    <3>2. k \in 1..N /\ m \in 1..N
        OBVIOUS
    <3> QED
        BY <3>1, <3>2
  <2> QED
    BY <2>1
<1>6. Max(S) \in S /\ \A k \in S : Max(S) >= k
    BY <1>5 DEF Max
<1>7. ASSUME NEW x \in S, \A k \in S : x >= k
      PROVE  x \in 1..N /\ \A k \in S : k <= x
  <2>1. x \in 1..N
    OBVIOUS
  <2>2. \A k \in S : k \in 1..N /\ x >= k
    BY <1>7
  <2> QED
    BY <2>1, <2>2
<1>8. Max(S) \in 1..N /\ \A k \in S : k <= Max(S)
    BY <1>6, <1>7
<1> QED
    BY <1>6, <1>8

\* LeavesAt, of any rows.
At(R, n) == {m \in DOMAIN R : m <= n}
In(R, c) == {m \in DOMAIN R : R[m].correlation = c}
Having(R, n) == {R[m].correlation : m \in At(R, n)}
Latest(R, n, c) == Max(In(R, c) \cap At(R, n))
HeadsOf(R, n) == [c \in Having(R, n) |-> R[Latest(R, n, c)].hash]

LEMMA LeavesAreHeads == \A n : LeavesAt(n) = HeadsOf(rows, n)
    BY DEF LeavesAt, HeadsOf, Having, Latest, At, In, UpTo, Of

\* The head of a correlation is the hash of its last row.
LEMMA HeadMeans ==
    ASSUME NEW N \in Nat, NEW R, DOMAIN R \subseteq 1..N, NEW n, NEW c \in DOMAIN HeadsOf(R, n)
    PROVE  /\ Latest(R, n, c) \in DOMAIN R /\ Latest(R, n, c) \in 1..N
           /\ R[Latest(R, n, c)].correlation = c /\ Latest(R, n, c) <= n
           /\ HeadsOf(R, n)[c] = R[Latest(R, n, c)].hash
           /\ \A m \in DOMAIN R : R[m].correlation = c /\ m <= n => m <= Latest(R, n, c)
<1>1. DOMAIN HeadsOf(R, n) = Having(R, n)
    BY DEF HeadsOf
<1>2. HeadsOf(R, n)[c] = R[Latest(R, n, c)].hash
    BY <1>1 DEF HeadsOf
<1>3. PICK S : S = In(R, c) \cap At(R, n)
    OBVIOUS
<1>4. S # {} /\ S \subseteq 1..N
    BY <1>1, <1>3 DEF Having, In, At
<1>5. Max(S) \in S /\ Max(S) \in 1..N /\ \A k \in S : k <= Max(S)
    BY <1>4, GreatestElement
<1>6. Latest(R, n, c) = Max(S)
    BY <1>3 DEF Latest
<1>7. \A m : m \in S <=> m \in DOMAIN R /\ R[m].correlation = c /\ m <= n
    BY <1>3 DEF In, At
<1> QED
    BY <1>2, <1>5, <1>6, <1>7

LEMMA HeadThere ==
    ASSUME NEW R, NEW n, NEW m \in DOMAIN R, m <= n
    PROVE  R[m].correlation \in DOMAIN HeadsOf(R, n)
<1>1. m \in At(R, n)
    BY DEF At
<1>2. R[m].correlation \in Having(R, n)
    BY <1>1 DEF Having
<1> QED
    BY <1>2 DEF HeadsOf

\* Rows that are the same up to n have the same heads at n.
SameRows(R, Q, n) ==
    \A m : /\ m \in At(R, n) <=> m \in At(Q, n)
           /\ m \in At(R, n) => R[m] = Q[m]

LEMMA SameHeads ==
    ASSUME NEW R, NEW Q, NEW n, NEW N \in Nat, DOMAIN R \subseteq 1..N, SameRows(R, Q, n)
    PROVE  HeadsOf(R, n) = HeadsOf(Q, n)
<1>1. At(R, n) = At(Q, n) /\ \A m \in At(R, n) : R[m] = Q[m]
    BY DEF SameRows
<1>2. Having(R, n) = Having(Q, n)
    BY <1>1 DEF Having
<1>3. ASSUME NEW c
      PROVE  In(R, c) \cap At(R, n) = In(Q, c) \cap At(Q, n)
    BY <1>1 DEF In, At
<1>4. \A c : Latest(R, n, c) = Latest(Q, n, c)
    BY <1>3 DEF Latest
<1>5. ASSUME NEW c \in Having(R, n)
      PROVE  R[Latest(R, n, c)].hash = Q[Latest(Q, n, c)].hash
  <2>1. c \in DOMAIN HeadsOf(R, n)
    BY DEF HeadsOf
  <2>2. Latest(R, n, c) \in DOMAIN R /\ Latest(R, n, c) <= n
    BY <2>1, HeadMeans
  <2>3. Latest(R, n, c) \in At(R, n)
    BY <2>2 DEF At
  <2> QED
    BY <1>1, <1>4, <2>3
<1> QED
    BY <1>2, <1>5 DEF HeadsOf

\* Where the rows of a correlation up to n are where they were, its head is too.
LEMMA LastStays ==
    ASSUME NEW R, NEW Q, NEW n, NEW c,
           \A m : m \in In(R, c) \cap At(R, n) <=> m \in In(Q, c) \cap At(Q, n)
    PROVE  Latest(R, n, c) = Latest(Q, n, c)
<1>1. In(R, c) \cap At(R, n) = In(Q, c) \cap At(Q, n)
    OBVIOUS
<1> QED
    BY <1>1 DEF Latest

LEMMA MinMeans ==
    ASSUME NEW S, S \subseteq Nat, S # {}
    PROVE  Min(S) \in S /\ \A k \in S : Min(S) <= k
<1>1. PICK m \in S : \A k \in S : ~(k < m)
    BY LeastElement
<1>2. \A k \in S : m <= k
    BY <1>1
<1> QED
    BY <1>2 DEF Min

-----------------------------------------------------------------------------
(***************************************************************************)
(* What a step does to the store                                           *)
(***************************************************************************)
Versions(n, k) == {Null} \cup {<<n, v>> : v \in 0..k}

\* A content hash has the version of the deed that made it; `after` numbers deeds.
StoreTyped ==
    /\ seq \in 0..MaxSequence
    /\ DOMAIN rows \subseteq 1..seq
    /\ \A m \in DOMAIN rows :
          rows[m] \in [correlation : Correlations, hash : Versions(m, Cardinality(deeds))]
    /\ IsFiniteSet(deeds)
    /\ Cardinality(deeds) \in 0..MaxDeeds
    /\ \A d \in deeds : d.from \in Nat /\ d.after \in 0..Cardinality(deeds) - 1

\* A correlation is removed up to n whole or not at all, and its hashes are kept
\* or nulled.
LawfulRows(R, Q, n) ==
    /\ \A m \in At(Q, n) : /\ m \in At(R, n)
                           /\ Q[m].correlation = R[m].correlation
                           /\ Q[m].hash \in {R[m].hash, Null}
    /\ \A m \in At(R, n), k \in At(Q, n) :
          R[m].correlation = Q[k].correlation => m \in At(Q, n)

RowMoved(m) ==
    \/ /\ m \in DOMAIN rows
       /\ rows'[m].correlation = rows[m].correlation
       /\ rows'[m].hash \in {rows[m].hash, Null}
    \/ rows'[m].hash = Fresh(m) /\ Cardinality(deeds') = Cardinality(deeds) + 1
    \/ m > seq /\ rows'[m].hash = <<m, 0>>

StoreMoved ==
    /\ StoreTyped'
    /\ seq <= seq'
    /\ deeds \subseteq deeds' /\ Cardinality(deeds) <= Cardinality(deeds')
    /\ \A m \in DOMAIN rows' : RowMoved(m)
    /\ \A d \in deeds' \ deeds : d.by = "operator" =>
          \A m \in DOMAIN rows' :
             rows'[m].correlation = d.correlation /\ m >= d.from =>
                rows'[m].hash \in {Null, Fresh(m)}
    /\ \A n \in 0..seq :
          (\A d \in deeds' \ deeds : d.by = "operator" => d.from > n) =>
             LawfulRows(rows, rows', n)
    /\ \A n \in 0..seq :
          (\A d \in deeds' \ deeds : d.from > n) => SameRows(rows, rows', n)

LEMMA LawfulHeads ==
    ASSUME NEW N \in Nat, NEW R, NEW Q, DOMAIN R \subseteq 1..N, DOMAIN Q \subseteq 1..N,
           NEW n, LawfulRows(R, Q, n), NEW c \in DOMAIN HeadsOf(Q, n)
    PROVE  /\ c \in DOMAIN HeadsOf(R, n)
           /\ HeadsOf(Q, n)[c] \in {HeadsOf(R, n)[c], Null}
<1>1. PICK l : l = Latest(Q, n, c)
    OBVIOUS
<1>2. /\ l \in At(Q, n) /\ Q[l].correlation = c /\ HeadsOf(Q, n)[c] = Q[l].hash
    BY <1>1, HeadMeans DEF At
<1>3. /\ l \in At(R, n) /\ R[l].correlation = c /\ Q[l].hash \in {R[l].hash, Null}
    BY <1>2 DEF LawfulRows
<1>4. c \in DOMAIN HeadsOf(R, n)
    BY <1>3, HeadThere DEF At
<1>5. ASSUME NEW m
      PROVE  m \in In(R, c) \cap At(R, n) <=> m \in In(Q, c) \cap At(Q, n)
  <2>1. ASSUME m \in In(R, c) \cap At(R, n)
        PROVE  m \in In(Q, c) \cap At(Q, n)
    <3>1. m \in At(R, n) /\ R[m].correlation = c
        BY <2>1 DEF In
    <3>2. m \in At(Q, n)
        BY <1>2, <3>1 DEF LawfulRows
    <3>3. Q[m].correlation = c
        BY <3>1, <3>2 DEF LawfulRows
    <3> QED
        BY <3>2, <3>3 DEF In, At
  <2>2. ASSUME m \in In(Q, c) \cap At(Q, n)
        PROVE  m \in In(R, c) \cap At(R, n)
    <3>1. m \in At(Q, n) /\ Q[m].correlation = c
        BY <2>2 DEF In
    <3>2. m \in At(R, n) /\ R[m].correlation = c
        BY <3>1 DEF LawfulRows
    <3> QED
        BY <3>2 DEF In, At
  <2> QED
    BY <2>1, <2>2
<1>6. Latest(R, n, c) = Latest(Q, n, c)
    BY <1>5, LastStays
<1>7. HeadsOf(R, n)[c] = R[l].hash
    BY <1>1, <1>4, <1>6, HeadMeans
<1> QED
    BY <1>2, <1>3, <1>4, <1>7

LEMMA SameRowsLawful ==
    ASSUME NEW R, NEW Q, NEW n, SameRows(R, Q, n)
    PROVE  LawfulRows(R, Q, n)
    BY DEF SameRows, LawfulRows

LEMMA DeedMeans ==
    ASSUME StoreTyped, NEW c, NEW k \in Nat, NEW by, Deed(c, k, by)
    PROVE  /\ \E d : /\ deeds' \ deeds = {d} /\ deeds' = deeds \cup {d}
                     /\ d.correlation = c /\ d.from = k /\ d.by = by
           /\ IsFiniteSet(deeds')
           /\ Cardinality(deeds') = Cardinality(deeds) + 1
           /\ Cardinality(deeds') \in 0..MaxDeeds
           /\ \A d \in deeds' : d.from \in Nat /\ d.after \in 0..Cardinality(deeds') - 1
<1>1. PICK d : d = [correlation |-> c, from |-> k, by |-> by, after |-> Cardinality(deeds)]
    OBVIOUS
<1>2. /\ deeds' = deeds \cup {d} /\ Cardinality(deeds) < MaxDeeds
      /\ d.correlation = c /\ d.from = k /\ d.by = by /\ d.after = Cardinality(deeds)
    BY <1>1 DEF Deed
<1>3. /\ IsFiniteSet(deeds) /\ Cardinality(deeds) \in Nat /\ MaxDeeds \in Nat
      /\ \A e \in deeds : e.from \in Nat /\ e.after \in 0..Cardinality(deeds) - 1
    BY WitnessingConstants DEF StoreTyped
<1>4. d \notin deeds
    BY <1>2, <1>3
<1>5. IsFiniteSet(deeds') /\ Cardinality(deeds') = Cardinality(deeds) + 1
    BY <1>2, <1>3, <1>4, FS_AddElement
<1>6. deeds' \ deeds = {d}
    BY <1>2, <1>4
<1>7. \A e \in deeds' : e.from \in Nat /\ e.after \in 0..Cardinality(deeds') - 1
    BY <1>2, <1>3, <1>5
<1>8. \E e : /\ deeds' \ deeds = {e} /\ deeds' = deeds \cup {e}
              /\ e.correlation = c /\ e.from = k /\ e.by = by
    BY <1>2, <1>6
<1>9. Cardinality(deeds') \in 0..MaxDeeds
    BY <1>2, <1>3, <1>5
<1> QED
    BY <1>5, <1>7, <1>8, <1>9

\* What a deed has to be shown about.
RowDone(m) ==
    /\ m \in 1..seq
    /\ rows'[m] = [correlation |-> rows'[m].correlation, hash |-> rows'[m].hash]
    /\ \/ /\ m \in DOMAIN rows
          /\ rows'[m].correlation = rows[m].correlation
          /\ rows'[m].hash \in {rows[m].hash, Null}
       \/ rows'[m].correlation \in Correlations /\ rows'[m].hash = Fresh(m)

LEMMA DeedMoves ==
    ASSUME StoreTyped, NEW c, NEW k \in Nat, NEW by, Deed(c, k, by), seq' = seq,
           \A m \in DOMAIN rows' : RowDone(m),
           by = "operator" => \A m \in DOMAIN rows' :
              rows'[m].correlation = c /\ m >= k => rows'[m].hash \in {Null, Fresh(m)},
           by # "operator" => \A n \in 0..seq : LawfulRows(rows, rows', n),
           \A n \in 0..seq : k > n => SameRows(rows, rows', n)
    PROVE  StoreMoved
<1>1. PICK d : /\ deeds' \ deeds = {d} /\ deeds' = deeds \cup {d}
               /\ d.correlation = c /\ d.from = k /\ d.by = by
    BY DeedMeans
<1>2. /\ IsFiniteSet(deeds') /\ Cardinality(deeds') = Cardinality(deeds) + 1
      /\ Cardinality(deeds') \in 0..MaxDeeds
      /\ \A e \in deeds' : e.from \in Nat /\ e.after \in 0..Cardinality(deeds') - 1
    BY DeedMeans
<1>3. seq \in Nat /\ seq \in 0..MaxSequence /\ Cardinality(deeds) \in Nat
    BY WitnessingConstants DEF StoreTyped
<1>4. StoreTyped'
  <2>1. ASSUME NEW m \in DOMAIN rows'
        PROVE  rows'[m] \in [correlation : Correlations, hash : Versions(m, Cardinality(deeds'))]
    <3>1. RowDone(m)
        OBVIOUS
    <3>2. /\ rows'[m].hash \in Versions(m, Cardinality(deeds'))
          /\ rows'[m].correlation \in Correlations
      <4>1. CASE /\ m \in DOMAIN rows /\ rows'[m].correlation = rows[m].correlation
                 /\ rows'[m].hash \in {rows[m].hash, Null}
        <5>1. /\ rows[m].hash \in Versions(m, Cardinality(deeds))
              /\ rows[m].correlation \in Correlations
            BY <4>1 DEF StoreTyped
        <5>2. Versions(m, Cardinality(deeds)) \subseteq Versions(m, Cardinality(deeds'))
            BY <1>2, <1>3 DEF Versions
        <5>3. Null \in Versions(m, Cardinality(deeds'))
            BY DEF Versions
        <5> QED
            BY <4>1, <5>1, <5>2, <5>3
      <4>2. CASE rows'[m].correlation \in Correlations /\ rows'[m].hash = Fresh(m)
        <5>1. Fresh(m) \in Versions(m, Cardinality(deeds'))
            BY <1>2, <1>3 DEF Versions, Fresh
        <5> QED
            BY <4>2, <5>1
      <4> QED
        BY <3>1, <4>1, <4>2 DEF RowDone
    <3> QED
        BY <3>1, <3>2 DEF RowDone
  <2>2. DOMAIN rows' \subseteq 1..seq'
    BY DEF RowDone
  <2> QED
    BY <1>2, <1>3, <2>1, <2>2 DEF StoreTyped
<1>5. \A m \in DOMAIN rows' : RowMoved(m)
    BY <1>2 DEF RowMoved, RowDone
<1>6. \A e \in deeds' \ deeds : e.by = "operator" =>
          \A m \in DOMAIN rows' :
             rows'[m].correlation = e.correlation /\ m >= e.from =>
                rows'[m].hash \in {Null, Fresh(m)}
    BY <1>1
<1>7. \A n \in 0..seq : (\A e \in deeds' \ deeds : e.from > n) => SameRows(rows, rows', n)
    BY <1>1
<1>8. \A n \in 0..seq : (\A e \in deeds' \ deeds : e.by = "operator" => e.from > n) =>
             LawfulRows(rows, rows', n)
  <2>1. ASSUME NEW n \in 0..seq, by = "operator" => k > n
        PROVE  LawfulRows(rows, rows', n)
    <3>1. CASE by = "operator"
        BY <2>1, <3>1, SameRowsLawful
    <3>2. CASE by # "operator"
        BY <3>2
    <3> QED
        BY <3>1, <3>2
  <2> QED
    BY <1>1, <2>1
<1>9. seq <= seq' /\ deeds \subseteq deeds' /\ Cardinality(deeds) <= Cardinality(deeds')
    BY <1>1, <1>2, <1>3
<1> QED
    BY <1>4, <1>5, <1>6, <1>7, <1>8, <1>9 DEF StoreMoved

LEMMA RowTyped ==
    ASSUME StoreTyped, NEW m \in DOMAIN rows
    PROVE  /\ m \in 1..seq /\ m \in Nat
           /\ rows[m].correlation \in Correlations
           /\ rows[m] = [correlation |-> rows[m].correlation, hash |-> rows[m].hash]
           /\ \A h : [rows[m] EXCEPT !.hash = h] = [correlation |-> rows[m].correlation, hash |-> h]
    BY DEF StoreTyped

LEMMA AppendMoves ==
    ASSUME StoreTyped, NEW c \in Correlations, AppendEvent(c)
    PROVE  StoreMoved
<1>1. /\ seq < MaxSequence /\ seq' = seq + 1 /\ deeds' = deeds
      /\ rows' = [n \in DOMAIN rows \cup {seq + 1} |->
                     IF n = seq + 1 THEN [correlation |-> c, hash |-> <<n, 0>>] ELSE rows[n]]
    BY DEF AppendEvent
<1>2. seq \in Nat /\ MaxSequence \in Nat /\ Cardinality(deeds) \in Nat
    BY WitnessingConstants DEF StoreTyped
<1>3. /\ DOMAIN rows' = DOMAIN rows \cup {seq + 1} /\ seq + 1 \notin DOMAIN rows
      /\ rows'[seq + 1] = [correlation |-> c, hash |-> <<seq + 1, 0>>]
      /\ \A m \in DOMAIN rows : rows'[m] = rows[m] /\ m \in 1..seq
  <2>1. \A m \in DOMAIN rows : m \in 1..seq
    BY RowTyped
  <2>2. seq + 1 \notin 1..seq
    BY <1>2
  <2> QED
    BY <1>1, <2>1, <2>2
<1>4. StoreTyped'
  <2>1. ASSUME NEW m \in DOMAIN rows'
        PROVE  rows'[m] \in [correlation : Correlations, hash : Versions(m, Cardinality(deeds'))]
    <3>1. CASE m \in DOMAIN rows
        BY <1>1, <1>3, <3>1 DEF StoreTyped
    <3>2. CASE m = seq + 1
      <4>1. <<m, 0>> \in Versions(m, Cardinality(deeds'))
        BY <1>1, <1>2 DEF Versions
      <4> QED
        BY <1>3, <3>2, <4>1
    <3> QED
        BY <1>3, <3>1, <3>2
  <2>2. DOMAIN rows' \subseteq 1..seq'
    BY <1>1, <1>2, <1>3
  <2>3. seq' \in 0..MaxSequence
    BY <1>1, <1>2
  <2> QED
    BY <1>1, <2>1, <2>2, <2>3 DEF StoreTyped
<1>5. \A m \in DOMAIN rows' : RowMoved(m)
  <2>1. seq + 1 > seq /\ rows'[seq + 1].hash = <<seq + 1, 0>>
    BY <1>2, <1>3
  <2> QED
    BY <1>3, <2>1 DEF RowMoved
<1>6. ASSUME NEW n \in 0..seq
      PROVE  SameRows(rows, rows', n)
  <2>1. ~(seq + 1 <= n)
    BY <1>2
  <2> QED
    BY <1>3, <2>1 DEF SameRows, At
<1>7. deeds' \ deeds = {} /\ deeds \subseteq deeds' /\ Cardinality(deeds) <= Cardinality(deeds')
      /\ seq <= seq'
    BY <1>1, <1>2
<1>8. \A n \in 0..seq : LawfulRows(rows, rows', n)
    BY <1>6, SameRowsLawful
<1> QED
    BY <1>4, <1>5, <1>6, <1>7, <1>8 DEF StoreMoved

LEMMA PurgeMoves ==
    ASSUME StoreTyped, NEW c \in Correlations, Purge(c)
    PROVE  StoreMoved
<1>1. /\ Of(c) # {} /\ seq' = seq /\ Deed(c, Min(Of(c)), "purge")
      /\ rows' = [n \in DOMAIN rows \ Of(c) |-> rows[n]]
    BY DEF Purge
<1>2. /\ DOMAIN rows' = DOMAIN rows \ Of(c)
      /\ \A m \in DOMAIN rows' : m \in DOMAIN rows /\ rows'[m] = rows[m]
    BY <1>1
<1>3. \A m : m \in Of(c) <=> m \in DOMAIN rows /\ rows[m].correlation = c
    BY DEF Of
<1>4. Of(c) \subseteq Nat
    BY <1>3, RowTyped
<1>5. \A m \in Of(c) : Min(Of(c)) <= m /\ Min(Of(c)) \in Nat
    BY <1>1, <1>4, MinMeans
<1>6. \A m \in DOMAIN rows' : RowDone(m)
    BY <1>2, RowTyped DEF RowDone
<1>7. ASSUME NEW n \in 0..seq
      PROVE  LawfulRows(rows, rows', n)
    BY <1>2, <1>3 DEF LawfulRows, At
<1>8. ASSUME NEW n \in 0..seq, Min(Of(c)) > n
      PROVE  SameRows(rows, rows', n)
  <2>1. \A m \in Of(c) : ~(m <= n)
    BY <1>4, <1>5, <1>8
  <2> QED
    BY <1>2, <2>1 DEF SameRows, At
<1>9. "purge" # "operator" /\ Min(Of(c)) \in Nat
    BY <1>1, <1>5
<1> QED
    BY <1>1, <1>6, <1>7, <1>8, <1>9, DeedMoves

LEMMA RedactMoves ==
    ASSUME StoreTyped, NEW c \in Correlations, NEW k, Redact(c, k)
    PROVE  StoreMoved
<1>1. /\ Hashed(c, k) # {} /\ seq' = seq /\ Deed(c, Min(Hashed(c, k)), "redaction")
      /\ rows' = [m \in DOMAIN rows |->
                   IF m \in Hashed(c, k) THEN [rows[m] EXCEPT !.hash = Null] ELSE rows[m]]
    BY DEF Redact
<1>2. Hashed(c, k) \subseteq Nat /\ Hashed(c, k) \subseteq DOMAIN rows
    BY RowTyped DEF Hashed, Of
<1>3. \A m \in Hashed(c, k) : Min(Hashed(c, k)) <= m /\ Min(Hashed(c, k)) \in Nat
    BY <1>1, <1>2, MinMeans
<1>4. DOMAIN rows' = DOMAIN rows
    BY <1>1
<1>5. ASSUME NEW m \in DOMAIN rows
      PROVE  /\ m \in 1..seq
             /\ m \notin Hashed(c, k) => rows'[m] = rows[m]
             /\ rows'[m] = [correlation |-> rows[m].correlation, hash |-> rows'[m].hash]
             /\ rows'[m].correlation = rows[m].correlation
             /\ rows'[m].hash \in {rows[m].hash, Null}
  <2>1. CASE m \in Hashed(c, k)
    <3>1. rows'[m] = [correlation |-> rows[m].correlation, hash |-> Null]
        BY <1>1, <2>1, RowTyped
    <3> QED
        BY <2>1, <3>1, RowTyped
  <2>2. CASE m \notin Hashed(c, k)
    <3>1. rows'[m] = rows[m]
        BY <1>1, <2>2
    <3> QED
        BY <3>1, RowTyped
  <2> QED
    BY <2>1, <2>2
<1>6. \A m \in DOMAIN rows' : RowDone(m)
    BY <1>4, <1>5 DEF RowDone
<1>7. ASSUME NEW n \in 0..seq
      PROVE  LawfulRows(rows, rows', n)
    BY <1>4, <1>5 DEF LawfulRows, At
<1>8. ASSUME NEW n \in 0..seq, Min(Hashed(c, k)) > n
      PROVE  SameRows(rows, rows', n)
  <2>1. \A m \in Hashed(c, k) : ~(m <= n)
    BY <1>2, <1>3, <1>8
  <2> QED
    BY <1>4, <1>5, <2>1 DEF SameRows, At
<1>9. "redaction" # "operator" /\ Min(Hashed(c, k)) \in Nat
    BY <1>1, <1>3
<1> QED
    BY <1>1, <1>6, <1>7, <1>8, <1>9, DeedMoves

\* Chaining anew touches what is of c from k on.
ChainedAnew(Q, c, k) ==
    /\ DOMAIN Q = DOMAIN rows
    /\ \A m \in DOMAIN rows :
          /\ ~(rows[m].correlation = c /\ m >= k) => Q[m] = rows[m]
          /\ Q[m] = [correlation |-> rows[m].correlation, hash |-> Q[m].hash]
          /\ Q[m].correlation = rows[m].correlation
          /\ Q[m].hash \in {rows[m].hash, Fresh(m)}
          /\ rows[m].correlation = c /\ m >= k => Q[m].hash \in {Null, Fresh(m)}

LEMMA RechainedMeans ==
    ASSUME StoreTyped
    PROVE  \A c, k : ChainedAnew(Rechained(c, k), c, k)
<1>0. SUFFICES ASSUME NEW c, NEW k
               PROVE  ChainedAnew(Rechained(c, k), c, k)
    OBVIOUS
<1>1. PICK Q : Q = Rechained(c, k)
    OBVIOUS
<1>2. DOMAIN Q = DOMAIN rows
    BY <1>1 DEF Rechained
<1>3. ASSUME NEW m \in DOMAIN rows
      PROVE  /\ ~(rows[m].correlation = c /\ m >= k) => Q[m] = rows[m]
             /\ Q[m] = [correlation |-> rows[m].correlation, hash |-> Q[m].hash]
             /\ Q[m].correlation = rows[m].correlation
             /\ Q[m].hash \in {rows[m].hash, Fresh(m)}
             /\ rows[m].correlation = c /\ m >= k => Q[m].hash \in {Null, Fresh(m)}
  <2>1. m \in Of(c) <=> rows[m].correlation = c
    BY DEF Of
  <2>2. CASE m \in Of(c) /\ m >= k /\ rows[m].hash # Null
    <3>1. Q[m] = [correlation |-> rows[m].correlation, hash |-> Fresh(m)]
        BY <1>1, <2>2, RowTyped DEF Rechained
    <3> QED
        BY <2>1, <2>2, <3>1
  <2>3. CASE ~(m \in Of(c) /\ m >= k /\ rows[m].hash # Null)
    <3>1. Q[m] = rows[m]
        BY <1>1, <2>3 DEF Rechained
    <3> QED
        BY <2>1, <2>3, <3>1, RowTyped
  <2> QED
    BY <2>2, <2>3
<1> QED
    BY <1>1, <1>2, <1>3 DEF ChainedAnew

LEMMA EditMoves ==
    ASSUME StoreTyped, NEW c \in Correlations, NEW k \in 1..seq, EditEvent(c, k)
    PROVE  StoreMoved
<1>1. seq' = seq /\ Deed(c, k, "operator") /\ rows' = Rechained(c, k)
    BY DEF EditEvent, Forge
<1>a. ChainedAnew(rows', c, k)
    BY <1>1, RechainedMeans
<1>2. ASSUME NEW m \in DOMAIN rows'
      PROVE  RowDone(m)
  <2>1. /\ m \in DOMAIN rows /\ rows'[m].correlation = rows[m].correlation
        /\ rows'[m] = [correlation |-> rows'[m].correlation, hash |-> rows'[m].hash]
        /\ rows'[m].hash \in {rows[m].hash, Fresh(m)}
    BY <1>a DEF ChainedAnew
  <2>2. m \in 1..seq /\ rows[m].correlation \in Correlations
    BY <2>1, RowTyped
  <2> QED
    BY <2>1, <2>2 DEF RowDone
<1>3. \A m \in DOMAIN rows' :
         rows'[m].correlation = c /\ m >= k => rows'[m].hash \in {Null, Fresh(m)}
    BY <1>a DEF ChainedAnew
<1>4. ASSUME NEW n \in 0..seq, k > n
      PROVE  SameRows(rows, rows', n)
  <2>1. \A m \in DOMAIN rows : m <= n => ~(m >= k)
    BY <1>4, RowTyped
  <2> QED
    BY <1>a, <2>1 DEF ChainedAnew, SameRows, At
<1> QED
    BY <1>1, <1>2, <1>3, <1>4, DeedMoves

LEMMA DropMoves ==
    ASSUME StoreTyped, NEW c \in Correlations, NEW k \in 1..seq, DropTail(c, k)
    PROVE  StoreMoved
<1>1. /\ seq' = seq /\ Deed(c, k, "operator")
      /\ rows' = [m \in DOMAIN rows \ {i \in Of(c) : i >= k} |-> rows[m]]
    BY DEF DropTail, Forge
<1>2. \A m : m \in DOMAIN rows' <=> m \in DOMAIN rows /\ ~(rows[m].correlation = c /\ m >= k)
    BY <1>1 DEF Of
<1>3. \A m \in DOMAIN rows' : m \in DOMAIN rows /\ rows'[m] = rows[m]
    BY <1>1
<1>4. \A m \in DOMAIN rows' : RowDone(m)
    BY <1>3, RowTyped DEF RowDone
<1>5. \A m \in DOMAIN rows' : ~(rows'[m].correlation = c /\ m >= k)
    BY <1>2, <1>3
<1>6. ASSUME NEW n \in 0..seq, k > n
      PROVE  SameRows(rows, rows', n)
  <2>1. \A m \in DOMAIN rows : m <= n => ~(m >= k)
    BY <1>6, RowTyped
  <2> QED
    BY <1>2, <1>3, <2>1 DEF SameRows, At
<1>7. k \in Nat
    OBVIOUS
<1> QED
    BY <1>1, <1>4, <1>5, <1>6, <1>7, DeedMoves

LEMMA InsertMoves ==
    ASSUME StoreTyped, NEW c \in Correlations, NEW k \in 1..seq, InsertEvent(c, k)
    PROVE  StoreMoved
<1>1. /\ k \notin DOMAIN rows /\ seq' = seq /\ Deed(c, k, "operator")
      /\ rows' = [m \in DOMAIN rows \cup {k} |->
                   IF m = k THEN [correlation |-> c, hash |-> Fresh(k)] ELSE Rechained(c, k)[m]]
    BY DEF InsertEvent, Forge
<1>2. /\ DOMAIN rows' = DOMAIN rows \cup {k}
      /\ rows'[k] = [correlation |-> c, hash |-> Fresh(k)]
      /\ \A m \in DOMAIN rows : rows'[m] = Rechained(c, k)[m]
    BY <1>1
<1>a. PICK Q : Q = Rechained(c, k) /\ ChainedAnew(Q, c, k)
    BY RechainedMeans
<1>b. \A m \in DOMAIN rows : rows'[m] = Q[m]
    BY <1>2, <1>a
<1>3. \A m \in DOMAIN rows' : RowDone(m)
  <2>1. ASSUME NEW m \in DOMAIN rows
        PROVE  RowDone(m)
    <3>1. /\ rows'[m].correlation = rows[m].correlation
          /\ rows'[m] = [correlation |-> rows'[m].correlation, hash |-> rows'[m].hash]
          /\ rows'[m].hash \in {rows[m].hash, Fresh(m)}
        BY <1>a, <1>b DEF ChainedAnew
    <3>2. m \in 1..seq /\ rows[m].correlation \in Correlations
        BY RowTyped
    <3> QED
        BY <3>1, <3>2 DEF RowDone
  <2>2. RowDone(k)
    BY <1>2 DEF RowDone
  <2> QED
    BY <1>2, <2>1, <2>2
<1>4. \A m \in DOMAIN rows' :
         rows'[m].correlation = c /\ m >= k => rows'[m].hash \in {Null, Fresh(m)}
    BY <1>2, <1>a, <1>b DEF ChainedAnew
<1>5. ASSUME NEW n \in 0..seq, k > n
      PROVE  SameRows(rows, rows', n)
  <2>1. (\A m \in DOMAIN rows : m <= n => ~(m >= k)) /\ ~(k <= n)
    BY <1>5, RowTyped
  <2> QED
    BY <1>2, <1>a, <1>b, <2>1 DEF ChainedAnew, SameRows, At
<1>6. k \in Nat
    OBVIOUS
<1> QED
    BY <1>1, <1>3, <1>4, <1>5, <1>6, DeedMoves

LEMMA StoreMoves ==
    ASSUME StoreTyped, Storing \/ Operating
    PROVE  StoreMoved
<1>1. CASE Storing
    BY <1>1, AppendMoves, PurgeMoves, RedactMoves DEF Storing
<1>2. CASE Operating
    BY <1>2, EditMoves, DropMoves, InsertMoves DEF Operating
<1> QED
    BY <1>1, <1>2

LEMMA StoreStays ==
    ASSUME StoreTyped, UNCHANGED <<rows, seq, deeds>>
    PROVE  StoreMoved
<1>1. deeds' \ deeds = {} /\ deeds \subseteq deeds' /\ rows' = rows /\ seq' = seq
    OBVIOUS
<1>2. StoreTyped'
    BY DEF StoreTyped
<1>3. \A m \in DOMAIN rows' : RowMoved(m)
    BY DEF RowMoved
<1>4. \A n \in 0..seq : SameRows(rows, rows', n)
    BY <1>1 DEF SameRows
<1>5. \A n \in 0..seq : LawfulRows(rows, rows', n)
    BY <1>4, SameRowsLawful
<1>6. seq <= seq' /\ Cardinality(deeds) <= Cardinality(deeds')
    BY <1>1, WitnessingConstants DEF StoreTyped
<1> QED
    BY <1>1, <1>2, <1>3, <1>4, <1>5, <1>6 DEF StoreMoved

-----------------------------------------------------------------------------
(***************************************************************************)
(* What was signed, and what has become of it                              *)
(***************************************************************************)
LEMMA HavingFinite ==
    ASSUME NEW N \in Nat, NEW R, DOMAIN R \subseteq 1..N, NEW n
    PROVE  IsFiniteSet(DOMAIN HeadsOf(R, n))
<1>1. IsFiniteSet(1..N)
    BY FS_Interval
<1>2. At(R, n) \in SUBSET (1..N)
    BY DEF At
<1>3. IsFiniteSet(At(R, n))
    BY <1>1, <1>2, FS_Subset
<1>4. PICK f : f = [m \in At(R, n) |-> R[m].correlation]
    OBVIOUS
<1>5. f \in Surjection(At(R, n), Having(R, n))
    BY <1>4 DEF Surjection, Having
<1>6. IsFiniteSet(Having(R, n))
    BY <1>3, <1>5, FS_Surjection
<1> QED
    BY <1>6 DEF HeadsOf

\* An untouched event was under the signed head, or the head was nulled already.
Under(L, n) ==
    \A m \in DOMAIN rows : m <= n /\ rows[m].hash = <<m, 0>> =>
        /\ rows[m].correlation \in DOMAIN L
        /\ L[rows[m].correlation] = Null \/ L[rows[m].correlation][1] >= m

\* Where the operator has let the correlations be, a head is what it was or null.
Quiet(n, B) == \A d \in deeds \ B : d.by = "operator" => d.from > n
LetBe(L, n) ==
    \A c \in DOMAIN HeadsOf(rows, n) : c \in DOMAIN L /\ HeadsOf(rows, n)[c] \in {L[c], Null}

\* What the operator has touched of a signed head is not what it was.
Touched(L, c) ==
    LET j == L[c][1]
    IN  j \in DOMAIN rows /\ rows[j].correlation = c => rows[j].hash # L[c]
Reached(L, B) ==
    \A d \in deeds \ B : d.by = "operator" /\ d.correlation \in DOMAIN L
                         /\ d.from <= L[d.correlation][1] => Touched(L, d.correlation)

\* The heads L were signed at n, after the deeds B.
Signed(L, n, B) ==
    /\ n \in 0..seq
    /\ B \subseteq deeds
    /\ IsFiniteSet(DOMAIN L) /\ DOMAIN L \subseteq Nat
    /\ \A c \in DOMAIN L : \E j \in 0..n : L[c] \in Versions(j, Cardinality(B))
    /\ Under(L, n)
    /\ Quiet(n, B) => LetBe(L, n)
    /\ Reached(L, B)
    /\ (\A d \in deeds \ B : d.from > n) => HeadsOf(rows, n) = L

LEMMA VersionsMean ==
    ASSUME NEW j, NEW k \in Nat, NEW h \in Versions(j, k)
    PROVE  /\ h # Null => h[1] = j /\ h[2] \in 0..k
           /\ h = Null => h[1] = 0 /\ h[2] = 0
    BY DEF Versions, Null

LEMMA SignedStarts ==
    ASSUME StoreTyped, NEW n \in 0..seq
    PROVE  Signed(HeadsOf(rows, n), n, deeds)
<1>1. seq \in Nat /\ DOMAIN rows \subseteq 1..seq /\ Cardinality(deeds) \in Nat
    BY WitnessingConstants DEF StoreTyped
<1>2. PICK L : L = HeadsOf(rows, n)
    OBVIOUS
<1>3. \A c \in DOMAIN L :
         /\ Latest(rows, n, c) \in DOMAIN rows /\ Latest(rows, n, c) \in 1..seq
         /\ rows[Latest(rows, n, c)].correlation = c /\ Latest(rows, n, c) <= n
         /\ L[c] = rows[Latest(rows, n, c)].hash
         /\ \A m \in DOMAIN rows : rows[m].correlation = c /\ m <= n => m <= Latest(rows, n, c)
    BY <1>1, <1>2, HeadMeans
<1>4. \A m \in DOMAIN rows : /\ rows[m].hash \in Versions(m, Cardinality(deeds))
                             /\ rows[m].correlation \in Correlations
    BY DEF StoreTyped
<1>5. IsFiniteSet(DOMAIN L) /\ DOMAIN L \subseteq Nat
  <2>1. \A c \in DOMAIN L : c \in Nat
    BY <1>3, <1>4, WitnessingConstants
  <2> QED
    BY <1>1, <1>2, <2>1, HavingFinite
<1>6. \A c \in DOMAIN L : \E j \in 0..n : L[c] \in Versions(j, Cardinality(deeds))
  <2>1. \A c \in DOMAIN L : Latest(rows, n, c) \in 0..n
    BY <1>3
  <2> QED
    BY <1>3, <1>4, <2>1
<1>7. Under(L, n)
  <2>1. ASSUME NEW m \in DOMAIN rows, m <= n
        PROVE  /\ rows[m].correlation \in DOMAIN L
               /\ L[rows[m].correlation] = Null \/ L[rows[m].correlation][1] >= m
    <3>1. PICK c \in DOMAIN L : c = rows[m].correlation
        BY <1>2, <2>1, HeadThere
    <3>2. PICK l \in DOMAIN rows : l = Latest(rows, n, c) /\ l >= m /\ L[c] = rows[l].hash
        BY <1>1, <1>3, <2>1, <3>1
    <3>3. rows[l].hash \in Versions(l, Cardinality(deeds))
        BY <1>4
    <3>4. L[c] = Null \/ L[c][1] >= m
        BY <1>1, <3>2, <3>3, VersionsMean
    <3> QED
        BY <3>1, <3>4
  <2> QED
    BY <2>1 DEF Under
<1>8. LetBe(L, n)
    BY <1>2 DEF LetBe
<1>9. deeds \ deeds = {}
    OBVIOUS
<1>10. Reached(L, deeds)
    BY <1>9 DEF Reached
<1> QED
    BY <1>2, <1>5, <1>6, <1>7, <1>8, <1>10 DEF Signed

\* A hash that a deed has made is none that was signed before.
LEMMA FreshIsNew ==
    ASSUME NEW L, NEW n, NEW B, StoreTyped, Signed(L, n, B), NEW c \in DOMAIN L
    PROVE  /\ L[c] # Fresh(L[c][1])
           /\ L[c][1] \in 0..n
           /\ L[c] = Null => L[c][1] = 0
<1>1. PICK j \in 0..n : L[c] \in Versions(j, Cardinality(B))
    BY DEF Signed
<1>2. IsFiniteSet(deeds) /\ B \in SUBSET deeds /\ Cardinality(deeds) \in Nat /\ n \in Nat
    BY WitnessingConstants DEF StoreTyped, Signed
<1>3. Cardinality(B) \in Nat /\ Cardinality(B) <= Cardinality(deeds)
    BY <1>2, FS_Subset, FS_CardinalityType
<1>4. /\ L[c] # Null => L[c][1] = j /\ L[c][2] \in 0..Cardinality(B)
      /\ L[c] = Null => L[c][1] = 0 /\ L[c][2] = 0
    BY <1>1, <1>3, VersionsMean
<1>5. L[c][2] # Cardinality(deeds) + 1
    BY <1>2, <1>3, <1>4
<1>6. Fresh(L[c][1])[2] = Cardinality(deeds) + 1
    BY DEF Fresh
<1>7. L[c][1] \in 0..n
    BY <1>2, <1>4
<1> QED
    BY <1>4, <1>5, <1>6, <1>7

LEMMA SignedStays ==
    ASSUME NEW L, NEW n, NEW B, StoreTyped, StoreMoved, Signed(L, n, B)
    PROVE  Signed(L, n, B)'
<1>1. /\ seq \in Nat /\ DOMAIN rows \subseteq 1..seq /\ Cardinality(deeds) \in Nat
      /\ seq' \in Nat /\ DOMAIN rows' \subseteq 1..seq' /\ seq <= seq' /\ n \in 0..seq /\ n \in Nat
    BY WitnessingConstants DEF StoreTyped, StoreMoved, Signed
<1>2. deeds \subseteq deeds' /\ B \subseteq deeds
    BY DEF StoreMoved, Signed
<1>3. n \in 0..seq' /\ B \subseteq deeds'
    BY <1>1, <1>2
<1>4. Under(L, n)'
  <2>1. ASSUME NEW m \in DOMAIN rows', m <= n, rows'[m].hash = <<m, 0>>
        PROVE  /\ m \in DOMAIN rows /\ rows[m].hash = <<m, 0>>
               /\ rows'[m].correlation = rows[m].correlation
    <3>1. RowMoved(m) /\ m \in 1..seq'
        BY <1>1 DEF StoreMoved
    <3>2. <<m, 0>> # Null /\ <<m, 0>> # Fresh(m) /\ ~(m > seq)
        BY <1>1, <2>1, <3>1 DEF Null, Fresh
    <3> QED
        BY <2>1, <3>1, <3>2 DEF RowMoved
  <2>2. Under(L, n)
    BY DEF Signed
  <2> QED
    BY <2>1, <2>2 DEF Under
<1>5. ASSUME Quiet(n, B)'
      PROVE  LetBe(L, n)'
  <2>1. Quiet(n, B)
    BY <1>2, <1>5 DEF Quiet
  <2>2. LetBe(L, n)
    BY <2>1 DEF Signed
  <2>3. \A d \in deeds' \ deeds : d.by = "operator" => d.from > n
    BY <1>2, <1>5 DEF Quiet
  <2>4. LawfulRows(rows, rows', n)
    BY <1>1, <2>3 DEF StoreMoved
  <2>5. PICK R, Q : R = rows /\ Q = rows'
    OBVIOUS
  <2>6. \A c \in DOMAIN HeadsOf(Q, n) : /\ c \in DOMAIN HeadsOf(R, n)
                                        /\ HeadsOf(Q, n)[c] \in {HeadsOf(R, n)[c], Null}
    <3>1. PICK N \in Nat : N = seq' /\ DOMAIN R \subseteq 1..N /\ DOMAIN Q \subseteq 1..N
        BY <1>1, <2>5
    <3>2. LawfulRows(R, Q, n)
        BY <2>4, <2>5
    <3> QED
        BY <3>1, <3>2, LawfulHeads
  <2>7. \A c \in DOMAIN HeadsOf(R, n) : c \in DOMAIN L /\ HeadsOf(R, n)[c] \in {L[c], Null}
    BY <2>2, <2>5 DEF LetBe
  <2>8. \A c \in DOMAIN HeadsOf(Q, n) : c \in DOMAIN L /\ HeadsOf(Q, n)[c] \in {L[c], Null}
    BY <2>6, <2>7
  <2> QED
    BY <2>5, <2>8 DEF LetBe
<1>6. Reached(L, B)'
  <2> SUFFICES ASSUME NEW d \in deeds' \ B, d.by = "operator", d.correlation \in DOMAIN L,
                      d.from <= L[d.correlation][1]
               PROVE  Touched(L, d.correlation)'
    BY DEF Reached
  <2>a. PICK c \in DOMAIN L : c = d.correlation
    OBVIOUS
  <2>b. PICK j : j = L[c][1]
    OBVIOUS
  <2>1. c = d.correlation /\ j = L[c][1]
    BY <2>a, <2>b
  <2>2. L[c] # Fresh(j) /\ j \in 0..n /\ (L[c] = Null => j = 0)
    BY <2>1, FreshIsNew
  <2>3. ASSUME j \in DOMAIN rows', rows'[j].correlation = c
        PROVE  rows'[j].hash # L[c]
    <3>1. RowMoved(j) /\ j >= 1 /\ ~(j > seq) /\ L[c] # Null
        BY <1>1, <2>2, <2>3 DEF StoreMoved
    <3>2. CASE d \in deeds
      <4>1. Touched(L, c)
        BY <2>1, <3>2 DEF Signed, Reached
      <4>2. j \in DOMAIN rows /\ rows[j].correlation = c => rows[j].hash # L[c]
        BY <2>1, <4>1 DEF Touched
      <4> QED
        BY <2>2, <2>3, <3>1, <4>2 DEF RowMoved
    <3>3. CASE d \notin deeds
      <4>1. rows'[j].hash \in {Null, Fresh(j)}
        BY <2>1, <2>3, <3>1, <3>3, <1>1, <2>2 DEF StoreMoved
      <4> QED
        BY <2>2, <3>1, <4>1
    <3> QED
        BY <3>2, <3>3
  <2> QED
    BY <2>1, <2>3 DEF Touched
<1>7. ASSUME \A d \in deeds' \ B : d.from > n
      PROVE  HeadsOf(rows', n) = L
  <2>1. HeadsOf(rows, n) = L
    BY <1>2, <1>7 DEF Signed
  <2>2. \A d \in deeds' \ deeds : d.from > n
    BY <1>2, <1>7
  <2>3. SameRows(rows, rows', n)
    BY <1>1, <2>2 DEF StoreMoved
  <2>4. HeadsOf(rows, n) = HeadsOf(rows', n)
    BY <1>1, <2>3, SameHeads
  <2> QED
    BY <2>1, <2>4
<1> QED
    BY <1>3, <1>4, <1>5, <1>6, <1>7 DEF Signed

-----------------------------------------------------------------------------
(***************************************************************************)
(* The root of a head tells its leaves                                     *)
(***************************************************************************)
Lower(names, c) == {d \in names : d < c}
Rank(names, i) == CHOOSE c \in names : Cardinality(Lower(names, c)) = i - 1

\* As many names are before a name as it has places before it, and each place has
\* its name.
LEMMA RanksDiffer ==
    ASSUME NEW names, IsFiniteSet(names), names \subseteq Nat,
           NEW c \in names, NEW d \in names
    PROVE  /\ Cardinality(Lower(names, c)) \in 0..Cardinality(names) - 1
           /\ c # d => Cardinality(Lower(names, c)) # Cardinality(Lower(names, d))
<1>1. ASSUME NEW e \in names
      PROVE  /\ IsFiniteSet(Lower(names, e)) /\ Cardinality(Lower(names, e)) \in Nat
             /\ Cardinality(names) \in Nat
             /\ Cardinality(Lower(names, e)) < Cardinality(names)
  <2>1. Lower(names, e) \in SUBSET names /\ e \notin Lower(names, e)
    BY DEF Lower
  <2>2. Lower(names, e) # names
    BY <2>1
  <2> QED
    BY <2>1, <2>2, FS_Subset, FS_CardinalityType
<1>2. ASSUME NEW e \in names, NEW f \in names, e < f
      PROVE  Cardinality(Lower(names, e)) # Cardinality(Lower(names, f))
  <2>1. Lower(names, e) \in SUBSET Lower(names, f) /\ e \in Lower(names, f)
        /\ e \notin Lower(names, e)
    <3>1. e \in Nat /\ f \in Nat /\ \A x \in names : x \in Nat
        OBVIOUS
    <3>2. ASSUME NEW x \in Lower(names, e)
          PROVE  x \in Lower(names, f)
      <4>1. x \in names /\ x < e /\ x \in Nat
        BY <3>1 DEF Lower
      <4>2. x < f
        BY <1>2, <3>1, <4>1
      <4> QED
        BY <4>1, <4>2 DEF Lower
    <3>3. e \in Lower(names, f) /\ e \notin Lower(names, e)
        BY <1>2, <3>1 DEF Lower
    <3> QED
        BY <3>2, <3>3
  <2>2. Lower(names, e) # Lower(names, f)
    BY <2>1
  <2> QED
    BY <1>1, <2>1, <2>2, FS_Subset
<1>3. c \in Nat /\ d \in Nat
    OBVIOUS
<1>4. c # d => c < d \/ d < c
    BY <1>3
<1> QED
    BY <1>1, <1>2, <1>4

LEMMA InOrderMeans ==
    ASSUME NEW names, IsFiniteSet(names), names \subseteq Nat
    PROVE  /\ Cardinality(names) \in Nat
           /\ InOrder(names) \in Seq(names) /\ Len(InOrder(names)) = Cardinality(names)
           /\ \A c \in names : \E i \in 1..Cardinality(names) : InOrder(names)[i] = c
<1>1. PICK k : k = Cardinality(names) /\ k \in Nat
    BY FS_CardinalityType
<1>2. PICK f : f = [c \in names |-> Cardinality(Lower(names, c)) + 1]
    OBVIOUS
<1>3. \A c \in names : /\ f[c] \in 1..k /\ f[c] = Cardinality(Lower(names, c)) + 1
                       /\ Cardinality(Lower(names, c)) \in Nat
  <2>1. ASSUME NEW c \in names
        PROVE  /\ f[c] \in 1..k /\ f[c] = Cardinality(Lower(names, c)) + 1
               /\ Cardinality(Lower(names, c)) \in Nat
    <3>1. Cardinality(Lower(names, c)) \in 0..k - 1
        BY <1>1, RanksDiffer
    <3>2. f[c] = Cardinality(Lower(names, c)) + 1
        BY <1>2
    <3> QED
        BY <1>1, <3>1, <3>2
  <2> QED
    BY <2>1
<1>4. ASSUME NEW c \in names, NEW d \in names, f[c] = f[d]
      PROVE  c = d
  <2>1. Cardinality(Lower(names, c)) \in Nat /\ Cardinality(Lower(names, d)) \in Nat
    BY <1>3
  <2>2. Cardinality(Lower(names, c)) = Cardinality(Lower(names, d))
    BY <1>3, <1>4, <2>1
  <2> QED
    BY <2>2, RanksDiffer
<1>5. f \in Injection(names, 1..k)
    BY <1>2, <1>3, <1>4 DEF Injection, IsInjective
<1>6. IsFiniteSet(1..k) /\ Cardinality(1..k) = k
    BY <1>1, FS_Interval
<1>7. f \in Surjection(names, 1..k)
    BY <1>1, <1>5, <1>6, FS_Injection
<1>8. PICK g : g = InOrder(names)
    OBVIOUS
<1>a. InOrder(names) = [i \in 1..Cardinality(names) |-> Rank(names, i)]
    BY DEF InOrder, Lower, Rank
<1>9. /\ DOMAIN g = 1..k /\ g = [i \in 1..k |-> g[i]]
      /\ \A i \in 1..k : g[i] = Rank(names, i)
    BY <1>1, <1>8, <1>a
<1>10. ASSUME NEW i \in 1..k
       PROVE  g[i] \in names /\ Cardinality(Lower(names, g[i])) = i - 1
  <2>1. PICK c \in names : f[c] = i
    BY <1>7 DEF Surjection
  <2>2. Cardinality(Lower(names, c)) \in Nat
    BY <1>3
  <2>3. Cardinality(Lower(names, c)) = i - 1
    BY <1>3, <2>1, <2>2
  <2>4. /\ Rank(names, i) \in names
        /\ Cardinality(Lower(names, Rank(names, i))) = i - 1
    BY <2>3 DEF Rank
  <2> QED
    BY <1>9, <2>4
<1>11. g \in [1..k -> names]
    BY <1>9, <1>10
<1>12. g \in Seq(names) /\ Len(g) = k
    BY <1>1, <1>9, <1>11
<1>13. ASSUME NEW c \in names
       PROVE  \E i \in 1..k : g[i] = c
  <2>1. PICK i \in 1..k : i = f[c]
    BY <1>3
  <2>2. g[i] \in names /\ Cardinality(Lower(names, g[i])) = i - 1
    BY <1>10
  <2>a. f[g[i]] = (i - 1) + 1
    BY <1>3, <2>2
  <2>b. (i - 1) + 1 = i
    BY <1>1
  <2>3. f[g[i]] = f[c]
    BY <2>1, <2>a, <2>b
  <2> QED
    BY <1>4, <2>2, <2>3
<1> QED
    BY <1>1, <1>8, <1>12, <1>13

LEMMA LinesMean ==
    ASSUME NEW L, IsFiniteSet(DOMAIN L), DOMAIN L \subseteq Nat
    PROVE  /\ Len(Lines(L)) \in Nat /\ DOMAIN Lines(L) = 1..Len(Lines(L))
           /\ Lines(L) = [i \in 1..Len(Lines(L)) |-> Lines(L)[i]]
           /\ \A i \in 1..Len(Lines(L)) :
                 \E c \in DOMAIN L : Lines(L)[i] = <<c, L[c]>>
           /\ \A c \in DOMAIN L : \E i \in 1..Len(Lines(L)) : Lines(L)[i] = <<c, L[c]>>
<1>1. PICK names, k : names = InOrder(DOMAIN L) /\ k = Cardinality(DOMAIN L)
    OBVIOUS
<1>2. /\ k \in Nat /\ names \in Seq(DOMAIN L) /\ Len(names) = k
      /\ \A c \in DOMAIN L : \E i \in 1..k : names[i] = c
    BY <1>1, InOrderMeans
<1>3. \A i \in 1..k : names[i] \in DOMAIN L
    BY <1>2, ElementOfSeq
<1>4. PICK lines : lines = Lines(L)
    OBVIOUS
<1>5. lines = [i \in 1..k |-> <<names[i], L[names[i]]>>]
    BY <1>1, <1>2, <1>4 DEF Lines
<1>6. Len(lines) = k /\ DOMAIN lines = 1..k
    BY <1>2, <1>5
<1>7. \A i \in 1..k : lines[i] = <<names[i], L[names[i]]>>
    BY <1>5
<1>8. lines = [i \in 1..k |-> lines[i]]
    BY <1>5
<1> QED
    BY <1>2, <1>3, <1>4, <1>6, <1>7, <1>8

LEMMA LinesTell ==
    ASSUME NEW L, IsFiniteSet(DOMAIN L), DOMAIN L \subseteq Nat,
           NEW M, IsFiniteSet(DOMAIN M), DOMAIN M \subseteq Nat, Lines(L) = Lines(M),
           NEW c \in DOMAIN L
    PROVE  c \in DOMAIN M /\ M[c] = L[c]
<1>1. PICK i \in 1..Len(Lines(L)) : Lines(L)[i] = <<c, L[c]>>
    BY LinesMean
<1>2. i \in 1..Len(Lines(M)) /\ Lines(M)[i] = <<c, L[c]>>
    BY <1>1
<1>3. PICK d \in DOMAIN M : Lines(M)[i] = <<d, M[d]>>
    BY <1>2, LinesMean
<1> QED
    BY <1>2, <1>3

\* Whatever the scheme, the heads that have one root are the same.
LEMMA RootOfHeads ==
    ASSUME NEW L, IsFiniteSet(DOMAIN L), DOMAIN L \subseteq Nat,
           NEW M, IsFiniteSet(DOMAIN M), DOMAIN M \subseteq Nat,
           NEW scheme, Root(scheme, L) = Root(scheme, M), NEW c \in DOMAIN L
    PROVE  c \in DOMAIN M /\ M[c] = L[c]
<1>1. CASE scheme = "v1"
  <2>1. <<"fold", Lines(L)>> = <<"fold", Lines(M)>>
    BY <1>1 DEF Root, FoldedRoot
  <2>2. Lines(L) = Lines(M)
    BY <2>1
  <2> QED
    BY <2>2, LinesTell
<1>2. CASE scheme # "v1"
  <2>1. MerkleRoot(Lines(L)) = MerkleRoot(Lines(M))
    BY <1>2 DEF Root, TreeRoot
  <2>2. PICK D : D = {Lines(L)[i] : i \in 1..Len(Lines(L))}
                       \cup {Lines(M)[i] : i \in 1..Len(Lines(M))}
    OBVIOUS
  <2>3. Lines(L) \in Seq(D)
    <3>1. /\ Len(Lines(L)) \in Nat
          /\ Lines(L) = [i \in 1..Len(Lines(L)) |-> Lines(L)[i]]
        BY LinesMean
    <3>2. \A i \in 1..Len(Lines(L)) : Lines(L)[i] \in D
        BY <2>2
    <3>3. Lines(L) \in [1..Len(Lines(L)) -> D]
        BY <3>1, <3>2
    <3> QED
        BY <3>1, <3>3
  <2>4. Lines(M) \in Seq(D)
    <3>1. /\ Len(Lines(M)) \in Nat
          /\ Lines(M) = [i \in 1..Len(Lines(M)) |-> Lines(M)[i]]
        BY LinesMean
    <3>2. \A i \in 1..Len(Lines(M)) : Lines(M)[i] \in D
        BY <2>2
    <3>3. Lines(M) \in [1..Len(Lines(M)) -> D]
        BY <3>1, <3>2
    <3> QED
        BY <3>1, <3>3
  <2>5. Lines(L) = Lines(M)
    BY <2>1, <2>3, <2>4, RootTells
  <2> QED
    BY <2>5, LinesTell
<1> QED
    BY <1>1, <1>2

-----------------------------------------------------------------------------
(***************************************************************************)
(* What audits find                                                        *)
(***************************************************************************)
\* A receipt that is held, or on its way to the file.
Receipt(r) ==
    /\ Signed(r.leaves, r.statement.sequence, r.before)
    /\ SnapshotValid(r)

\* An anchor.
Anchor(a) ==
    /\ Signed(a.leaves, a.sequence, a.before)
    /\ a.head = Root(a.scheme, a.leaves)

LEMMA ReceiptIntact ==
    ASSUME StoreTyped, NEW r, Receipt(r), ReceiptVerdict(r) # "intact"
    PROVE  \E d \in Since(r, "operator") : d.from <= r.statement.sequence
<1>1. PICK L, n, B : L = r.leaves /\ n = r.statement.sequence /\ B = r.before
    OBVIOUS
<1>2. PICK C : C = HeadsOf(rows, n) /\ C = LeavesAt(n)
    BY LeavesAreHeads
<1>3. PICK c \in DOMAIN L \cup DOMAIN C : Disposition(r, C, c) = "tampered"
    BY <1>1, <1>2 DEF ReceiptVerdict, Receipt
<1>4. ~(c \in DOMAIN L /\ (c \in DOMAIN C => C[c] \in {L[c], Null}))
  <2>1. ASSUME c \in DOMAIN L, c \in DOMAIN C => C[c] \in {L[c], Null}
        PROVE  Disposition(r, C, c) # "tampered"
    <3>1. CASE c \notin DOMAIN C
        BY <1>1, <2>1, <3>1 DEF Disposition
    <3>2. CASE c \in DOMAIN C
        BY <1>1, <2>1, <3>2 DEF Disposition
    <3> QED
        BY <3>1, <3>2
  <2> QED
    BY <1>3, <2>1
<1>5. ~LetBe(L, n)
    BY <1>2, <1>3, <1>4 DEF LetBe
<1>6. ~Quiet(n, B)
    BY <1>1, <1>5 DEF Receipt, Signed
<1>7. PICK d \in deeds \ B : d.by = "operator" /\ ~(d.from > n)
    BY <1>6 DEF Quiet
<1>8. d.from \in Nat /\ n \in Nat
    BY <1>1, WitnessingConstants DEF StoreTyped, Receipt, Signed
<1>9. d.from <= n
    BY <1>7, <1>8
<1> QED
    BY <1>1, <1>7, <1>9 DEF Since

LEMMA AnchorReproduced ==
    ASSUME StoreTyped, NEW a \in FirstDivergence, Anchor(a)
    PROVE  \E d \in deeds \ a.before : d.from <= a.sequence
<1>1. PICK L, n, B : L = a.leaves /\ n = a.sequence /\ B = a.before
    OBVIOUS
<1>2. HeadsOf(rows, n) # L
    BY <1>1, LeavesAreHeads DEF FirstDivergence, Anchor
<1>3. PICK d \in deeds \ B : ~(d.from > n)
    BY <1>1, <1>2 DEF Anchor, Signed
<1>4. d.from \in Nat /\ n \in Nat
    BY <1>1, WitnessingConstants DEF StoreTyped, Anchor, Signed
<1>5. d.from <= n
    BY <1>3, <1>4
<1> QED
    BY <1>1, <1>5

\* What an operator did since a signature, and has not taken back, is to be seen
\* in the heads.
LEMMA DeedShows ==
    ASSUME StoreTyped, NEW L, NEW n, NEW B, Signed(L, n, B),
           NEW d \in deeds \ B, d.by = "operator", Visible(d, n), ~Undone(d, n, L)
    PROVE  /\ d.correlation \in DOMAIN HeadsOf(rows, n)
           /\ d.correlation \in DOMAIN L =>
                 /\ HeadsOf(rows, n)[d.correlation] # Null
                 /\ HeadsOf(rows, n)[d.correlation] # L[d.correlation]
<1>1. PICK c, C : c = d.correlation /\ C = HeadsOf(rows, n) /\ C = LeavesAt(n)
    BY LeavesAreHeads
<1>2. c \in DOMAIN C /\ C[c] # Null
    BY <1>1 DEF Visible
<1>3. ASSUME c \in DOMAIN L, C[c] = L[c]
      PROVE  FALSE
  <2>1. /\ seq \in Nat /\ DOMAIN rows \subseteq 1..seq /\ Cardinality(deeds) \in Nat
        /\ d.from \in Nat /\ n \in Nat
    BY WitnessingConstants DEF StoreTyped, Signed
  <2>2. PICK l \in DOMAIN rows :
           /\ rows[l].correlation = c /\ C[c] = rows[l].hash
           /\ \A m \in DOMAIN rows : rows[m].correlation = c /\ m <= n => m <= l
    <3>1. PICK l : l = Latest(rows, n, c)
        OBVIOUS
    <3>2. c \in DOMAIN HeadsOf(rows, n)
        BY <1>1, <1>2
    <3>3. /\ l \in DOMAIN rows /\ rows[l].correlation = c
          /\ HeadsOf(rows, n)[c] = rows[l].hash
          /\ \A m \in DOMAIN rows : rows[m].correlation = c /\ m <= n => m <= l
        BY <2>1, <3>1, <3>2, HeadMeans
    <3> QED
        BY <1>1, <3>3
  <2>3. rows[l].hash \in Versions(l, Cardinality(deeds))
    BY DEF StoreTyped
  <2>4. L[c][1] = l
    BY <1>2, <1>3, <2>1, <2>2, <2>3, VersionsMean
  <2>5. ~(d.from <= l)
    <3>1. ASSUME d.from <= l
          PROVE  FALSE
      <4>1. Touched(L, c)
        BY <1>1, <1>3, <2>4, <3>1 DEF Signed, Reached
      <4> QED
        BY <1>3, <2>2, <2>4, <4>1 DEF Touched
    <3> QED
        BY <3>1
  <2>6. d.from > L[c][1]
    BY <2>1, <2>4, <2>5
  <2>7. PICK m \in Of(c) \cap UpTo(n) : ~(m <= L[c][1])
    BY <1>1, <1>3, <2>6 DEF Undone
  <2>8. m \in DOMAIN rows /\ rows[m].correlation = c /\ m <= n
    BY DEF Of, UpTo
  <2> QED
    BY <2>2, <2>4, <2>7, <2>8
<1> QED
    BY <1>1, <1>2, <1>3

LEMMA ReceiptShows ==
    ASSUME StoreTyped, NEW r, Receipt(r), NEW d \in Since(r, "operator"),
           Visible(d, r.statement.sequence), ~Undone(d, r.statement.sequence, r.leaves)
    PROVE  ReceiptVerdict(r) = "tampered"
<1>1. PICK L, n, B : L = r.leaves /\ n = r.statement.sequence /\ B = r.before
    OBVIOUS
<1>2. PICK c, C : c = d.correlation /\ C = HeadsOf(rows, n) /\ C = LeavesAt(n)
    BY LeavesAreHeads
<1>3. /\ c \in DOMAIN C
      /\ c \in DOMAIN L => C[c] # Null /\ C[c] # L[c]
  <2>1. d \in deeds \ B /\ d.by = "operator"
    BY <1>1 DEF Since
  <2>2. Signed(L, n, B) /\ Visible(d, n) /\ ~Undone(d, n, L)
    BY <1>1 DEF Receipt
  <2> QED
    BY <1>2, <2>1, <2>2, DeedShows
<1>4. Disposition(r, C, c) = "tampered"
  <2>1. CASE c \notin DOMAIN L
    BY <1>1, <2>1 DEF Disposition
  <2>2. CASE c \in DOMAIN L
    BY <1>1, <1>3, <2>2 DEF Disposition
  <2> QED
    BY <2>1, <2>2
<1> QED
    BY <1>1, <1>2, <1>3, <1>4 DEF ReceiptVerdict, Receipt

LEMMA AnchorShows ==
    ASSUME StoreTyped, NEW a, Anchor(a), NEW d \in Since(a, "operator"),
           Visible(d, a.sequence), ~Undone(d, a.sequence, a.leaves)
    PROVE  Root(a.scheme, LeavesAt(a.sequence)) # a.head
<1>1. PICK L, n, B : L = a.leaves /\ n = a.sequence /\ B = a.before
    OBVIOUS
<1>2. PICK c, C : c = d.correlation /\ C = HeadsOf(rows, n) /\ C = LeavesAt(n)
    BY LeavesAreHeads
<1>3. /\ c \in DOMAIN C
      /\ c \in DOMAIN L => C[c] # L[c]
  <2>1. d \in deeds \ B /\ d.by = "operator"
    BY <1>1 DEF Since
  <2>2. Signed(L, n, B) /\ Visible(d, n) /\ ~Undone(d, n, L)
    BY <1>1 DEF Anchor
  <2> QED
    BY <1>2, <2>1, <2>2, DeedShows
<1>4. /\ IsFiniteSet(DOMAIN L) /\ DOMAIN L \subseteq Nat
      /\ IsFiniteSet(DOMAIN C) /\ DOMAIN C \subseteq Nat
  <2>1. n \in 0..seq
    BY <1>1 DEF Anchor, Signed
  <2>2. Signed(C, n, deeds)
    BY <1>2, <2>1, SignedStarts
  <2> QED
    BY <1>1, <2>2 DEF Anchor, Signed
<1>5. Root(a.scheme, C) # Root(a.scheme, L)
    BY <1>3, <1>4, RootOfHeads
<1> QED
    BY <1>1, <1>2, <1>5 DEF Anchor

\* A pair of anchors of which one is not reproduced is not proved.
LEMMA ForkShows ==
    ASSUME NEW p \in Consecutive, NEW a \in {p[1], p[2]},
           Root(a.scheme, LeavesAt(a.sequence)) # a.head
    PROVE  p \in RemoteForks
<1>1. a.scheme = "v2" /\ "v2" # "v1"
    BY DEF Consecutive
<1>2. TreeRoot(LeavesAt(a.sequence)) # a.head
    BY <1>1 DEF Root
<1>3. PICK q : q = HeadConsistency(LeavesAt(p[1].sequence), LeavesAt(p[2].sequence))
    OBVIOUS
<1>4. /\ q.firstRoot = TreeRoot(LeavesAt(p[1].sequence))
      /\ q.secondRoot = TreeRoot(LeavesAt(p[2].sequence))
    BY <1>3 DEF HeadConsistency
<1>5. ~(q.firstRoot = p[1].head /\ q.secondRoot = p[2].head)
    BY <1>2, <1>4
<1>6. ~Proved(p)
    BY <1>3, <1>5 DEF Proved, VerifyHeadConsistency
<1> QED
    BY <1>6 DEF RemoteForks

\* A hidden event is in the way of every complete verdict.
LEMMA HiddenFound ==
    ASSUME StoreTyped, NEW b \in Bundles, NEW m \in Hidden(b)
    PROVE  /\ \A r : Receipt(r) => ~(/\ r \in Confirmed(b, {r})
                                     /\ b.correlation \in DOMAIN r.leaves)
           /\ \A a : Anchor(a) /\ b.correlation \in DOMAIN LeavesAt(a.sequence) =>
                 AnchorVerdict(b, a, HeadInclusion(LeavesAt(a.sequence), b.correlation))
                     # "complete"
<1>1. PICK c, h, asOf : c = b.correlation /\ h \in 1..seq /\ b.head = <<h, 0>>
                        /\ asOf = b.asOf /\ asOf \in 0..seq
    BY DEF Bundles
<1>2. /\ m \in DOMAIN rows /\ rows[m].correlation = c /\ m > h /\ m <= asOf
      /\ rows[m].hash = <<m, 0>>
    BY <1>1 DEF Hidden, Of
<1>3. /\ seq \in Nat /\ DOMAIN rows \subseteq 1..seq /\ Cardinality(deeds) \in Nat
      /\ m \in Nat /\ h \in Nat /\ h # 0
    BY <1>1, <1>2, WitnessingConstants DEF StoreTyped
<1>4. b.head # Null /\ b.head[1] = h
    BY <1>1, <1>3 DEF Null
<1>5. ASSUME NEW r, Receipt(r), r.statement.sequence >= asOf, r.leaves[c] = b.head
      PROVE  FALSE
  <2>1. PICK n : n = r.statement.sequence /\ n \in Nat
    BY <1>3, <1>5 DEF Receipt, Signed
  <2>2. m <= n
    BY <1>1, <1>2, <1>3, <1>5, <2>1
  <2>3. Under(r.leaves, n)
    BY <1>5, <2>1 DEF Receipt, Signed
  <2>4. r.leaves[c] = Null \/ r.leaves[c][1] >= m
    BY <1>2, <2>2, <2>3 DEF Under
  <2> QED
    BY <1>2, <1>3, <1>4, <1>5, <2>4
<1>6. ASSUME NEW a, Anchor(a), c \in DOMAIN LeavesAt(a.sequence), a.sequence >= asOf,
             LeavesAt(a.sequence)[c] = b.head
      PROVE  FALSE
  <2>1. PICK n, C : /\ n = a.sequence /\ n \in Nat /\ n \in 0..seq
                    /\ C = HeadsOf(rows, n) /\ C = LeavesAt(n)
    BY <1>3, <1>6, LeavesAreHeads DEF Anchor, Signed
  <2>2. m <= n
    BY <1>1, <1>2, <1>3, <1>6, <2>1
  <2>3. Under(C, n)
    BY <2>1, SignedStarts DEF Signed
  <2>4. C[c] = Null \/ C[c][1] >= m
    BY <1>2, <2>2, <2>3 DEF Under
  <2> QED
    BY <1>2, <1>3, <1>4, <1>6, <2>1, <2>4
<1>7. \A r : Receipt(r) => ~(/\ r \in Confirmed(b, {r})
                             /\ b.correlation \in DOMAIN r.leaves)
    BY <1>1, <1>5 DEF Confirmed
<1>8. ASSUME NEW a, Anchor(a), c \in DOMAIN LeavesAt(a.sequence)
      PROVE  AnchorVerdict(b, a, HeadInclusion(LeavesAt(a.sequence), c)) # "complete"
  <2>1. PICK proof, C : C = LeavesAt(a.sequence) /\ proof = HeadInclusion(C, c)
    OBVIOUS
  <2>2. proof.headHash = C[c]
    BY <2>1 DEF HeadInclusion
  <2>3. a.sequence \in Nat /\ asOf \in Nat
    BY <1>1, <1>3, <1>8 DEF Anchor, Signed
  <2>4. CASE a.sequence < asOf
    BY <1>1, <2>4 DEF AnchorVerdict
  <2>5. CASE ~(a.sequence < asOf)
    <3>1. proof.headHash # b.head
        BY <1>6, <1>8, <2>1, <2>2, <2>3, <2>5
    <3> QED
        BY <2>1, <3>1 DEF AnchorVerdict
  <2> QED
    BY <2>4, <2>5
<1> QED
    BY <1>1, <1>7, <1>8

-----------------------------------------------------------------------------
(***************************************************************************)
(* The exchanges                                                           *)
(***************************************************************************)
\* What a client may add to its file.
MayWrite(w, records) ==
    /\ w \in Witnesses => \A r \in records : Receipt(r)
    /\ w \in Posters => records \subseteq Posters

HandTyped(w) ==
    \/ hand[w] = Idle
    \/ \E s : /\ hand[w] = [stage |-> "signed", statement |-> s]
              /\ w \in Witnesses => s.sequence \in 0..seq
              /\ w \in Posters => s = w
    \/ \E stage \in {"loaded", "writing"} : \E file, record :
          /\ hand[w] = [stage |-> stage, file |-> file, record |-> record]
          /\ MayWrite(w, file \cup {record})

\* The store is typed, and every receipt and every anchor, the ones on their way
\* included, stands to the rows as Signed says.
WitnessingInv ==
    /\ StoreTyped
    /\ DOMAIN files = {"received", "anchors", "mandates"}
    /\ DOMAIN hand = Clients
    /\ files["mandates"] \subseteq Posters
    /\ \A r \in files["received"] : Receipt(r)
    /\ \A a \in anchors : Anchor(a)
    /\ \A w \in Clients : HandTyped(w)

LEMMA WitnessingStarts == Init => WitnessingInv
<1> SUFFICES ASSUME Init
             PROVE  WitnessingInv
    OBVIOUS
<1>1. IsFiniteSet(deeds) /\ Cardinality(deeds) = 0 /\ deeds = {} /\ DOMAIN rows = {}
    BY FS_EmptySet DEF Init
<1>2. StoreTyped
    BY <1>1, WitnessingConstants DEF Init, StoreTyped
<1>3. /\ DOMAIN files = {"received", "anchors", "mandates"}
      /\ files["mandates"] = {} /\ files["received"] = {}
    BY DEF Init
<1>4. \A w \in Clients : HandTyped(w)
    BY DEF Init, HandTyped
<1>5. DOMAIN hand = Clients /\ anchors = {}
    BY DEF Init
<1> QED
    BY <1>2, <1>3, <1>4, <1>5 DEF WitnessingInv

LEMMA FilesOf ==
    /\ \A w \in Clients : /\ w \in Witnesses <=> FileOf(w) = "received"
                          /\ w \in Posters <=> FileOf(w) = "mandates"
                          /\ FileOf(w) \in {"received", "anchors", "mandates"}
<1>1. "received" # "anchors" /\ "received" # "mandates" /\ "anchors" # "mandates"
    OBVIOUS
<1>2. ASSUME NEW w \in Clients
      PROVE  /\ w \in Witnesses <=> FileOf(w) = "received"
             /\ w \in Posters <=> FileOf(w) = "mandates"
             /\ FileOf(w) \in {"received", "anchors", "mandates"}
  <2>1. CASE w \in Witnesses
    <3>1. w \notin Posters /\ w \notin Notaries
        BY <2>1, OneExchangeEach
    <3> QED
        BY <1>1, <2>1, <3>1 DEF FileOf
  <2>2. CASE w \in Notaries
    <3>1. w \notin Posters /\ w \notin Witnesses
        BY <2>2, OneExchangeEach
    <3> QED
        BY <1>1, <2>2, <3>1 DEF FileOf
  <2>3. CASE w \in Posters
    <3>1. w \notin Notaries /\ w \notin Witnesses
        BY <2>3, OneExchangeEach
    <3> QED
        BY <1>1, <2>3, <3>1 DEF FileOf
  <2> QED
    BY <2>1, <2>2, <2>3 DEF Clients
<1> QED
    BY <1>2

LEMMA ReceiptStays ==
    ASSUME StoreTyped, StoreMoved, NEW r, Receipt(r)
    PROVE  Receipt(r)'
<1>1. PICK L, n, B : L = r.leaves /\ n = r.statement.sequence /\ B = r.before
    OBVIOUS
<1>2. Signed(L, n, B)'
    BY <1>1, SignedStays DEF Receipt
<1> QED
    BY <1>1, <1>2 DEF Receipt, SnapshotValid

LEMMA AnchorStays ==
    ASSUME StoreTyped, StoreMoved, NEW a, Anchor(a)
    PROVE  Anchor(a)'
<1>1. PICK L, n, B : L = a.leaves /\ n = a.sequence /\ B = a.before
    OBVIOUS
<1>2. Signed(L, n, B)'
    BY <1>1, SignedStays DEF Anchor
<1> QED
    BY <1>1, <1>2 DEF Anchor

LEMMA MayWriteStays ==
    ASSUME StoreTyped, StoreMoved, NEW w, NEW records, MayWrite(w, records)
    PROVE  MayWrite(w, records)'
    BY ReceiptStays DEF MayWrite

LEMMA HandStays ==
    ASSUME StoreTyped, StoreMoved, NEW w, HandTyped(w), hand'[w] = hand[w]
    PROVE  HandTyped(w)'
<1>1. CASE hand[w] = Idle
    BY <1>1 DEF HandTyped, Idle
<1>2. ASSUME NEW s, hand[w] = [stage |-> "signed", statement |-> s],
             w \in Witnesses => s.sequence \in 0..seq, w \in Posters => s = w
      PROVE  HandTyped(w)'
  <2>1. \A n \in 0..seq : n \in 0..seq'
    BY WitnessingConstants DEF StoreTyped, StoreMoved
  <2> QED
    BY <1>2, <2>1 DEF HandTyped
<1>3. ASSUME NEW stage \in {"loaded", "writing"}, NEW file, NEW record,
             hand[w] = [stage |-> stage, file |-> file, record |-> record],
             MayWrite(w, file \cup {record})
      PROVE  HandTyped(w)'
  <2>1. MayWrite(w, file \cup {record})'
    BY <1>3, MayWriteStays
  <2> QED
    BY <1>3, <2>1 DEF HandTyped
<1> QED
    BY <1>1, <1>2, <1>3 DEF HandTyped

\* What an exchange has to be shown about: nobody else's hand moves.
LEMMA ExchangeSteps ==
    ASSUME WitnessingInv, StoreMoved, NEW w \in Clients, NEW what, Hold(w, what),
           HandTyped(w)',
           DOMAIN files' = {"received", "anchors", "mandates"},
           files'["mandates"] \subseteq Posters,
           \A r \in files'["received"] : Receipt(r),
           \A a \in anchors' : Anchor(a)
    PROVE  WitnessingInv'
<1>1. DOMAIN hand' = Clients /\ \A v \in Clients : v # w => hand'[v] = hand[v]
    BY DEF Hold, WitnessingInv
<1>2. \A v \in Clients : HandTyped(v)'
    BY <1>1, HandStays DEF WitnessingInv
<1>3. StoreTyped'
    BY DEF StoreMoved
<1>4. \A r \in files'["received"] : Receipt(r)'
    BY ReceiptStays DEF WitnessingInv
<1>5. \A a \in anchors' : Anchor(a)'
    BY AnchorStays DEF WitnessingInv
<1> QED
    BY <1>1, <1>2, <1>3, <1>4, <1>5 DEF WitnessingInv

LEMMA HeadSequenceMeans ==
    ASSUME StoreTyped
    PROVE  HeadSequence \in 0..seq
<1>1. seq \in Nat /\ DOMAIN rows \subseteq 1..seq
    BY WitnessingConstants DEF StoreTyped
<1>2. DOMAIN rows # {} => Max(DOMAIN rows) \in 1..seq
    BY <1>1, GreatestElement
<1> QED
    BY <1>1, <1>2, SMTT(40) DEF HeadSequence

LEMMA HandMeans ==
    ASSUME NEW w, HandTyped(w), NEW what
    PROVE  /\ hand[w].stage \in {"idle", "signed", "loaded", "writing"}
           /\ hand[w].stage = "signed" =>
                 /\ w \in Witnesses => hand[w].statement.sequence \in 0..seq
                 /\ w \in Posters => hand[w].statement = w
           /\ hand[w].stage \in {"loaded", "writing"} =>
                 /\ MayWrite(w, hand[w].file \cup {hand[w].record})
                 /\ [hand[w] EXCEPT !.stage = what]
                       = [stage |-> what, file |-> hand[w].file, record |-> hand[w].record]
<1>1. CASE hand[w] = Idle
    BY <1>1 DEF Idle
<1>2. ASSUME NEW s, hand[w] = [stage |-> "signed", statement |-> s],
             w \in Witnesses => s.sequence \in 0..seq, w \in Posters => s = w
      PROVE  /\ hand[w].stage = "signed"
             /\ w \in Witnesses => hand[w].statement.sequence \in 0..seq
             /\ w \in Posters => hand[w].statement = w
    BY <1>2
<1>3. ASSUME NEW stage \in {"loaded", "writing"}, NEW file, NEW record,
             hand[w] = [stage |-> stage, file |-> file, record |-> record],
             MayWrite(w, file \cup {record})
      PROVE  /\ hand[w].stage \in {"loaded", "writing"}
             /\ MayWrite(w, hand[w].file \cup {hand[w].record})
             /\ [hand[w] EXCEPT !.stage = what]
                       = [stage |-> what, file |-> hand[w].file, record |-> hand[w].record]
    BY <1>3
<1> QED
    BY <1>1, <1>2, <1>3 DEF HandTyped

LEMMA SignHeadSteps ==
    ASSUME WitnessingInv, NEW w \in Clients, SignHead(w)
    PROVE  WitnessingInv'
<1>1. PICK s : /\ s.sequence = HeadSequence
               /\ Hold(w, [stage |-> "signed", statement |-> s])
    BY DEF SignHead
<1>2. /\ w \in Witnesses /\ UNCHANGED <<rows, seq, deeds>> /\ files' = files /\ anchors' = anchors
    BY DEF SignHead, store
<1>3. StoreMoved
    BY <1>2, StoreStays DEF WitnessingInv
<1>4. hand'[w] = [stage |-> "signed", statement |-> s]
    BY <1>1 DEF Hold, WitnessingInv
<1>5. w \notin Posters /\ s.sequence \in 0..seq'
    BY <1>1, <1>2, HeadSequenceMeans, OneExchangeEach DEF WitnessingInv
<1>6. HandTyped(w)'
    BY <1>4, <1>5 DEF HandTyped
<1> QED
    BY <1>1, <1>2, <1>3, <1>6, ExchangeSteps DEF WitnessingInv

LEMMA SignAnchorSteps ==
    ASSUME WitnessingInv, NEW w \in Clients, NEW scheme, SignAnchor(w, scheme)
    PROVE  WitnessingInv'
<1>1. PICK a : a = [sequence |-> HeadSequence, scheme |-> scheme,
                    head |-> Root(scheme, LeavesAt(HeadSequence)),
                    taken |-> Cardinality(anchors),
                    leaves |-> LeavesAt(HeadSequence), before |-> deeds]
    OBVIOUS
<1>2. /\ anchors' = anchors \cup {a} /\ Hold(w, [stage |-> "signed", statement |-> a])
      /\ w \in Notaries /\ UNCHANGED <<rows, seq, deeds>> /\ files' = files
    BY <1>1 DEF SignAnchor, store
<1>3. StoreMoved
    BY <1>2, StoreStays DEF WitnessingInv
<1>4. hand'[w] = [stage |-> "signed", statement |-> a]
    BY <1>2 DEF Hold, WitnessingInv
<1>5. w \notin Posters /\ w \notin Witnesses
    BY <1>2, OneExchangeEach
<1>6. HandTyped(w)'
    BY <1>4, <1>5 DEF HandTyped
<1>7. Anchor(a)
  <2>1. PICK n \in 0..seq : n = HeadSequence
    BY HeadSequenceMeans DEF WitnessingInv
  <2>2. Signed(HeadsOf(rows, n), n, deeds)
    BY SignedStarts DEF WitnessingInv
  <2>3. /\ a.leaves = HeadsOf(rows, n) /\ a.sequence = n /\ a.before = deeds
        /\ a.head = Root(a.scheme, a.leaves)
    BY <1>1, <2>1, LeavesAreHeads
  <2> QED
    BY <2>2, <2>3 DEF Anchor
<1>8. \A b \in anchors' : Anchor(b)
    BY <1>2, <1>7 DEF WitnessingInv
<1> QED
    BY <1>2, <1>3, <1>6, <1>8, ExchangeSteps DEF WitnessingInv

LEMMA SignRevocationSteps ==
    ASSUME WitnessingInv, NEW w \in Clients, SignRevocation(w)
    PROVE  WitnessingInv'
<1>1. /\ Hold(w, [stage |-> "signed", statement |-> w]) /\ w \in Posters
      /\ UNCHANGED <<rows, seq, deeds>> /\ files' = files /\ anchors' = anchors
    BY DEF SignRevocation, store
<1>2. StoreMoved
    BY <1>1, StoreStays DEF WitnessingInv
<1>3. hand'[w] = [stage |-> "signed", statement |-> w]
    BY <1>1 DEF Hold, WitnessingInv
<1>4. w \notin Witnesses
    BY <1>1, OneExchangeEach
<1>5. HandTyped(w)'
    BY <1>3, <1>4 DEF HandTyped
<1> QED
    BY <1>1, <1>2, <1>5, ExchangeSteps DEF WitnessingInv

\* A statement that matches becomes a receipt of the heads as they are.
LEMMA RecordedIsReceipt ==
    ASSUME WitnessingInv, NEW w \in Witnesses, NEW s, s.sequence \in 0..seq, Matches(w, s)
    PROVE  Receipt(Record(w, s))
<1>1. PICK n \in 0..seq : n = s.sequence
    OBVIOUS
<1>2. PICK r : r = [statement |-> s, leaves |-> LeavesAt(n),
                    revocations |-> files["mandates"], before |-> deeds]
    OBVIOUS
<1>3. Record(w, s) = r
    BY <1>1, <1>2 DEF Record
<1>4. s.head = Root("v1", LeavesAt(n))
  <2>1. w \notin Notaries /\ w \notin Posters
    BY OneExchangeEach
  <2>2. PICK there : there = LeavesAt(s.sequence)
    OBVIOUS
  <2>3. s.head = Root("v1", there)
    BY <2>1, <2>2 DEF Matches
  <2> QED
    BY <1>1, <2>2, <2>3
<1>5. /\ r.statement = s /\ r.leaves = HeadsOf(rows, n) /\ r.before = deeds
      /\ r.leaves = LeavesAt(n)
    BY <1>2, LeavesAreHeads
<1>6. Signed(HeadsOf(rows, n), n, deeds)
    BY SignedStarts DEF WitnessingInv
<1>7. SnapshotValid(r)
    BY <1>4, <1>5 DEF SnapshotValid, Root
<1> QED
    BY <1>1, <1>3, <1>5, <1>6, <1>7 DEF Receipt

LEMMA ReceiveSteps ==
    ASSUME WitnessingInv, NEW w \in Clients, Receive(w)
    PROVE  WitnessingInv'
<1>1. /\ hand[w].stage = "signed" /\ UNCHANGED <<rows, seq, deeds>>
      /\ files' = files /\ anchors' = anchors
    BY DEF Receive, store
<1>2. StoreMoved
    BY <1>1, StoreStays DEF WitnessingInv
<1>3. PICK s : s = hand[w].statement
    OBVIOUS
<1>4. /\ w \in Witnesses => s.sequence \in 0..seq
      /\ w \in Posters => s = w
    BY <1>1, <1>3, HandMeans DEF WitnessingInv
<1>5. CASE Matches(w, s)
  <2>1. PICK file, record : file = files[FileOf(w)] /\ record = Record(w, s)
    OBVIOUS
  <2>2. Hold(w, [stage |-> "loaded", file |-> file, record |-> record])
    BY <1>3, <1>5, <2>1 DEF Receive
  <2>3. hand'[w] = [stage |-> "loaded", file |-> file, record |-> record]
    BY <2>2 DEF Hold, WitnessingInv
  <2>4. MayWrite(w, file \cup {record})
    <3>1. CASE w \in Witnesses
      <4>1. w \notin Posters /\ file = files["received"]
        BY <2>1, <3>1, FilesOf, OneExchangeEach
      <4>2. Receipt(record)
        BY <1>4, <1>5, <2>1, <3>1, RecordedIsReceipt
      <4> QED
        BY <4>1, <4>2 DEF MayWrite, WitnessingInv
    <3>2. CASE w \in Posters
      <4>1. w \notin Witnesses /\ file = files["mandates"] /\ record = w
        BY <1>4, <2>1, <3>2, FilesOf, OneExchangeEach DEF Record
      <4> QED
        BY <3>2, <4>1 DEF MayWrite, WitnessingInv
    <3>3. CASE w \notin Witnesses /\ w \notin Posters
        BY <3>3 DEF MayWrite
    <3> QED
        BY <3>1, <3>2, <3>3
  <2>5. MayWrite(w, file \cup {record})'
    BY <1>2, <2>4, MayWriteStays DEF WitnessingInv
  <2>6. HandTyped(w)'
    BY <2>3, <2>5 DEF HandTyped
  <2> QED
    BY <1>1, <1>2, <2>2, <2>6, ExchangeSteps DEF WitnessingInv
<1>6. CASE ~Matches(w, s)
  <2>1. Hold(w, Idle)
    BY <1>3, <1>6 DEF Receive
  <2>2. hand'[w] = Idle
    BY <2>1 DEF Hold, WitnessingInv
  <2>3. HandTyped(w)'
    BY <2>2 DEF HandTyped, Idle
  <2> QED
    BY <1>1, <1>2, <2>1, <2>3, ExchangeSteps DEF WitnessingInv
<1> QED
    BY <1>5, <1>6

LEMMA MissSteps ==
    ASSUME WitnessingInv, NEW w \in Clients, Miss(w)
    PROVE  WitnessingInv'
<1>1. /\ Hold(w, Idle) /\ UNCHANGED <<rows, seq, deeds>> /\ files' = files /\ anchors' = anchors
    BY DEF Miss, store
<1>2. StoreMoved
    BY <1>1, StoreStays DEF WitnessingInv
<1>3. hand'[w] = Idle
    BY <1>1 DEF Hold, WitnessingInv
<1>4. HandTyped(w)'
    BY <1>3 DEF HandTyped, Idle
<1> QED
    BY <1>1, <1>2, <1>4, ExchangeSteps DEF WitnessingInv

LEMMA TruncateSteps ==
    ASSUME WitnessingInv, NEW w \in Clients, Truncate(w)
    PROVE  WitnessingInv'
<1>1. /\ hand[w].stage = "loaded" /\ Hold(w, [hand[w] EXCEPT !.stage = "writing"])
      /\ files' = [files EXCEPT ![FileOf(w)] = {}]
      /\ UNCHANGED <<rows, seq, deeds>> /\ anchors' = anchors
    BY DEF Truncate, store
<1>2. StoreMoved
    BY <1>1, StoreStays DEF WitnessingInv
<1>3. PICK file, record : file = hand[w].file /\ record = hand[w].record
    OBVIOUS
<1>4. /\ MayWrite(w, file \cup {record})
      /\ [hand[w] EXCEPT !.stage = "writing"]
            = [stage |-> "writing", file |-> file, record |-> record]
    BY <1>1, <1>3, HandMeans DEF WitnessingInv
<1>5. hand'[w] = [stage |-> "writing", file |-> file, record |-> record]
    BY <1>1, <1>4 DEF Hold, WitnessingInv
<1>6. MayWrite(w, file \cup {record})'
    BY <1>2, <1>4, MayWriteStays DEF WitnessingInv
<1>7. HandTyped(w)'
    BY <1>5, <1>6 DEF HandTyped
<1>8. /\ DOMAIN files' = {"received", "anchors", "mandates"}
      /\ files'["received"] \subseteq files["received"]
      /\ files'["mandates"] \subseteq files["mandates"]
    BY <1>1, FilesOf DEF WitnessingInv
<1> QED
    BY <1>1, <1>2, <1>7, <1>8, ExchangeSteps DEF WitnessingInv

LEMMA WriteBackSteps ==
    ASSUME WitnessingInv, NEW w \in Clients, WriteBack(w)
    PROVE  WitnessingInv'
<1>1. /\ hand[w].stage = "writing" /\ Hold(w, Idle)
      /\ files' = [files EXCEPT ![FileOf(w)] = hand[w].file \cup {hand[w].record}]
      /\ UNCHANGED <<rows, seq, deeds>> /\ anchors' = anchors
    BY DEF WriteBack, store
<1>2. StoreMoved
    BY <1>1, StoreStays DEF WitnessingInv
<1>3. PICK records : records = hand[w].file \cup {hand[w].record}
    OBVIOUS
<1>4. MayWrite(w, records)
    BY <1>1, <1>3, HandMeans DEF WitnessingInv
<1>5. hand'[w] = Idle
    BY <1>1 DEF Hold, WitnessingInv
<1>6. HandTyped(w)'
    BY <1>5 DEF HandTyped, Idle
<1>7. /\ DOMAIN files' = {"received", "anchors", "mandates"}
      /\ files'["received"] = IF FileOf(w) = "received" THEN records ELSE files["received"]
      /\ files'["mandates"] = IF FileOf(w) = "mandates" THEN records ELSE files["mandates"]
    BY <1>1, <1>3 DEF WitnessingInv
<1>8. \A r \in files'["received"] : Receipt(r)
    BY <1>4, <1>7, FilesOf DEF MayWrite, WitnessingInv
<1>9. files'["mandates"] \subseteq Posters
    BY <1>4, <1>7, FilesOf DEF MayWrite, WitnessingInv
<1> QED
    BY <1>1, <1>2, <1>6, <1>7, <1>8, <1>9, ExchangeSteps DEF WitnessingInv

LEMMA WitnessingStep ==
    ASSUME WitnessingInv, [Next]_vars
    PROVE  WitnessingInv'
<1>1. ASSUME StoreMoved, UNCHANGED <<files, hand, anchors>>
      PROVE  WitnessingInv'
  <2>1. \A w \in Clients : HandTyped(w)'
    BY <1>1, HandStays DEF WitnessingInv
  <2>2. \A r \in files'["received"] : Receipt(r)'
    BY <1>1, ReceiptStays DEF WitnessingInv
  <2>3. \A a \in anchors' : Anchor(a)'
    BY <1>1, AnchorStays DEF WitnessingInv
  <2>4. StoreTyped'
    BY <1>1 DEF StoreMoved
  <2> QED
    BY <1>1, <2>1, <2>2, <2>3, <2>4 DEF WitnessingInv
<1>2. CASE Storing \/ Operating
  <2>1. UNCHANGED <<files, hand, anchors>>
    BY <1>2 DEF Storing, Operating, AppendEvent, Purge, Redact, EditEvent, DropTail,
                InsertEvent, Forge, Beside
  <2>2. StoreMoved
    BY <1>2, StoreMoves DEF WitnessingInv
  <2> QED
    BY <1>1, <2>1, <2>2
<1>3. CASE Exchanging
    BY <1>3, SignHeadSteps, SignAnchorSteps, SignRevocationSteps, ReceiveSteps, MissSteps,
       TruncateSteps, WriteBackSteps DEF Exchanging
<1>4. CASE UNCHANGED vars
  <2>1. UNCHANGED <<rows, seq, deeds>> /\ UNCHANGED <<files, hand, anchors>>
    BY <1>4 DEF vars
  <2> QED
    BY <1>1, <2>1, StoreStays DEF WitnessingInv
<1> QED
    BY <1>2, <1>3, <1>4 DEF Next

LEMMA NoAlarm ==
    ASSUME WitnessingInv
    PROVE  NoFalseAlarm
<1>1. TypeOK
  <2>1. \A n \in DOMAIN rows :
          /\ rows[n].correlation \in Correlations
          /\ rows[n].hash \in {Null} \cup {<<n, v>> : v \in 0..MaxDeeds}
    <3>1. Cardinality(deeds) \in Nat /\ MaxDeeds \in Nat /\ Cardinality(deeds) <= MaxDeeds
        BY WitnessingConstants DEF WitnessingInv, StoreTyped
    <3>2. ASSUME NEW n \in DOMAIN rows
          PROVE  /\ rows[n].correlation \in Correlations
                 /\ rows[n].hash \in {Null} \cup {<<n, v>> : v \in 0..MaxDeeds}
      <4>1. /\ rows[n].correlation \in Correlations
            /\ rows[n].hash \in Versions(n, Cardinality(deeds))
        BY DEF WitnessingInv, StoreTyped
      <4>2. \A v \in 0..Cardinality(deeds) : v \in 0..MaxDeeds
        BY <3>1
      <4> QED
        BY <4>1, <4>2 DEF Versions
    <3> QED
        BY <3>2
  <2>2. \A w \in Clients : hand[w].stage \in {"idle", "signed", "loaded", "writing"}
    BY HandMeans DEF WitnessingInv
  <2> QED
    BY <2>1, <2>2 DEF TypeOK, WitnessingInv, StoreTyped
<1>2. NeverFalselyTampered
    BY ReceiptIntact DEF NeverFalselyTampered, WitnessingInv
<1>3. ForkNeedsChange
  <2>1. FirstDivergence \subseteq anchors
    BY DEF FirstDivergence
  <2> QED
    BY <2>1, AnchorReproduced DEF ForkNeedsChange, WitnessingInv
<1> QED
    BY <1>1, <1>2, <1>3 DEF NoFalseAlarm

LEMMA Tampering ==
    ASSUME WitnessingInv
    PROVE  TamperingShows
<1>1. ASSUME NEW r \in files["received"], NEW d \in Since(r, "operator"),
             Visible(d, r.statement.sequence), ~Undone(d, r.statement.sequence, r.leaves)
      PROVE  ReceiptVerdict(r) = "tampered"
    BY <1>1, ReceiptShows DEF WitnessingInv
<1>2. ASSUME NEW a \in anchors, NEW d \in Since(a, "operator"),
             Visible(d, a.sequence), ~Undone(d, a.sequence, a.leaves)
      PROVE  /\ FirstDivergence # {}
             /\ (\E p \in Consecutive : a \in {p[1], p[2]}) => RemoteForks # {}
  <2>1. Root(a.scheme, LeavesAt(a.sequence)) # a.head
    BY <1>2, AnchorShows DEF WitnessingInv
  <2>2. a \in FirstDivergence
    BY <2>1 DEF FirstDivergence
  <2>3. ASSUME NEW p \in Consecutive, a \in {p[1], p[2]}
        PROVE  p \in RemoteForks
    BY <2>1, <2>3, ForkShows
  <2> QED
    BY <2>2, <2>3
<1>3. RewriteCaught
    BY <1>1, <1>2 DEF RewriteCaught
<1>4. ASSUME NEW b \in Bundles, Hidden(b) # {}
      PROVE  /\ CompletenessVerdict(b, files["received"]) # "complete"
             /\ \A a \in anchors :
                   b.correlation \in DOMAIN LeavesAt(a.sequence) =>
                      AnchorVerdict(b, a, HeadInclusion(LeavesAt(a.sequence), b.correlation))
                         # "complete"
  <2>1. PICK m \in Hidden(b) : TRUE
    BY <1>4
  <2>2. /\ \A r : Receipt(r) => ~(/\ r \in Confirmed(b, {r})
                                  /\ b.correlation \in DOMAIN r.leaves)
        /\ \A a : Anchor(a) /\ b.correlation \in DOMAIN LeavesAt(a.sequence) =>
              AnchorVerdict(b, a, HeadInclusion(LeavesAt(a.sequence), b.correlation))
                  # "complete"
    BY <2>1, HiddenFound DEF WitnessingInv
  <2>3. Confirmed(b, Covering(b, files["received"])) = {}
    <3>1. ASSUME NEW r \in Confirmed(b, Covering(b, files["received"]))
          PROVE  FALSE
      <4>1. /\ r \in files["received"] /\ b.correlation \in DOMAIN r.leaves
            /\ r \in Confirmed(b, {r})
        BY DEF Confirmed, Covering
      <4> QED
        BY <2>2, <4>1 DEF WitnessingInv
    <3> QED
        BY <3>1
  <2>4. CompletenessVerdict(b, files["received"]) # "complete"
    <3>1. CASE \E r \in files["received"] : ~SnapshotValid(r)
        BY <3>1 DEF CompletenessVerdict
    <3>2. CASE ~\E r \in files["received"] : ~SnapshotValid(r)
        BY <2>3, <3>2 DEF CompletenessVerdict
    <3> QED
        BY <3>1, <3>2
  <2> QED
    BY <2>2, <2>4 DEF WitnessingInv
<1>5. NoHiddenTail
    BY <1>4 DEF NoHiddenTail
<1> QED
    BY <1>3, <1>5 DEF TamperingShows

\* Appends, purges, redactions, growth and lost receipts make neither the auditor of
\* a receipt nor the local monitor of the anchors accuse anybody, for any number of
\* correlations, clients, events and deeds (verify_receipt_against_store,
\* monitor_anchor_history).
THEOREM NobodyFalselyAccused == Spec => []NoFalseAlarm
<1>1. WitnessingInv => NoFalseAlarm
    BY NoAlarm
<1> QED
    BY <1>1, WitnessingStarts, WitnessingStep, PTL DEF Spec

\* What the operator rewrites at or below a signed sequence and has not put back, and
\* what a bundle leaves out, shows in every verdict it bears on, whichever of the two
\* schemes the head is of (audit_completeness, audit_completeness_via_anchor,
\* monitor_anchor_history_remote).
THEOREM TamperingAlwaysShows == Spec => []TamperingShows
<1>1. WitnessingInv => TamperingShows
    BY Tampering
<1> QED
    BY <1>1, WitnessingStarts, WitnessingStep, PTL DEF Spec
=============================================================================
