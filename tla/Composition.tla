------------------------------ MODULE Composition ------------------------------
(***************************************************************************)
(* The typed composition DAG of chp_core/composition.py and the runtime    *)
(* that executes one: it asks classify which nodes are ready, dispatches   *)
(* them, and records what becomes of them.  The runtime is external (the   *)
(* module defines the structure and the eligibility rules); it is modelled *)
(* as the tests use the rules, with nodes that run at the same time, end   *)
(* in any outcome, and indeterminate ones that are reconciled later.       *)
(***************************************************************************)
EXTENDS Integers, FiniteSets

CONSTANTS
    Nodes,    \* of the composition
    MaxEdges, \* bound on its edges
    Critical, \* the safety-critical nodes
    JoinAny   \* the nodes whose join is "any", the others' is "all"

ASSUME CompositionConstants ==
    /\ IsFiniteSet(Nodes)
    /\ MaxEdges \in Nat
    /\ Critical \subseteq Nodes
    /\ JoinAny \subseteq Nodes

VARIABLES
    composed,  \* __post_init__ has accepted the graph
    edges,     \* of the composition: <<src, dst, type>>
    states,    \* the state of each node
    artifacts, \* the nodes whose artifact is there
    basis      \* history: the states of its sources that a node was dispatched on

compositionVars == <<composed, edges, states, artifacts, basis>>

Types == {"control", "data", "evidence"}

Incoming(es, n) == {e \in es : e[2] = n}
Sources(es, n) == {e[1] : e \in Incoming(es, n)}

\* _has_cycle: some nodes each have a predecessor among themselves.
HasCycle(es) ==
    \E some \in (SUBSET Nodes) \ {{}} : \A n \in some : Sources(es, n) \cap some # {}

\* _edge_satisfied
Satisfied(e) ==
    /\ states[e[1]] = "completed"
    /\ e[3] = "data" => e[1] \in artifacts

Blocked(n) == n \in Critical /\ \E m \in Sources(edges, n) : states[m] = "indeterminate"

JoinMet(n) ==
    LET deps == Incoming(edges, n)
    IN  \/ deps = {}
        \/ n \in JoinAny /\ \E e \in deps : Satisfied(e)
        \/ n \notin JoinAny /\ \A e \in deps : Satisfied(e)

\* Mutant of Classify: a dependency that is indeterminate is like any other.
ClassifyAlike(n) ==
    CASE states[n] # "pending" -> states[n]
      [] states[n] = "pending" /\ JoinMet(n) -> "ready"
      [] OTHER -> "pending"

\* classify, one node; ready_nodes are those it calls "ready".
Classify(n) ==
    CASE states[n] # "pending" -> states[n]
      [] states[n] = "pending" /\ Blocked(n) -> "blocked"
      [] states[n] = "pending" /\ ~Blocked(n) /\ JoinMet(n) -> "ready"
      [] OTHER -> "pending"

-----------------------------------------------------------------------------
CompositionInit ==
    /\ composed = FALSE
    /\ edges = {}
    /\ states = [n \in Nodes |-> "pending"]
    /\ artifacts = {}
    /\ basis = [n \in Nodes |-> <<>>]

\* Edges are chosen one by one, from a node to another or itself.
AddEdge(from, to, type) ==
    /\ ~composed
    /\ Cardinality(edges) < MaxEdges
    /\ edges' = edges \cup {<<from, to, type>>}
    /\ UNCHANGED <<composed, states, artifacts, basis>>

\* Composition(...): __post_init__ refuses a cycle.
Compose ==
    /\ ~composed
    /\ ~HasCycle(edges)
    /\ composed' = TRUE
    /\ UNCHANGED <<edges, states, artifacts, basis>>

\* The runtime dispatches a ready node; gates may still deny it, which fails it.
Dispatch(n) ==
    /\ composed
    /\ Classify(n) = "ready"
    /\ states' = [states EXCEPT ![n] = "running"]
    /\ basis' = [basis EXCEPT ![n] = [m \in Sources(edges, n) |-> states[m]]]
    /\ UNCHANGED <<composed, edges, artifacts>>

\* It ends, with or without an artifact; an indeterminate one is reconciled.
Conclude(n, outcome, artifact) ==
    /\ states[n] \in {"running", "indeterminate"} \ {outcome}
    /\ outcome \in {"completed", "failed", "indeterminate"}
    /\ artifact => outcome = "completed"
    /\ states' = [states EXCEPT ![n] = outcome]
    /\ artifacts' = IF artifact THEN artifacts \cup {n} ELSE artifacts
    /\ UNCHANGED <<composed, edges, basis>>

\* The compensation, a node of its own, has run.
Compensate(n) ==
    /\ states[n] = "completed"
    /\ states' = [states EXCEPT ![n] = "compensated"]
    /\ UNCHANGED <<composed, edges, artifacts, basis>>

CompositionNext ==
    \/ \E from, to \in Nodes, type \in Types : AddEdge(from, to, type)
    \/ Compose
    \/ \E n \in Nodes :
          \/ Dispatch(n)
          \/ \E outcome \in {"completed", "failed", "indeterminate"}, artifact \in BOOLEAN :
                Conclude(n, outcome, artifact)
          \/ Compensate(n)

CompositionSpec == CompositionInit /\ [][CompositionNext]_compositionVars

-----------------------------------------------------------------------------
(***************************************************************************)
(* Properties                                                              *)
(***************************************************************************)
CompositionTypeOK ==
    /\ composed \in BOOLEAN
    /\ edges \subseteq Nodes \X Nodes \X Types
    /\ Cardinality(edges) <= MaxEdges
    /\ states \in [Nodes -> {"pending", "running", "completed", "failed",
                             "indeterminate", "compensated"}]
    /\ artifacts \subseteq Nodes

\* "It never proceeds on 'don't know'": a node ran on what it depends on, with
\* the artifacts it is fed, and a safety-critical one on nothing indeterminate.
DispatchedOnKnown ==
    \A n \in Nodes : (states[n] # "pending" /\ Sources(edges, n) # {}) =>
        LET met == {e \in Incoming(edges, n) : /\ basis[n][e[1]] = "completed"
                                              /\ e[3] = "data" => e[1] \in artifacts}
        IN  /\ met # {}
            /\ n \notin JoinAny => met = Incoming(edges, n)
            /\ n \in Critical => \A m \in Sources(edges, n) : basis[n][m] # "indeterminate"

\* A composition does not hang: when nothing runs and nothing is ready, a node
\* that still waits is downstream of one that failed, was compensated, is
\* indeterminate or left no artifact.
Trouble == {n \in Nodes : \/ states[n] \in {"failed", "compensated", "indeterminate"}
                          \/ states[n] = "completed" /\ n \notin artifacts}

\* The nodes downstream of some: the least set with the successors of its own.
Downstream(some) ==
    {n \in Nodes : \A closed \in SUBSET Nodes :
        (\A m \in Nodes : Sources(edges, m) \cap (some \cup closed) # {} => m \in closed)
            => n \in closed}

NeverHangs ==
    (composed /\ \A n \in Nodes : states[n] # "running" /\ Classify(n) # "ready") =>
        {n \in Nodes : states[n] = "pending"} \subseteq Downstream(Trouble)

\* A composition neither runs a node on what is not known nor stops short of
\* one that could run.
CompositionSafe == CompositionTypeOK /\ DispatchedOnKnown /\ NeverHangs
=============================================================================
