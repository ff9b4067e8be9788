-------------------------------- MODULE MCHosts --------------------------------
(***************************************************************************)
(* What is under way and ends: the calls of a host's pipeline, beside a    *)
(* member of the mesh whose key rotates under the eyes of a peer.  The two *)
(* share nothing here, so one run checks them side by side: the first      *)
(* state chooses one of them, and only that one moves.  The fairness of    *)
(* the other asks for nothing: in its initial state none of the actions it *)
(* names is enabled, but for the mesh's refresher, which is said to run    *)
(* only where the mesh does.                                               *)
(***************************************************************************)
EXTENDS MCInvocationPipeline, Mesh

CONSTANT t1

VARIABLE part \* the component that moves

HostsInit ==
    /\ part \in {"pipeline", "mesh"}
    /\ Init
    /\ MeshInit

HostsNext ==
    /\ UNCHANGED part
    /\ \/ part = "pipeline" /\ Next /\ UNCHANGED meshVars
       \/ part = "mesh" /\ MeshNext /\ UNCHANGED vars

\* The gateway's refresher has a timer of its own: whatever else happens, it
\* comes round again.
RefresherRuns ==
    \A t \in Peers : SF_meshVars(part = "mesh" /\ Discover(t, "refresh"))

FairHostsSpec ==
    /\ HostsInit
    /\ [][HostsNext]_<<part, vars, meshVars>>
    /\ \A c \in Calls : WF_vars(Step(c))
    /\ MeshStepFairness
    /\ RefresherRuns
=============================================================================
