-------------------------------- MODULE MCRemote --------------------------------
(***************************************************************************)
(* Invocations over the network: one identifier on its way through a       *)
(* gateway to the owners of a capability, and one resumable stream.  The   *)
(* two share nothing here, so one run checks them side by side: the first  *)
(* state chooses a component, and only that component moves.  The fairness *)
(* of the other asks for nothing, since none of the actions it names is    *)
(* enabled in its initial state.                                           *)
(***************************************************************************)
EXTENDS Gateway, Streams, TLC

CONSTANTS h1, h2

VARIABLE part \* the component that moves

RemoteInit ==
    /\ part \in {"gateway", "stream"}
    /\ GatewayInit
    /\ StreamInit

RemoteNext ==
    /\ UNCHANGED part
    /\ \/ part = "gateway" /\ GatewayNext /\ UNCHANGED streamVars
       \/ part = "stream" /\ StreamNext /\ UNCHANGED gatewayVars

RemoteSpec ==
    /\ RemoteInit
    /\ [][RemoteNext]_<<part, gatewayVars, streamVars>>
    /\ GatewayFairness
    /\ StreamFairness

-----------------------------------------------------------------------------
\* A request that is not lost is answered, a stream call returns or raises, and
\* an abandoned execution is drained and recorded for its resume.
RemoteProgress == RequestsEnd /\ DrainedForResume /\ StreamCallEnds
=============================================================================
