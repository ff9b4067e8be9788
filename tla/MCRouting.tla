------------------------------ MODULE MCRouting ------------------------------
(***************************************************************************)
(* Instances of Routing for TLC: one or two hosts, a request thread and    *)
(* the two background threads.                                             *)
(***************************************************************************)
EXTENDS Routing, TLC

CONSTANTS h1, h2, req, prober, refresher

MCHosts == {h1, h2}
MCOrder == <<h1, h2>>
OneHost == {h1}
OneOrder == <<h1>>

Background == refresher :> {"refresh"} @@ prober :> {"probe"}
WorkOf(requests) ==
    [t \in Threads |->
        IF t \in DOMAIN Background THEN Background[t] ELSE requests]
AnyRequest == WorkOf({"invoke", "replay", "probe"})

AllSelections == {"first", "round_robin", "least_loaded"}
PreferSecond == {{}, {h2}}

\* No step reads what the chain was told or how often a host tripped.
Unread == <<selection, breaker, failures, probing, rr, known, control>>
=============================================================================
