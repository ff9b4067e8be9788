------------------------------- MODULE MCService -------------------------------
(***************************************************************************)
(* One host as a service: its process and background jobs, the rate limit, *)
(* a state machine, session transcripts and workflows; the versions of a   *)
(* capability; the circuit breaker and the warm models of its adapters;    *)
(* and its Zenoh binding.  The components share nothing here, so one run   *)
(* checks them side by side: the first state chooses a component, and only *)
(* that component moves.  The fairness of a component that does not move   *)
(* asks for nothing, since none of the actions it names is enabled in its  *)
(* initial state.                                                          *)
(***************************************************************************)
EXTENDS HostProcess, StateMachine, Admission, Transcripts, Workflow,
        Circuit, ModelCache, ZenohServer, Semver, TLC

CONSTANTS r1, r2, t1, t2, t3

VARIABLE part \* the component that moves

Graph == [s \in States |->
    CASE s = "new" -> {"doing", "failed"}
      [] s = "doing" -> {"doing", "done", "failed"}
      [] s = "done" -> {"doing"}
      [] s = "failed" -> {"new"}]

AgentLog == <<"a", "b", "a">>

Requested ==
    {{[op |-> "^", parts |-> <<1>>]},
     {[op |-> "~", parts |-> <<0, 1>>], [op |-> ">", parts |-> <<0, 1, 0>>]},
     {[op |-> ">=", parts |-> <<0, 1>>], [op |-> "<", parts |-> <<2>>]},
     {[op |-> "<=", parts |-> <<1, 2>>]},
     {[op |-> "=", parts |-> <<1, 0, 0>>]},
     {[op |-> "", parts |-> <<1, X>>]},
     {[op |-> "", parts |-> <<X>>]}}

TwoDefinitions == {<<TRUE, FALSE>>, <<FALSE, TRUE>>}

-----------------------------------------------------------------------------
Parts == {"process", "machine", "admission", "transcripts", "workflow",
          "circuit", "cache", "zenoh", "versions"}

ServiceInit ==
    /\ part \in Parts
    /\ Init
    /\ MachineInit
    /\ AdmissionInit
    /\ TranscriptInit
    /\ WorkflowInit
    /\ CircuitInit
    /\ CacheInit
    /\ ZenohInit
    /\ SemverInit

Moves(name, step) == part = name /\ step

Stays(name, component) == part # name => UNCHANGED component

ServiceNext ==
    /\ UNCHANGED part
    /\ \/ Moves("process", Next)
       \/ Moves("machine", MachineNext)
       \/ Moves("admission", AdmissionNext)
       \/ Moves("transcripts", TranscriptNext)
       \/ Moves("workflow", WorkflowNext)
       \/ Moves("circuit", CircuitNext)
       \/ Moves("cache", CacheNext)
       \/ Moves("zenoh", ZenohNext)
       \/ Moves("versions", SemverNext)
    /\ Stays("process", vars)
    /\ Stays("machine", machineVars)
    /\ Stays("admission", admissionVars)
    /\ Stays("transcripts", transcriptVars)
    /\ Stays("workflow", workflowVars)
    /\ Stays("circuit", circuitVars)
    /\ Stays("cache", cacheVars)
    /\ Stays("zenoh", zenohVars)
    /\ Stays("versions", registered)

serviceVars == <<part, vars, machineVars, admissionVars, transcriptVars, workflowVars,
                 circuitVars, cacheVars, zenohVars, registered>>

ServiceSpec ==
    /\ ServiceInit
    /\ [][ServiceNext]_serviceVars
    /\ Fairness
    /\ WorkflowFairness
    /\ CircuitFairness
    /\ ZenohFairness

-----------------------------------------------------------------------------
\* What is written down of what happened: session transcripts beside the chain,
\* and the evidence of workflow runs.
RecordsSafe == TranscriptsSafe /\ WorkflowSafe

\* What the host shares between its threads on their behalf: the circuits, the
\* warm models, the workers of the Zenoh binding.
AdaptersSafe == CircuitSafe /\ CacheSafe /\ ZenohSafe

\* What is under way ends: a submitted job is settled, a drain ends, a workflow
\* run ends, a circuit closes for an origin that is back, and a health query is
\* answered whatever the invocations do.
ServiceProgress == JobsSettled /\ DrainEnds /\ RunsEnd /\ CircuitCloses /\ HealthAnswered
=============================================================================
