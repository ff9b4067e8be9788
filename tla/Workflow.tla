------------------------------- MODULE Workflow -------------------------------
(***************************************************************************)
(* Named workflows (chp-adapter-composition) and chp.workflow.run          *)
(* (chp_core/workflow.py): the steps of a definition are invoked one by    *)
(* one on the host, their outcomes go to the evidence chain, and a failed  *)
(* step ends the run unless it may be skipped.  Runs, in handler threads,  *)
(* share the dictionary of definitions with those that define.             *)
(*                                                                         *)
(* A step is whether it may fail (skip_on_failure).  What a step invokes   *)
(* may succeed, fail, be denied or raise, and runs under an identifier of  *)
(* its own; the process may die with every run in it.                      *)
(***************************************************************************)
EXTENDS Integers, Sequences, FiniteSets, SequencesExt

CONSTANTS
    Definitions, \* the definitions considered, sequences of BOOLEAN
    Runners,     \* threads that run a workflow
    MaxRuns      \* bound on the runs begun

ASSUME WorkflowConstants ==
    /\ Definitions \subseteq Seq(BOOLEAN)
    /\ MaxRuns \in Nat

VARIABLES
    defined, \* the definition of the name, <<>> before the first one
    run,     \* each thread's run
    log,     \* the evidence of each run, in the order of the chain
    effects, \* history: the steps each run has executed
    chosen   \* history: the definition a run began with

workflowVars == <<defined, run, log, effects, chosen>>

NoRun == [at |-> "none"]

Say(n, event) == log' = [log EXCEPT ![n] = Append(@, event)]
Event(kind, step) == [kind |-> kind, step |-> step]
Total(kind, completed, failed) == [kind |-> kind, completed |-> completed, failed |-> failed]

-----------------------------------------------------------------------------
WorkflowInit ==
    /\ defined = <<>>
    /\ run = [t \in Runners |-> NoRun]
    /\ log = <<>>
    /\ effects = <<>>
    /\ chosen = <<>>

\* define, which may replace the definition of a workflow that is running.
Define(steps) ==
    /\ defined # steps
    /\ defined' = steps
    /\ UNCHANGED <<run, log, effects, chosen>>

\* run: the definition is looked up once, "started" is recorded.
StartRun(t) ==
    /\ run[t] = NoRun
    /\ defined # <<>>
    /\ Len(log) < MaxRuns
    /\ run' = [run EXCEPT ![t] = [at |-> "step", id |-> Len(log) + 1, steps |-> defined,
                                  next |-> 1, results |-> <<>>]]
    /\ log' = Append(log, <<Event("started", 0)>>)
    /\ effects' = Append(effects, <<>>)
    /\ chosen' = Append(chosen, defined)
    /\ UNCHANGED defined

\* step_started
StartStep(t) ==
    /\ run[t].at = "step"
    /\ run[t].next <= Len(run[t].steps)
    /\ Say(run[t].id, Event("step_started", run[t].next))
    /\ run' = [run EXCEPT ![t].at = "invoke"]
    /\ UNCHANGED <<defined, effects, chosen>>

\* The nested invocation, one governed invocation of its own; where it is denied
\* or not placed, nothing has been executed.
InvokeStep(t, success, executed) ==
    /\ run[t].at = "invoke"
    /\ success => executed
    /\ effects' = IF executed THEN [effects EXCEPT ![run[t].id] = Append(@, run[t].next)]
                  ELSE effects
    /\ run' = [run EXCEPT ![t].at = IF success THEN "succeeded" ELSE "failed"]
    /\ UNCHANGED <<defined, log, chosen>>

StepSucceeded(t) ==
    /\ run[t].at = "succeeded"
    /\ Say(run[t].id, Event("step_completed", run[t].next))
    /\ run' = [run EXCEPT ![t].at = "step", ![t].next = @ + 1,
                          ![t].results = Append(@, TRUE)]
    /\ UNCHANGED <<defined, effects, chosen>>

\* Mutant of StepFailed: every failure is passed over.
StepFailedOn(t) ==
    /\ run[t].at = "failed"
    /\ Say(run[t].id, Event("step_failed", run[t].next))
    /\ run' = [run EXCEPT ![t].at = "step", ![t].next = @ + 1,
                          ![t].results = Append(@, FALSE)]
    /\ UNCHANGED <<defined, effects, chosen>>

\* A step that may fail is passed over; any other ends the run.
StepFailed(t) ==
    /\ run[t].at = "failed"
    /\ Say(run[t].id, Event("step_failed", run[t].next))
    /\ IF run[t].steps[run[t].next]
       THEN run' = [run EXCEPT ![t].at = "step", ![t].next = @ + 1,
                               ![t].results = Append(@, FALSE)]
       ELSE run' = [run EXCEPT ![t].at = "failing"]
    /\ UNCHANGED <<defined, effects, chosen>>

\* run_failed, and the exception.
FailRun(t) ==
    /\ run[t].at = "failing"
    /\ Say(run[t].id, Event("run_failed", run[t].next))
    /\ run' = [run EXCEPT ![t] = NoRun]
    /\ UNCHANGED <<defined, effects, chosen>>

\* run_complete, with what succeeded and what failed.
CompleteRun(t) ==
    /\ run[t].at = "step"
    /\ run[t].next > Len(run[t].steps)
    /\ LET of(outcome) == Cardinality({n \in DOMAIN run[t].results : run[t].results[n] = outcome})
       IN  Say(run[t].id, Total("complete", of(TRUE), of(FALSE)))
    /\ run' = [run EXCEPT ![t] = NoRun]
    /\ UNCHANGED <<defined, effects, chosen>>

\* The process dies; the definitions were in memory.
WorkflowCrash ==
    /\ \E t \in Runners : run[t] # NoRun
    /\ run' = [t \in Runners |-> NoRun]
    /\ defined' = <<>>
    /\ UNCHANGED <<log, effects, chosen>>

-----------------------------------------------------------------------------
RunStep(t) ==
    \/ StartStep(t)
    \/ \E success, executed \in BOOLEAN : InvokeStep(t, success, executed)
    \/ StepSucceeded(t)
    \/ StepFailed(t)
    \/ FailRun(t)
    \/ CompleteRun(t)

WorkflowNext ==
    \/ \E steps \in Definitions : Define(steps)
    \/ WorkflowCrash
    \/ \E t \in Runners : StartRun(t) \/ RunStep(t)

\* Handlers run.
WorkflowFairness == \A t \in Runners : WF_workflowVars(RunStep(t))

WorkflowSpec == WorkflowInit /\ [][WorkflowNext]_workflowVars /\ WorkflowFairness

-----------------------------------------------------------------------------
(***************************************************************************)
(* Properties                                                              *)
(***************************************************************************)
WorkflowTypeOK ==
    /\ defined \in Definitions \cup {<<>>}
    /\ Len(log) <= MaxRuns
    /\ Len(effects) = Len(log)
    /\ Len(chosen) = Len(log)
    /\ \A t \in Runners : run[t] # NoRun => /\ run[t].id \in DOMAIN log
                                            /\ run[t].next \in 1..Len(run[t].steps) + 1

Steps(n, kind) == {log[n][i].step : i \in {j \in DOMAIN log[n] : log[n][j].kind = kind}}
Ended(n) == Last(log[n]).kind \in {"complete", "run_failed"}

\* No step runs twice or out of order in a run, none runs that the evidence has
\* not announced, and none after a failure that may not be passed over.
StepsInOrder ==
    \A n \in DOMAIN effects :
        /\ \A i, j \in DOMAIN effects[n] : i < j => effects[n][i] < effects[n][j]
        /\ ToSet(effects[n]) \subseteq Steps(n, "step_started")
        /\ \A failed \in Steps(n, "step_failed") : \A step \in ToSet(effects[n]) :
              step > failed => chosen[n][failed]

\* The evidence of a run that ended tells what the run did: "complete" accounts
\* for every step of the definition it began with, however often the name was
\* defined anew meanwhile; "failed" names the one step it may not pass over.
EvidenceTellsRun ==
    \A n \in DOMAIN log : Ended(n) =>
        LET last == Last(log[n])
            completed == Steps(n, "step_completed")
            failed == Steps(n, "step_failed")
        IN  /\ completed \subseteq ToSet(effects[n])
            /\ completed \cap failed = {}
            /\ \/ /\ last.kind = "complete"
                  /\ completed \cup failed = DOMAIN chosen[n]
                  /\ last.completed = Cardinality(completed)
                  /\ last.failed = Cardinality(failed)
               \/ /\ last.kind = "run_failed"
                  /\ last.step \in failed
                  /\ {s \in failed : ~chosen[n][s]} = {last.step}
                  /\ completed \cup failed = 1..last.step

\* A run ends in the evidence, unless the process died.
RunsEnd ==
    \A t \in Runners : run[t] # NoRun ~> run[t] = NoRun

\* What a run does is in order and what its evidence tells.
WorkflowSafe == WorkflowTypeOK /\ StepsInOrder /\ EvidenceTellsRun
=============================================================================
