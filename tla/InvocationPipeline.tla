-------------------------- MODULE InvocationPipeline --------------------------
(***************************************************************************)
(* LocalCapabilityHost's governed invocation (chp_core/host.py): gate 0    *)
(* (idempotent replay), the gates of _prepare in their order, the handler, *)
(* the evidence that brackets it and the recorded result.                  *)
(*                                                                         *)
(* ThreadingHTTPServer gives every request a thread, so calls interleave   *)
(* between any two store calls; each store call is atomic (it holds        *)
(* SQLiteEvidenceStore._lock and commits).  An action is one store call    *)
(* with the pure code around it; the handler is an action of its own.      *)
(***************************************************************************)
EXTENDS Integers, Sequences, FiniteSets

CONSTANTS
    Calls,          \* the attempts callers make, one envelope each
    Requests,       \* the envelopes callers send
    Invocations,
    Correlations,
    Capabilities,
    Mandates,
    Approvals,      \* approval_id of the approver-signed grants
    NoMandate,
    NoGrant,
    GrantFor,       \* the invocation each grant binds
    MaxUses,        \* max_invocations of each mandate
    Tier,           \* "free" or "approval_required"
    ActionLimit,    \* autonomy action_limit (a spend_limit is a limit of
                    \* spend_limit / spend_units actions)
    Cacheable,      \* capabilities without metadata cache_results = False
    Refusals,       \* what the pure gates may answer besides letting pass
    HandlerOutcomes,\* what a handler may end with
    Overlapping,    \* may a caller send while another call is in the host?
    Faults,         \* which of "crash", "close", "expire", "trouble" happen
    Durable         \* CHP_HOST_ACTIVATION_CONSUME_DB names a file

Outcomes == {"success", "failure", "indeterminate", "denied",
             "approval_required", "skipped"}

None == "none"

Terminals == {"execution_completed", "execution_failed",
              "execution_indeterminate", "execution_denied", "execution_skipped"}

Kinds == Terminals \cup {"execution_started", "budget_exceeded",
                         "approval_requested", "approval_grant_verified"}

Envelopes ==
    [inv: Invocations, corr: Correlations, cap: Capabilities,
     mode: {"sync", "stream"}, mandate: Mandates \cup {NoMandate},
     approval: Approvals \cup {NoGrant}, activation: BOOLEAN]

ASSUME PipelineConstants ==
    /\ Requests \subseteq Envelopes
    /\ NoMandate \notin Mandates
    /\ NoGrant \notin Approvals
    /\ GrantFor \in [Approvals -> Invocations]
    /\ MaxUses \in [Mandates -> Nat]
    /\ Tier \in [Capabilities -> {"free", "approval_required"}]
    /\ ActionLimit \in [Capabilities -> Nat]
    /\ Cacheable \subseteq Capabilities
    /\ Refusals \subseteq {"denied", "approval_required", "skipped"}
    /\ HandlerOutcomes \subseteq
          {"success", "failure", "indeterminate", "denied", "bad_output"}
    /\ Overlapping \in BOOLEAN
    /\ Faults \subseteq {"crash", "close", "expire", "trouble"}
    /\ Durable \in BOOLEAN

VARIABLES
    at,        \* where each call is: the store call it makes next
    request,   \* its envelope
    seen,      \* mandate_use_recorded as the mandate gate read it
    outcome,   \* the outcome it carries or has returned
    trail,     \* the evidence events it has appended, in order
    effects,   \* the calls whose handler has acted
    results,   \* invocation_results: the outcome recorded per invocation
    used,      \* mandate_usage: the invocations recorded per mandate
    consumed,  \* consumed_activations
    lapsed     \* the grants past valid_until

vars == <<at, request, seen, outcome, trail, effects, results, used, consumed, lapsed>>

Locations == {"waiting", "lookup", "resume", "gates", "mandate", "count", "use",
              "policy", "authorize", "consume", "budget", "safety", "denying",
              "start", "running", "ran", "record", "done", "dead"}

NoRequest == [inv |-> None]

Inv(c) == request[c].inv

Live(c) == at[c] \notin {"waiting", "done", "dead"}

Go(c, l) == at' = [at EXCEPT ![c] = l]

Conclude(c, o) == outcome' = [outcome EXCEPT ![c] = o]

Emit(c, kind) == trail' = [trail EXCEPT ![c] = Append(@, kind)]

Emitted(c, kind) == \E n \in DOMAIN trail[c] : trail[c][n] = kind

\* _valid_approval_for: an unexpired grant bound to this invocation.
Granted(c) ==
    /\ request[c].approval # NoGrant
    /\ GrantFor[request[c].approval] = Inv(c)
    /\ request[c].approval \notin lapsed

\* count_by_correlation_event_type(corr, "execution_started")
Taken(k) == Cardinality({c \in Calls : /\ Emitted(c, "execution_started")
                                       /\ request[c].corr = k})

\* Mutant of EventOf: a skip is logged under the name of its outcome.
EventOfButSkip(o) ==
    CASE o = "success"       -> "execution_completed"
      [] o = "failure"       -> "execution_failed"
      [] o = "indeterminate" -> "execution_indeterminate"
      [] o = "skipped"       -> "skipped"
      [] OTHER               -> "execution_denied"

EventOf(o) ==
    CASE o = "success"       -> "execution_completed"
      [] o = "failure"       -> "execution_failed"
      [] o = "indeterminate" -> "execution_indeterminate"
      [] o = "skipped"       -> "execution_skipped"
      [] OTHER               -> "execution_denied"

shared == <<results, used, consumed, lapsed>>

-----------------------------------------------------------------------------
Init ==
    /\ at = [c \in Calls |-> "waiting"]
    /\ request = [c \in Calls |-> NoRequest]
    /\ seen = [c \in Calls |-> FALSE]
    /\ outcome = [c \in Calls |-> None]
    /\ trail = [c \in Calls |-> <<>>]
    /\ effects = {}
    /\ results = [i \in Invocations |-> None]
    /\ used = [m \in Mandates |-> {}]
    /\ consumed = {}
    /\ lapsed = {}

\* A caller sends an envelope, or sends it again.
Deliver(c) ==
    /\ at[c] = "waiting"
    /\ Overlapping \/ \A d \in Calls : ~Live(d)
    /\ \E r \in Requests : request' = [request EXCEPT ![c] = r]
    /\ Go(c, "lookup")
    /\ UNCHANGED <<seen, outcome, trail, effects, shared>>

-----------------------------------------------------------------------------
(***************************************************************************)
(* _prepare.  A gate that refuses leaves its outcome to _deny / _skip.     *)
(***************************************************************************)
Refuse(c, o) == Go(c, "denying") /\ Conclude(c, o)

Pass(c, l) == Go(c, l) /\ UNCHANGED outcome

PureGate(c, l, refusals) ==
    Pass(c, l) \/ \E o \in refusals \cap Refusals : Refuse(c, o)

\* Gate 0.  A recorded approval_required gives way to a valid grant.
Resumable(c) == results[Inv(c)] = "approval_required" /\ Granted(c)

Lookup(c) ==
    /\ at[c] = "lookup"
    /\ \/ /\ results[Inv(c)] = None \/ "trouble" \in Faults
          /\ Pass(c, "gates")
       \/ /\ results[Inv(c)] # None
          /\ ~Resumable(c)
          /\ Go(c, "done")
          /\ Conclude(c, results[Inv(c)])
       \/ /\ Resumable(c)
          /\ Pass(c, "resume")
    /\ UNCHANGED <<request, seen, trail, effects, shared>>

\* Mutant of DropStaleDenial: gate 0 is entered again and nothing was deleted.
LookAgain(c) ==
    /\ at[c] = "resume"
    /\ Go(c, "lookup")
    /\ UNCHANGED <<request, seen, outcome, trail, effects, shared>>

DropStaleDenial(c) ==
    /\ at[c] = "resume"
    /\ results' = [results EXCEPT ![Inv(c)] = None]
    /\ Go(c, "gates")
    /\ UNCHANGED <<request, seen, outcome, trail, effects, used, consumed, lapsed>>

\* Id, version, enabled and mode gates; mandate verification and scope.
EarlyGates(c) ==
    /\ at[c] = "gates"
    /\ PureGate(c, IF request[c].mandate = NoMandate THEN "policy" ELSE "mandate",
                {"denied", "skipped"})
    /\ UNCHANGED <<request, seen, trail, effects, shared>>

\* The max_invocations cap: three store calls.
SeeMandateUse(c) ==
    /\ at[c] = "mandate"
    /\ seen' = [seen EXCEPT ![c] = Inv(c) \in used[request[c].mandate]]
    /\ Go(c, "count")
    /\ UNCHANGED <<request, outcome, trail, effects, shared>>

\* Mutant of Exhausted: off by one.
ExhaustedTooLate(c) ==
    ~seen[c] /\ Cardinality(used[request[c].mandate]) > MaxUses[request[c].mandate]

Exhausted(c) ==
    ~seen[c] /\ Cardinality(used[request[c].mandate]) >= MaxUses[request[c].mandate]

CountMandateUses(c) ==
    /\ at[c] = "count"
    /\ \/ Exhausted(c) /\ Refuse(c, "denied")
       \/ ~Exhausted(c) /\ Pass(c, "use")
    /\ UNCHANGED <<request, seen, trail, effects, shared>>

RecordMandateUse(c) ==
    /\ at[c] = "use"
    /\ used' = [used EXCEPT ![request[c].mandate] = @ \cup {Inv(c)}]
    /\ Go(c, "policy")
    /\ UNCHANGED <<request, seen, outcome, trail, effects, results, consumed, lapsed>>

\* Actor allowlist, floor, policy and host invariants.
PolicyGates(c) ==
    /\ at[c] = "policy"
    /\ PureGate(c, IF request[c].activation THEN "authorize" ELSE "budget",
                {"denied", "approval_required"})
    /\ UNCHANGED <<request, seen, trail, effects, shared>>

\* authorize_activation_effect over the consumed set as read ...
Authorize(c) ==
    LET a == request[c].approval
    IN  /\ at[c] = "authorize"
        /\ IF a = NoGrant \/ a \in lapsed \cup consumed
           THEN Refuse(c, "denied")
           ELSE PureGate(c, "consume", {"denied", "approval_required"})
        /\ UNCHANGED <<request, seen, trail, effects, shared>>

\* Mutant of Consume: the grant read as unused is marked used, unconditionally.
MarkUsed(c) ==
    /\ at[c] = "consume"
    /\ consumed' = consumed \cup {request[c].approval}
    /\ Pass(c, "budget")
    /\ UNCHANGED <<request, seen, trail, effects, results, used, lapsed>>

\* ... then the atomic consume; losing the race, or an error, refuses.
Consume(c) ==
    LET a == request[c].approval
    IN  /\ at[c] = "consume"
        /\ \/ /\ a \notin consumed
              /\ consumed' = consumed \cup {a}
              /\ Pass(c, "budget")
           \/ /\ a \in consumed \/ "trouble" \in Faults
              /\ Refuse(c, "denied")
              /\ UNCHANGED consumed
        /\ UNCHANGED <<request, seen, trail, effects, results, used, lapsed>>

\* Mutant of OverBudget: off by one.
OverBudgetTooLate(c) == Taken(request[c].corr) > ActionLimit[request[c].cap]

\* The deadline, then _check_autonomy_budget; the governance event precedes
\* execution_denied.
OverBudget(c) == Taken(request[c].corr) >= ActionLimit[request[c].cap]

AutonomyGate(c) ==
    /\ at[c] = "budget"
    /\ \/ /\ "denied" \in Refusals
          /\ Refuse(c, "denied")
          /\ UNCHANGED trail
       \/ /\ OverBudget(c)
          /\ Emit(c, "budget_exceeded")
          /\ Refuse(c, "denied")
       \/ /\ ~OverBudget(c)
          /\ Tier[request[c].cap] = "free"
          /\ Pass(c, "safety")
          /\ UNCHANGED trail
       \/ /\ ~OverBudget(c)
          /\ Tier[request[c].cap] = "approval_required"
          /\ Granted(c)
          /\ Emit(c, "approval_grant_verified")
          /\ Pass(c, "safety")
       \/ /\ ~OverBudget(c)
          /\ Tier[request[c].cap] = "approval_required"
          /\ ~Granted(c)
          /\ Emit(c, "approval_requested")
          /\ Refuse(c, "approval_required")
    /\ UNCHANGED <<request, seen, effects, shared>>

\* Input schema and safety gates.
SafetyGates(c) ==
    /\ at[c] = "safety"
    /\ PureGate(c, "start", {"denied"})
    /\ UNCHANGED <<request, seen, trail, effects, shared>>

\* Mutant of Deny: no early result is recorded.
DenyUnrecorded(c) ==
    /\ at[c] = "denying"
    /\ Emit(c, EventOf(outcome[c]))
    /\ Go(c, "done")
    /\ UNCHANGED <<request, seen, outcome, effects, shared>>

\* _deny / _skip; ainvoke_envelope records the early result, ainvoke_stream
\* does not.
Deny(c) ==
    /\ at[c] = "denying"
    /\ Emit(c, EventOf(outcome[c]))
    /\ Go(c, IF request[c].mode = "sync" THEN "record" ELSE "done")
    /\ UNCHANGED <<request, seen, outcome, effects, shared>>

-----------------------------------------------------------------------------
(***************************************************************************)
(* Execution                                                               *)
(***************************************************************************)
Start(c) ==
    /\ at[c] = "start"
    /\ Emit(c, "execution_started")
    /\ Go(c, "running")
    /\ UNCHANGED <<request, seen, outcome, effects, shared>>

\* Mutant of RunHandler: an exception of the handler leaves the call.
RunUnguarded(c) ==
    /\ at[c] = "running"
    /\ \E o \in HandlerOutcomes :
          /\ Conclude(c, o)
          /\ effects' = IF o = "denied" THEN effects ELSE effects \cup {c}
          /\ Go(c, IF o = "failure" THEN "dead" ELSE "ran")
    /\ UNCHANGED <<request, seen, trail, shared>>

\* The handler: a CapabilityDenied from it means nothing was done.
RunHandler(c) ==
    /\ at[c] = "running"
    /\ \E o \in HandlerOutcomes :
          /\ Conclude(c, o)
          /\ effects' = IF o = "denied" THEN effects ELSE effects \cup {c}
    /\ Go(c, "ran")
    /\ UNCHANGED <<request, seen, trail, shared>>

\* Mutant of Finish: a failure is not logged.
FinishQuietly(c) ==
    /\ at[c] = "ran"
    /\ IF outcome[c] = "failure" THEN UNCHANGED trail ELSE Emit(c, EventOf(outcome[c]))
    /\ IF outcome[c] = "bad_output"
       THEN Go(c, "done") /\ Conclude(c, "denied")
       ELSE Pass(c, "record")
    /\ UNCHANGED <<request, seen, effects, shared>>

\* The terminal event.  A result the strict output schema refuses is denied
\* without being recorded.
Finish(c) ==
    /\ at[c] = "ran"
    /\ Emit(c, EventOf(outcome[c]))
    /\ IF outcome[c] = "bad_output"
       THEN Go(c, "done") /\ Conclude(c, "denied")
       ELSE Pass(c, "record")
    /\ UNCHANGED <<request, seen, effects, shared>>

\* Mutant of RecordResult: only successes are recorded.
RecordSuccess(c) ==
    /\ at[c] = "record"
    /\ results' = IF outcome[c] = "success" THEN [results EXCEPT ![Inv(c)] = "success"]
                  ELSE results
    /\ Go(c, "done")
    /\ UNCHANGED <<request, seen, outcome, trail, effects, used, consumed, lapsed>>

\* _record_result: INSERT OR IGNORE, best effort; the caller gets its own
\* outcome in any case.
RecordResult(c) ==
    /\ at[c] = "record"
    /\ \/ /\ request[c].cap \in Cacheable
          /\ results' = [results EXCEPT ![Inv(c)] =
                            IF @ = None THEN outcome[c] ELSE @]
       \/ /\ request[c].cap \notin Cacheable \/ "trouble" \in Faults
          /\ UNCHANGED results
    /\ Go(c, "done")
    /\ UNCHANGED <<request, seen, outcome, trail, effects, used, consumed, lapsed>>

-----------------------------------------------------------------------------
(***************************************************************************)
(* What the environment does                                               *)
(***************************************************************************)
\* A write the store refuses raises: out of the call, except where the handler's
\* try block turns it into a failure.
StoreTrouble(c) ==
    /\ "trouble" \in Faults
    /\ at[c] \in {"resume", "mandate", "count", "use", "budget", "safety",
                  "denying", "start", "ran"}
    /\ IF at[c] = "ran" /\ outcome[c] \in {"success", "bad_output"}
       THEN Conclude(c, "failure") /\ UNCHANGED at
       ELSE Pass(c, "dead")
    /\ UNCHANGED <<request, seen, trail, effects, shared>>

\* The consumer of a stream closes the generator between two chunks, as
\* _spill_stream does when its client has gone.
CloseStream(c) ==
    /\ "close" \in Faults
    /\ at[c] = "running"
    /\ request[c].mode = "stream"
    /\ effects' \in {effects, effects \cup {c}}
    /\ Pass(c, "dead")
    /\ UNCHANGED <<request, seen, trail, shared>>

Crash ==
    /\ "crash" \in Faults
    /\ \E c \in Calls : Live(c)
    /\ at' = [c \in Calls |-> IF Live(c) THEN "dead" ELSE at[c]]
    /\ consumed' = IF Durable THEN consumed ELSE {}
    /\ UNCHANGED <<request, seen, outcome, trail, effects, results, used, lapsed>>

\* lookup_result's TTL, and a grant's valid_until.
Expire ==
    /\ "expire" \in Faults
    /\ \/ /\ \E i \in Invocations : results' = [results EXCEPT ![i] = None]
          /\ UNCHANGED lapsed
       \/ /\ \E a \in Approvals : lapsed' = lapsed \cup {a}
          /\ UNCHANGED results
    /\ UNCHANGED <<at, request, seen, outcome, trail, effects, used, consumed>>

Step(c) ==
    \/ Lookup(c) \/ DropStaleDenial(c) \/ EarlyGates(c)
    \/ SeeMandateUse(c) \/ CountMandateUses(c) \/ RecordMandateUse(c)
    \/ PolicyGates(c) \/ Authorize(c) \/ Consume(c)
    \/ AutonomyGate(c) \/ SafetyGates(c) \/ Deny(c)
    \/ Start(c) \/ RunHandler(c) \/ Finish(c) \/ RecordResult(c)

Next ==
    \/ \E c \in Calls : Deliver(c) \/ Step(c) \/ StoreTrouble(c) \/ CloseStream(c)
    \/ Crash
    \/ Expire

Spec == Init /\ [][Next]_vars

\* A thread that is in a call goes on with it, and handlers return.
FairSpec == Spec /\ \A c \in Calls : WF_vars(Step(c))
-----------------------------------------------------------------------------
(***************************************************************************)
(* Properties                                                              *)
(***************************************************************************)
\* Type correctness of the calls and of the tables.
TypeOK ==
    /\ at \in [Calls -> Locations]
    /\ request \in [Calls -> Requests \cup {NoRequest}]
    /\ \A c \in Calls : at[c] # "waiting" => request[c] \in Requests
    /\ seen \in [Calls -> BOOLEAN]
    /\ outcome \in [Calls -> Outcomes \cup {None, "bad_output"}]
    /\ trail \in [Calls -> Seq(Kinds)]
    /\ effects \subseteq Calls
    /\ results \in [Invocations -> Outcomes \cup {None}]
    /\ used \in [Mandates -> SUBSET Invocations]
    /\ consumed \subseteq Approvals
    /\ lapsed \subseteq Approvals

\* The activation gate is single-use: whatever the interleaving of duplicate and
\* retried calls, refused later gates, store trouble, expiries and crashes, one
\* approval_id pays for at most one handler's effect.
ActivationSingleUse ==
    \A c, d \in effects :
        (/\ request[c].activation
         /\ request[d].activation
         /\ request[c].approval = request[d].approval) => c = d

\* Every recorded result is backed by evidence: some call of that invocation
\* ended its trail with the event of the recorded outcome, so replay never
\* vouches for something the chain does not show.
RecordedHasEvidence ==
    \A i \in Invocations : results[i] # None =>
        \E c \in Calls : /\ at[c] # "waiting"
                         /\ Inv(c) = i
                         /\ Emitted(c, EventOf(results[i]))

\* Idempotent replay (spec section 13) seen by callers that send one call at a
\* time: every call of an invocation gets the same answer, apart from the
\* retryable approval_required.
OneFinalAnswer ==
    \A c, d \in Calls :
        (/\ at[c] = "done" /\ at[d] = "done"
         /\ Inv(c) = Inv(d)
         /\ "approval_required" \notin {outcome[c], outcome[d]})
        => outcome[c] = outcome[d]

\* "A host that has already recorded an invocation's invocation_id MUST NOT
\* re-execute it": a handler acts twice for one invocation only if a call died
\* before it could answer.
ReexecutedOnlyAfterDeath ==
    \A c, d \in effects :
        (c # d /\ Inv(c) = Inv(d)) => "dead" \in {at[c], at[d]}

\* "The handler runs exactly once - duplicate-execution protection is preserved
\* across approve->execute": no invocation of an approval_required capability
\* acts twice.
ResumedExactlyOnce ==
    \A c, d \in effects :
        (Tier[request[c].cap] = "approval_required" /\ Inv(c) = Inv(d)) => c = d

\* A mandate is spent by at most max_invocations distinct invocations, and no
\* handler acts under it without having been counted.
MandateCapHolds ==
    \A m \in Mandates :
        /\ Cardinality(used[m]) <= MaxUses[m]
        /\ \A c \in effects : request[c].mandate = m => Inv(c) \in used[m]

\* "Maximum execution_started events per correlation_id": the executions of a
\* capability started in a correlation stay within its action_limit.
BudgetHolds ==
    \A k \in Correlations, p \in Capabilities :
        Cardinality({c \in Calls : /\ Emitted(c, "execution_started")
                                  /\ request[c].corr = k
                                  /\ request[c].cap = p}) <= ActionLimit[p]

\* "Evidence brackets the stream": an execution_started is followed by a
\* terminal event of the same call.
EvidenceBrackets ==
    \A c \in Calls :
        Emitted(c, "execution_started") ~> \E kind \in Terminals : Emitted(c, kind)

\* Every call is answered, whatever gates refuse it and whoever races it.
EveryCallAnswered == \A c \in Calls : Live(c) ~> at[c] = "done"
=============================================================================
