------------------------------- MODULE TwinHost -------------------------------
(***************************************************************************)
(* The second implementation of the host (packages/chp-host-ts): the same  *)
(* gates in the same order as LocalCapabilityHost, in one thread of        *)
(* JavaScript.  A call runs from one await to the next without anybody in  *)
(* between, so the gates, the start of the evidence and the handler's      *)
(* first part are one step; and so are its end, the terminal event and the *)
(* recorded result.  Calls interleave where the handler waits.             *)
(*                                                                         *)
(* There is one capability, whose requests share a correlation, and one    *)
(* mandate.  Everything is in memory and a restart begins anew.            *)
(***************************************************************************)
EXTENDS Integers, Sequences, FiniteSets

CONSTANTS
    MaxTwinCalls, \* bound: the calls, numbered in the order they arrive in
    MaxIds,       \* bound: invocation identifiers, numbered in the order they first come in
    UseCap,       \* max_invocations of the mandate
    ActionCap     \* autonomy action_limit

ASSUME TwinConstants ==
    /\ MaxTwinCalls \in Nat /\ MaxIds \in Nat
    /\ UseCap \in Nat /\ ActionCap \in Nat

VARIABLES
    calls,    \* each call: where it is, what it runs under, its events, its answer
    stored,   \* invocationResults (a stream's chunks are those of Streams)
    uses,     \* mandateUsage: the invocations charged to the mandate
    guarded,    \* does the capability require approval?
    running,  \* the handlers that still run, those of timed-out calls too
    acted,    \* history: the calls whose handlers have acted
    crossed   \* history: the identifiers that had two calls in the host at once

TwinCalls == 1..MaxTwinCalls
Nobody == 0

Ids == 1..MaxIds
NoId == 0

twinVars == <<calls, stored, uses, guarded, running, acted, crossed>>

NoRecord == [outcome |-> "none", by |-> Nobody]

TwinRequests == [id: Ids, stream: BOOLEAN, mandate: BOOLEAN, grant: BOOLEAN]

NewCall == [at |-> "idle", id |-> NoId, stream |-> FALSE, mandate |-> FALSE,
           events |-> <<>>, answer |-> NoRecord]

Inside(c) == calls[c].at \in {"handler", "generator"}

CallsOf(i) == {c \in TwinCalls : calls[c].id = i}

Has(c, kind) == \E n \in DOMAIN calls[c].events : calls[c].events[n] = kind

\* countEventType(corr, "execution_started")
StartedEvents == Cardinality({c \in TwinCalls : Has(c, "started")})

TwinInit ==
    /\ calls = [c \in TwinCalls |-> NewCall]
    /\ stored = [i \in Ids |-> NoRecord]
    /\ uses = {}
    /\ guarded \in BOOLEAN
    /\ running = {}
    /\ acted = {}
    /\ crossed = {}

-----------------------------------------------------------------------------
(***************************************************************************)
(* prepare: the gates                                                      *)
(***************************************************************************)
\* What the gates that only read the request and the configuration may answer:
\* the scope of the caller's key, before the pipeline; gates 1 to 5; the policy;
\* and, past the approval, gates 9 and 10.
PureAnswers == {"pass", "scope", "disabled", "refused", "blocked", "policy approval", "unsafe"}

\* A recorded demand for approval does not replay to who brings the grant.
Resumes(r) == stored[r.id].outcome = "approval_required" /\ r.grant

Replays(r) == stored[r.id] # NoRecord /\ ~Resumes(r)

Reaches(r, pure) == pure \notin {"scope", "disabled", "refused"}

\* The cap counts distinct invocations: one that was charged may come back.
UsedUp(r) == r.mandate /\ r.id \notin uses /\ Cardinality(uses) >= UseCap

Charged(r, pure) == r.mandate /\ Reaches(r, pure) /\ ~UsedUp(r)

\* The first gate that does not let pass decides.
Verdict(r, pure) ==
    CASE pure = "scope"               -> "denied"
      [] Replays(r)                   -> "replay"
      [] pure = "disabled"            -> "skipped"
      [] pure = "refused"             -> "denied"
      [] UsedUp(r)                 -> "denied"
      [] pure = "blocked"             -> "denied"
      [] pure = "policy approval"     -> "approval_required"
      [] StartedEvents >= ActionCap   -> "denied"
      [] guarded /\ ~r.grant            -> "approval_required"
      [] pure = "unsafe"              -> "denied"
      [] OTHER                        -> "execute"

TerminalOf(outcome) ==
    CASE outcome = "success" -> "completed"
      [] outcome = "failure" -> "failed"
      [] outcome = "skipped" -> "skipped"
      [] OTHER               -> "denied"

\* Mutant of RecordResult: the last one wins.
RecordLast(results, i, outcome, c) == [results EXCEPT ![i] = [outcome |-> outcome, by |-> c]]

\* recordResult: the first one wins.
RecordResult(results, i, outcome, c) ==
    IF results[i] = NoRecord THEN [results EXCEPT ![i] = [outcome |-> outcome, by |-> c]]
    ELSE results

\* The record as the gates leave it: a resume has dropped it.
Kept(r, pure) ==
    IF Resumes(r) /\ pure # "scope" THEN [stored EXCEPT ![r.id] = NoRecord] ELSE stored

\* The call that comes next.
Arriving == {c \in TwinCalls : calls[c].at = "idle" /\ (c > 1 => calls[c - 1].at # "idle")}

\* A request arrives and runs to its answer, or to where its handler waits.  A
\* stream that the gates stop is answered, but not recorded.  (What the gates note
\* on the chain before they decide, such as budget_exceeded, is left out.)
Enter(c, r, pure) ==
    LET verdict == Verdict(r, pure)
    IN  /\ \A i \in 1..r.id - 1 : CallsOf(i) # {}
        /\ uses' = IF verdict # "replay" /\ Charged(r, pure) THEN uses \cup {r.id} ELSE uses
        /\ crossed' = IF \E d \in CallsOf(r.id) : Inside(d) THEN crossed \cup {r.id}
                      ELSE crossed
        /\ \/ /\ verdict = "replay"
              /\ calls' = [calls EXCEPT ![c] =
                    [NewCall EXCEPT !.at = "done", !.id = r.id, !.answer = stored[r.id]]]
              /\ UNCHANGED <<stored, running>>
           \/ /\ verdict = "execute"
              /\ calls' = [calls EXCEPT ![c] =
                    [NewCall EXCEPT !.at = "handler", !.id = r.id, !.stream = r.stream,
                                  !.mandate = r.mandate,
                                  !.events = <<"started">>]]
              /\ stored' = Kept(r, pure)
              /\ running' = running \cup {c}
           \/ /\ verdict \notin {"replay", "execute"}
              /\ calls' = [calls EXCEPT ![c] =
                    [NewCall EXCEPT !.at = "done", !.id = r.id,
                                  !.events = <<TerminalOf(verdict)>>,
                                  !.answer = [outcome |-> verdict, by |-> c]]]
              /\ stored' = IF r.stream \/ pure = "scope" THEN Kept(r, pure)
                           ELSE RecordResult(Kept(r, pure), r.id, verdict, c)
              /\ UNCHANGED running
        /\ UNCHANGED <<guarded, acted>>

(***************************************************************************)
(* The handler                                                             *)
(***************************************************************************)
Act(c) ==
    /\ c \in running \ acted
    /\ acted' = acted \cup {c}
    /\ UNCHANGED <<calls, stored, uses, guarded, running, crossed>>

\* The handler returns a generator, which the host drains or streams; the
\* timeout is over then, and a stream has none.
Generator(c) ==
    /\ calls[c].at = "handler"
    /\ calls' = [calls EXCEPT ![c].at = "generator"]
    /\ UNCHANGED <<stored, uses, guarded, running, acted, crossed>>

\* A result that violates the output schema is denied, after the fact.
Close(c, outcome) ==
    LET i == calls[c].id
    IN  /\ calls' = [calls EXCEPT ![c] =
              [calls[c] EXCEPT !.at = "done",
                               !.events = Append(calls[c].events, TerminalOf(outcome)),
                               !.answer = [outcome |-> outcome, by |-> c]]]
        /\ stored' = RecordResult(stored, i, outcome, c)
        /\ UNCHANGED <<uses, guarded, acted, crossed>>

End(c) ==
    /\ Inside(c)
    /\ \E outcome \in {"success", "failure", "denied"} :
          /\ outcome # "failure" => c \in acted
          /\ Close(c, outcome)
    /\ running' = running \ {c}

\* withTimeout: the call fails, and its handler runs on.
TimeOut(c) ==
    /\ calls[c].at = "handler"
    /\ ~calls[c].stream
    /\ Close(c, "failure")
    /\ UNCHANGED running

EndLate(c) ==
    /\ c \in running
    /\ ~Inside(c)
    /\ running' = running \ {c}
    /\ UNCHANGED <<calls, stored, uses, guarded, acted, crossed>>

TwinNext ==
    \/ \E c \in Arriving : \E r \in TwinRequests, pure \in PureAnswers : Enter(c, r, pure)
    \/ \E c \in TwinCalls : Act(c) \/ Generator(c) \/ End(c) \/ TimeOut(c) \/ EndLate(c)

TwinSpec == TwinInit /\ [][TwinNext]_twinVars

-----------------------------------------------------------------------------
TwinEvents == {"started", "completed", "failed", "skipped", "denied"}

TwinAnswers ==
    [outcome: {"none", "success", "failure", "denied", "skipped", "approval_required"},
     by: TwinCalls \cup {Nobody}]

CallRecords ==
    [at: {"idle", "handler", "generator", "done"}, id: Ids \cup {NoId}, stream: BOOLEAN,
     mandate: BOOLEAN, events: Seq(TwinEvents), answer: TwinAnswers]

TwinTypeOK ==
    /\ calls \in [TwinCalls -> CallRecords]
    /\ stored \in [Ids -> TwinAnswers]
    /\ uses \subseteq Ids
    /\ running \subseteq TwinCalls /\ acted \subseteq TwinCalls

Started(c) == Has(c, "started")

\* No more invocations run under the mandate than it allows, nor in a
\* correlation than the autonomy budget does, however the calls overlap: nothing
\* waits between the count and what it is a count of.
CapsHold ==
    /\ Cardinality({calls[c].id : c \in {d \in TwinCalls :
                        Started(d) /\ calls[d].mandate}}) <= UseCap
    /\ StartedEvents <= ActionCap

\* An identifier runs once, and its record is the answer of that run, if no two
\* of its requests were in the host at once.
RunsOnce ==
    \A i \in Ids \ crossed : \A c, d \in CallsOf(i) :
        Started(c) =>
            /\ Started(d) => c = d
            /\ calls[c].at = "done" => stored[i] = calls[c].answer

\* What an identifier's run was replayed as once, it is replayed as for good, also
\* when a run that overlapped it ends later and otherwise.
ReplaysAgree ==
    \A c \in TwinCalls :
        LET told == calls[c].answer
        IN  calls[c].at = "done" /\ told.by # c /\ Started(told.by) =>
                stored[calls[c].id] = told

\* "The timeout bounds the RESULT wait": whatever a handler does late, a record
\* that tells of a refusal at the gates is of an identifier that has done nothing.
RefusalsAreClean ==
    \A i \in Ids \ crossed : \A c \in CallsOf(i) :
        stored[i] # NoRecord /\ ~Started(stored[i].by) => c \notin acted

\* Whoever is answered has one terminal event, the last one, which says so, or
\* is told what somebody else's terminal event says.
AnswersAttested ==
    \A c \in TwinCalls : calls[c].at = "done" =>
        LET told == calls[c].answer
        IN  /\ calls[told.by].events # <<>>
            /\ LET events == calls[told.by].events
               IN  /\ events[Len(events)] = TerminalOf(told.outcome)
                   /\ calls[told.by].id = calls[c].id
                   /\ told.by # c => calls[c].events = <<>>

TwinSafe ==
    /\ TwinTypeOK /\ CapsHold /\ RunsOnce
    /\ ReplaysAgree /\ RefusalsAreClean /\ AnswersAttested

\* "Drop it and fall through to execute exactly once": it fails, as in the
\* Python host, for two requests that bring the grant together.
ResumedOnce ==
    \A i \in Ids : Cardinality({c \in CallsOf(i) : Started(c)}) <= 1
=============================================================================
