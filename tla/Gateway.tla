------------------------------- MODULE Gateway -------------------------------
(***************************************************************************)
(* One invocation identifier on its way from a client (RemoteCapabilityHost*)
(* of chp_core/http.py, which repeats a request under the identifier it    *)
(* chose once) through a gateway (MultiHostRouter.ainvoke, whose result    *)
(* cache spans the owners and its own restarts) to the owners, each with   *)
(* gate 0 and a result table of its own (chp_core/host.py).                *)
(*                                                                         *)
(* An exchange may be refused, or broken after it began: the thread on the *)
(* far side then runs on, and its answer reaches nobody.  Which owner is   *)
(* tried first is Routing's subject; any order is considered here.         *)
(***************************************************************************)
EXTENDS Integers, Sequences, FiniteSets

CONSTANTS
    Owners,      \* of the capability
    MaxRequests, \* bound on the requests under the identifier, first and repeated
    MaxFaults    \* bound on refusals, broken exchanges, deaths and restarts

ASSUME GatewayConstants ==
    /\ IsFiniteSet(Owners)
    /\ MaxRequests \in Nat
    /\ MaxFaults \in Nat

VARIABLES
    client,  \* how each request of the client stands
    gw,      \* the gateway's thread for each request
    exec,    \* what each owner's thread for each request has reached
    cache,   \* the gateway's recorded result
    records, \* each owner's recorded result
    ran,     \* history: how often each owner's handler has run
    runs,    \* history: how often they have run in all
    faults,  \* history: refusals, broken exchanges, deaths, restarts
    paid,    \* history: the faults that may cost another execution
    shaken,  \* history: owners that ran two threads at once, or lost one
    late     \* history: the requests sent after the gateway had a result

gatewayVars == <<client, gw, exec, cache, records, ran, runs, faults, paid, shaken, late>>
counts == <<faults, paid>>
handled == <<ran, runs>>

Requests == 1..MaxRequests

Nothing == [outcome |-> "none"]
Answer(h, outcome) == [outcome |-> outcome, from |-> h, run |-> ran[h]]
NoThread == [at |-> "none", todo |-> <<>>, answer |-> Nothing]
NoExec == [at |-> "none", answer |-> Nothing]
Working == {"gate", "ready", "ran"}

\* The owners in every order the router may try them.
Orders == {s \in [1..Cardinality(Owners) -> Owners] : \A h \in Owners : \E n \in DOMAIN s : s[n] = h}

GwAt(a, where) == gw' = [gw EXCEPT ![a].at = where]
Fault(cost) ==
    /\ faults < MaxFaults
    /\ faults' = faults + 1
    /\ paid' = paid + cost

-----------------------------------------------------------------------------
GatewayInit ==
    /\ client = [a \in Requests |-> "unsent"]
    /\ gw = [a \in Requests |-> NoThread]
    /\ exec = [a \in Requests |-> [h \in Owners |-> NoExec]]
    /\ cache = Nothing
    /\ records = [h \in Owners |-> Nothing]
    /\ ran = [h \in Owners |-> 0]
    /\ runs = 0
    /\ faults = 0
    /\ paid = 0
    /\ shaken = {}
    /\ late = {}

(***************************************************************************)
(* The client: retries of ainvoke, and its application asking again.       *)
(***************************************************************************)
Send(a) ==
    /\ client[a] = "unsent"
    /\ \A b \in 1..a - 1 : client[b] \in {"answered", "broken"}
    /\ client' = [client EXCEPT ![a] = "waiting"]
    /\ GwAt(a, "gate")
    /\ late' = IF cache = Nothing THEN late ELSE late \cup {a}
    /\ UNCHANGED <<exec, cache, records, handled, counts, shaken>>

\* Time-out or connection error, while the gateway's thread runs on.
LoseClient(a) ==
    /\ client[a] = "waiting"
    /\ gw[a].at # "gone"
    /\ Fault(1)
    /\ client' = [client EXCEPT ![a] = "broken"]
    /\ UNCHANGED <<gw, exec, cache, records, handled, shaken, late>>

(***************************************************************************)
(* The gateway                                                             *)
(***************************************************************************)
\* Gate 0, then the candidates.
LookUp(a) ==
    /\ gw[a].at = "gate"
    /\ IF cache # Nothing
       THEN gw' = [gw EXCEPT ![a] = [@ EXCEPT !.at = "answer", !.answer = cache]]
       ELSE \E order \in Orders :
                gw' = [gw EXCEPT ![a] = [@ EXCEPT !.at = "routing", !.todo = order]]
    /\ UNCHANGED <<client, exec, cache, records, handled, counts, shaken, late>>

\* The envelope goes to the next owner under the identifier the client chose.
Call(a) ==
    /\ gw[a].at = "routing"
    /\ gw[a].todo # <<>>
    /\ LET h == Head(gw[a].todo)
       IN  /\ exec' = [exec EXCEPT ![a][h].at = "gate"]
           /\ shaken' = IF \E b \in Requests : exec[b][h].at \in Working
                        THEN shaken \cup {h} ELSE shaken
    /\ GwAt(a, "calling")
    /\ UNCHANGED <<client, cache, records, handled, counts, late>>

NextOwner(a) ==
    gw' = [gw EXCEPT ![a] = [@ EXCEPT !.at = "routing", !.todo = Tail(gw[a].todo)]]

\* ConnectionError: nothing listens, or the key is refused.
Refused(a) ==
    /\ gw[a].at = "routing"
    /\ gw[a].todo # <<>>
    /\ Fault(0)
    /\ NextOwner(a)
    /\ UNCHANGED <<client, exec, cache, records, handled, shaken, late>>

\* ConnectionError: the answer is lost, and the owner's thread runs on ...
BreakCall(a) ==
    /\ gw[a].at = "calling"
    /\ exec[a][Head(gw[a].todo)].at # "dead"
    /\ Fault(1)
    /\ NextOwner(a)
    /\ UNCHANGED <<client, exec, cache, records, handled, shaken, late>>

\* Mutant of FindDead: the last owner is waited for.
FindDeadBeforeLast(a) ==
    /\ gw[a].at = "calling"
    /\ Len(gw[a].todo) > 1
    /\ exec[a][Head(gw[a].todo)].at = "dead"
    /\ NextOwner(a)
    /\ UNCHANGED <<client, exec, cache, records, handled, counts, shaken, late>>

\* ... or has died.
FindDead(a) ==
    /\ gw[a].at = "calling"
    /\ exec[a][Head(gw[a].todo)].at = "dead"
    /\ NextOwner(a)
    /\ UNCHANGED <<client, exec, cache, records, handled, counts, shaken, late>>

\* What the owner answered; a status of 400 or more is raised to the client.
Take(a) ==
    /\ gw[a].at = "calling"
    /\ LET e == exec[a][Head(gw[a].todo)]
       IN  /\ e.at = "replied"
           /\ gw' = [gw EXCEPT ![a] = [@ EXCEPT !.answer = e.answer,
                        !.at = IF e.answer.outcome = "error" THEN "answer" ELSE "record"]]
    /\ UNCHANGED <<client, exec, cache, records, handled, counts, shaken, late>>

\* record_result: the first one wins.  (What an owner replayed is recorded as
\* well: _parse_result has dropped the mark.)
RecordAnswer(a) ==
    /\ gw[a].at = "record"
    /\ cache' = IF cache = Nothing THEN gw[a].answer ELSE cache
    /\ GwAt(a, "answer")
    /\ UNCHANGED <<client, exec, records, handled, counts, shaken, late>>

\* The candidates are exhausted: a denial of the gateway's own.
Unplaced(a) ==
    /\ gw[a].at = "routing"
    /\ gw[a].todo = <<>>
    /\ gw' = [gw EXCEPT ![a] = [@ EXCEPT !.at = "answer",
                                   !.answer = [outcome |-> "unreachable", from |-> "gateway"]]]
    /\ UNCHANGED <<client, exec, cache, records, handled, counts, shaken, late>>

Reply(a) ==
    /\ gw[a].at = "answer"
    /\ GwAt(a, "done")
    /\ client' = [client EXCEPT ![a] = IF @ = "waiting" THEN "answered" ELSE @]
    /\ UNCHANGED <<exec, cache, records, handled, counts, shaken, late>>

\* The gateway's process ends and starts again; its store persists.
RestartGateway ==
    /\ \E a \in Requests : gw[a].at \notin {"none", "done", "gone"}
    /\ Fault(1)
    /\ gw' = [a \in Requests |->
                 IF gw[a].at \in {"none", "done"} THEN gw[a]
                 ELSE [NoThread EXCEPT !.at = "gone"]]
    /\ client' = [a \in Requests |-> IF client[a] = "waiting" THEN "broken" ELSE client[a]]
    /\ UNCHANGED <<exec, cache, records, handled, shaken, late>>

(***************************************************************************)
(* An owner                                                                *)
(***************************************************************************)
ExecAt(a, h, where) == exec' = [exec EXCEPT ![a][h].at = where]
OwnerReplies(a, h, answer) == exec' = [exec EXCEPT ![a][h] = [at |-> "replied", answer |-> answer]]

\* 503 of a full server, before the host is asked.
Shed(a, h) ==
    /\ exec[a][h].at = "gate"
    /\ Fault(0)
    /\ OwnerReplies(a, h, [outcome |-> "error", from |-> h])
    /\ UNCHANGED <<client, gw, cache, records, handled, shaken, late>>

\* Mutant of OwnerGate: the owner keeps no results.
OwnerGateForgets(a, h) ==
    /\ exec[a][h].at = "gate"
    /\ \/ ExecAt(a, h, "ready")
       \/ OwnerReplies(a, h, Answer(h, "denied"))
    /\ UNCHANGED <<client, gw, cache, records, handled, counts, shaken, late>>

\* Gate 0 replays; otherwise the gates deny, which is recorded, or pass.  An
\* owner that is itself a gateway may find nobody, which it does not record.
OwnerGate(a, h) ==
    /\ exec[a][h].at = "gate"
    /\ IF records[h] # Nothing
       THEN OwnerReplies(a, h, records[h]) /\ UNCHANGED records
       ELSE \/ ExecAt(a, h, "ready") /\ UNCHANGED records
            \/ /\ OwnerReplies(a, h, Answer(h, "denied"))
               /\ records' = [records EXCEPT ![h] = Answer(h, "denied")]
            \/ OwnerReplies(a, h, Answer(h, "unreachable")) /\ UNCHANGED records
    /\ UNCHANGED <<client, gw, cache, handled, counts, shaken, late>>

RunHandler(a, h) ==
    /\ exec[a][h].at = "ready"
    /\ ran' = [ran EXCEPT ![h] = @ + 1]
    /\ runs' = runs + 1
    /\ exec' = [exec EXCEPT ![a][h] = [at |-> "ran",
                   answer |-> [outcome |-> "success", from |-> h, run |-> ran[h] + 1]]]
    /\ UNCHANGED <<client, gw, cache, records, counts, shaken, late>>

\* record_result, and the answer goes out: the thread's own result, even where
\* another one was recorded first.
OwnerReply(a, h) ==
    /\ exec[a][h].at = "ran"
    /\ records' = IF records[h] = Nothing
                  THEN [records EXCEPT ![h] = exec[a][h].answer] ELSE records
    /\ ExecAt(a, h, "replied")
    /\ UNCHANGED <<client, gw, cache, handled, counts, shaken, late>>

\* The owner's process dies under its thread.
OwnerDies(a, h) ==
    /\ exec[a][h].at \in Working
    /\ Fault(1)
    /\ ExecAt(a, h, "dead")
    /\ shaken' = shaken \cup {h}
    /\ UNCHANGED <<client, gw, cache, records, handled, late>>

-----------------------------------------------------------------------------
GatewayThread(a) ==
    \/ LookUp(a)
    \/ Call(a)
    \/ FindDead(a)
    \/ Take(a)
    \/ RecordAnswer(a)
    \/ Unplaced(a)
    \/ Reply(a)

OwnerThread(a, h) == OwnerGate(a, h) \/ RunHandler(a, h) \/ OwnerReply(a, h)

GatewayFaults ==
    \/ RestartGateway
    \/ \E a \in Requests :
          \/ LoseClient(a)
          \/ Refused(a)
          \/ BreakCall(a)
          \/ \E h \in Owners : Shed(a, h) \/ OwnerDies(a, h)

GatewayNext ==
    \/ \E a \in Requests :
          Send(a) \/ GatewayThread(a) \/ \E h \in Owners : OwnerThread(a, h)
    \/ GatewayFaults

\* Some thread that can run does; handlers end.
GatewayFairness ==
    WF_gatewayVars(\E a \in Requests :
        GatewayThread(a) \/ \E h \in Owners : OwnerThread(a, h))

GatewaySpec == GatewayInit /\ [][GatewayNext]_gatewayVars /\ GatewayFairness

-----------------------------------------------------------------------------
(***************************************************************************)
(* Properties                                                              *)
(***************************************************************************)
GatewayTypeOK ==
    /\ client \in [Requests -> {"unsent", "waiting", "answered", "broken"}]
    /\ \A a \in Requests :
          /\ gw[a].at \in {"none", "gate", "routing", "calling", "record", "answer",
                           "done", "gone"}
          /\ gw[a].at = "calling" => gw[a].todo # <<>>
          /\ \A h \in Owners : exec[a][h].at \in {"none", "dead", "replied"} \cup Working
    /\ faults \in 0..MaxFaults
    /\ paid \in 0..faults
    /\ shaken \subseteq Owners
    /\ late \subseteq Requests

\* Exactly once, but for what went wrong: every execution of the identifier
\* beyond the first is due to an exchange that was broken, an owner that died
\* or a gateway that restarted; refusals and sheds cost none.
RunsPaid == runs <= 1 + paid

\* "An owner that already executed before the connection dropped replays its
\* recorded result": an owner runs the handler a second time only if two of its
\* threads served the identifier at once or one died.
OwnerReplays == \A h \in Owners : ran[h] > 1 => h \in shaken

\* Requests sent after the gateway had a result get that result, whatever was
\* still under way and across restarts; none of them reaches an owner.
LateRequestsReplay ==
    \A a \in late : /\ gw[a].answer \in {Nothing, cache}
                    /\ \A h \in Owners : exec[a][h] = NoExec

Waiting == \E a \in Requests : client[a] = "waiting"

\* A request that is not lost is answered: none waits for ever.
RequestsEnd == Waiting ~> ~Waiting

\* "A retryable outcome - notably host_unreachable - is NOT cached" (spec
\* section 13.2).
RetryableNotCached == cache.outcome # "unreachable"

\* An identifier is executed again only for what went wrong, by an owner that
\* overlapped or died, and by nobody once the gateway has a result.
GatewaySafe == GatewayTypeOK /\ RunsPaid /\ OwnerReplays /\ LateRequestsReplay
=============================================================================
