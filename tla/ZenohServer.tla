------------------------------ MODULE ZenohServer ------------------------------
(***************************************************************************)
(* The host's side of the Zenoh binding (chp_transport_zenoh/server.py):   *)
(* the session's thread delivers queries in the order they come; it        *)
(* answers a health query itself, and puts an invocation into a bounded    *)
(* channel, where it waits while that is full.  The drainer thread moves   *)
(* them on to a pool of workers, which run one at a time each and reply.   *)
(* A handler may take forever.  close may come at any time, and takes      *)
(* three steps.                                                            *)
(***************************************************************************)
EXTENDS Integers, Sequences, FiniteSets

CONSTANTS
    MaxQueries, \* bound on the invocations, which are numbered as they are sent
    QueueSize,  \* CHP_ZENOH_INVOKE_QUEUE
    Workers     \* CHP_ZENOH_INVOKE_WORKERS

ASSUME ZenohConstants ==
    /\ MaxQueries \in Nat
    /\ QueueSize \in Nat \ {0}
    /\ Workers \in Nat \ {0}

VARIABLES
    wire,    \* queries on their way, in order
    channel, \* the FifoChannel of the invoke queryable
    drainer, \* "waiting" in recv, "holding" a query, or "over"
    pool,    \* the executor's queue
    stage,   \* where each query is
    replies, \* how many replies each query has been sent
    binding   \* "open", "stopping", "undeclared", "closed"

zenohVars == <<wire, channel, drainer, pool, stage, replies, binding>>

Queries == 1..MaxQueries
Health == 0
All == Queries \cup {Health}

Running == {q \in Queries : stage[q] \in {"running", "executed", "raised", "replied"}}

-----------------------------------------------------------------------------
ZenohInit ==
    /\ wire = <<>>
    /\ channel = <<>>
    /\ drainer = "waiting"
    /\ pool = <<>>
    /\ stage = [q \in All |-> "unsent"]
    /\ replies = [q \in All |-> 0]
    /\ binding = "open"

Move(q, to) == stage' = [stage EXCEPT ![q] = to]

Reply(q) == replies' = [replies EXCEPT ![q] = @ + 1]

\* session.get of a querier
Send(q) ==
    /\ stage[q] = "unsent"
    /\ \A earlier \in 1..q - 1 : stage[earlier] # "unsent"
    /\ wire' = Append(wire, q)
    /\ Move(q, "wire")
    /\ UNCHANGED <<channel, drainer, pool, replies, binding>>

\* Nobody is there to take it.
Undelivered ==
    /\ wire # <<>>
    /\ binding \in {"undeclared", "closed"}
    /\ wire' = Tail(wire)
    /\ Move(Head(wire), "lost")
    /\ UNCHANGED <<channel, drainer, pool, replies, binding>>

\* _on_health, in the session's thread
AnswerHealth ==
    /\ wire # <<>>
    /\ Head(wire) = Health
    /\ binding \in {"open", "stopping"}
    /\ wire' = Tail(wire)
    /\ Move(Health, "dropped")
    /\ Reply(Health)
    /\ UNCHANGED <<channel, drainer, pool, binding>>

\* The FifoChannel; the session's thread waits while it is full.
EnqueueQuery ==
    /\ wire # <<>>
    /\ Head(wire) # Health
    /\ binding \in {"open", "stopping"}
    /\ Len(channel) < QueueSize
    /\ wire' = Tail(wire)
    /\ channel' = Append(channel, Head(wire))
    /\ Move(Head(wire), "channel")
    /\ UNCHANGED <<drainer, pool, replies, binding>>

\* recv, which raises once the queryable is undeclared.
Drain ==
    /\ drainer = "waiting"
    /\ \/ /\ binding \in {"open", "stopping"}
          /\ channel # <<>>
          /\ drainer' = "holding"
          /\ channel' = Tail(channel)
          /\ Move(Head(channel), "drained")
       \/ /\ binding \in {"undeclared", "closed"}
          /\ drainer' = "over"
          /\ UNCHANGED <<channel, stage>>
    /\ UNCHANGED <<wire, pool, replies, binding>>

\* After a query the thread looks whether the server still drains.
Around == IF binding = "open" THEN "waiting" ELSE "over"

\* submit, which raises once the pool is shut down; that ends the thread.
Submit(q) ==
    /\ stage[q] = "drained"
    /\ IF binding # "closed"
       THEN /\ pool' = Append(pool, q)
            /\ Move(q, "pool")
            /\ drainer' = Around
       ELSE /\ Move(q, "lost")
            /\ drainer' = "over"
            /\ UNCHANGED pool
    /\ UNCHANGED <<wire, channel, replies, binding>>

StartWorker ==
    /\ pool # <<>>
    /\ Cardinality(Running) < Workers
    /\ pool' = Tail(pool)
    /\ Move(Head(pool), "running")
    /\ UNCHANGED <<wire, channel, drainer, replies, binding>>

\* _handle_invoke: a refused caller is answered so, and that is all; the host
\* answers with a result; or parsing or the host raises.
Handle(q) ==
    /\ stage[q] = "running"
    /\ \/ binding # "closed" /\ Reply(q) /\ Move(q, "replied")
       \/ Move(q, "executed") /\ UNCHANGED replies
       \/ Move(q, "raised") /\ UNCHANGED replies
    /\ UNCHANGED <<wire, channel, drainer, pool, binding>>

\* The result is sent, and then the evidence replayed and published, which may
\* raise as well.  The session of a closed server sends nothing.
SendResult(q) ==
    /\ stage[q] = "executed"
    /\ IF binding = "closed"
       THEN Move(q, "raised") /\ UNCHANGED replies
       ELSE /\ Reply(q)
            /\ Move(q, "replied") \/ Move(q, "raised")
    /\ UNCHANGED <<wire, channel, drainer, pool, binding>>

\* Mutant of SendError: the worker dies of the exception.
SendNoError(q) ==
    /\ stage[q] = "raised"
    /\ Move(q, "replied")
    /\ UNCHANGED <<wire, channel, drainer, pool, replies, binding>>

\* except Exception: an error is sent, whatever was sent before.
SendError(q) ==
    /\ stage[q] = "raised"
    /\ IF binding = "closed" THEN UNCHANGED replies ELSE Reply(q)
    /\ Move(q, "replied")
    /\ UNCHANGED <<wire, channel, drainer, pool, binding>>

\* finally: query.drop(), which tells the querier that nothing more will come.
Drop(q) ==
    /\ stage[q] = "replied"
    /\ Move(q, "dropped")
    /\ UNCHANGED <<wire, channel, drainer, pool, replies, binding>>

\* close: _draining is reset, the queryables are undeclared with what the
\* channel holds, and the pool is shut down: queued invocations are cancelled,
\* running ones go on.
Stop ==
    /\ binding = "open"
    /\ binding' = "stopping"
    /\ UNCHANGED <<wire, channel, drainer, pool, stage, replies>>

Undeclare ==
    /\ binding = "stopping"
    /\ binding' = "undeclared"
    /\ channel' = <<>>
    /\ stage' = [q \in All |-> IF stage[q] = "channel" THEN "lost" ELSE stage[q]]
    /\ UNCHANGED <<wire, drainer, pool, replies>>

ShutDown ==
    /\ binding = "undeclared"
    /\ binding' = "closed"
    /\ pool' = <<>>
    /\ stage' = [q \in All |-> IF stage[q] = "pool" THEN "lost" ELSE stage[q]]
    /\ UNCHANGED <<wire, channel, drainer, replies>>

-----------------------------------------------------------------------------
Works(q) == Handle(q) \/ SendResult(q) \/ SendError(q) \/ Drop(q)

Delivers == Undelivered \/ AnswerHealth \/ EnqueueQuery

ZenohNext ==
    \/ \E q \in All : Send(q)
    \/ Delivers
    \/ Drain
    \/ StartWorker
    \/ \E q \in Queries : Submit(q) \/ Works(q)
    \/ Stop
    \/ Undeclare
    \/ ShutDown

\* The session's thread and the drainer go on; an invocation need not end.
ZenohFairness ==
    /\ WF_zenohVars(Delivers)
    /\ WF_zenohVars(Drain)
    /\ WF_zenohVars(\E q \in Queries : Submit(q))

ZenohSpec == ZenohInit /\ [][ZenohNext]_zenohVars /\ ZenohFairness

-----------------------------------------------------------------------------
(***************************************************************************)
(* Properties                                                              *)
(***************************************************************************)
Stages == {"unsent", "wire", "channel", "drained", "pool", "running", "executed",
           "raised", "replied", "dropped", "lost"}

\* Among its parts: each query is in one place.
ZenohTypeOK ==
    /\ stage \in [All -> Stages]
    /\ replies \in [All -> 0..2]
    /\ Len(channel) <= QueueSize
    /\ \A q \in Queries :
          /\ stage[q] = "channel" <=> \E n \in DOMAIN channel : channel[n] = q
          /\ stage[q] = "pool" <=> \E n \in DOMAIN pool : pool[n] = q
    /\ drainer \in {"waiting", "holding", "over"}
    /\ Cardinality({q \in Queries : stage[q] = "drained"})
          = (IF drainer = "holding" THEN 1 ELSE 0)
    /\ binding \in {"open", "stopping", "undeclared", "closed"}

\* "Never raise: a worker that dies without replying would leave the querier
\* hanging": a query that is over without an answer met a server that closes.
SilentOnlyAtClose ==
    \A q \in All :
        (stage[q] \in {"dropped", "lost"} /\ replies[q] = 0) => binding # "open"

\* A long invocation does not starve a health query: it is answered although no
\* invocation ends, unless the server closes.
HealthAnswered == (stage[Health] = "wire") ~> (replies[Health] > 0 \/ binding # "open")

\* A query gets one answer (README: the queriers' consolidation chooses).
OneReply == \A q \in All : replies[q] <= 1

\* Each query is in one place, and none is dropped by a binding that is open.
ZenohSafe == ZenohTypeOK /\ SilentOnlyAtClose
=============================================================================
