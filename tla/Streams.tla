------------------------------- MODULE Streams -------------------------------
(***************************************************************************)
(* One resumable stream: RemoteCapabilityHost.invoke_stream, which pins an *)
(* identifier and reconnects with the last chunk it saw; _invoke_stream,   *)
(* which numbers the frames and drains the generator for a client that has *)
(* gone; ainvoke_stream, which executes or replays from the recorded       *)
(* chunks (chp_core/http.py, chp_core/host.py).                            *)
(*                                                                         *)
(* A delta is the execution it is from and its index in it.  Frames are in *)
(* flight until the client reads them; a connection that breaks loses      *)
(* them, and the server's thread learns of it only when it writes.         *)
(***************************************************************************)
EXTENDS Integers, Sequences

CONSTANTS
    MaxReconnects, \* resume_attempts
    MaxDeltas,     \* bound on the deltas of an execution
    ChunkCap,      \* CHP_STREAM_CACHE_MAX_CHUNKS
    MaxServerFalls \* bound on restarts of the server

ASSUME StreamsConstants ==
    /\ MaxReconnects \in Nat
    /\ MaxDeltas \in Nat
    /\ ChunkCap \in Nat
    /\ MaxServerFalls \in Nat

VARIABLES
    reader,   \* the client: where it is, its attempt, last_id, what its caller got
    wire,     \* the connection of the current attempt: up or not, frames in flight
    serving,  \* the server's thread for each attempt
    recorded, \* the row of the result table
    begun,    \* history: the executions begun, and how many deltas each yielded
    falls     \* history: restarts of the server

streamVars == <<reader, wire, serving, recorded, begun, falls>>

Tries == 0..MaxReconnects

NoRow == [run |-> 0]
Silent == [at |-> "none"]
Live == {"gate", "running", "replaying", "ending"}

Chunk(id, run, index) == [event |-> "chunk", id |-> id, run |-> run, index |-> index]
Result(run, outcome) == [event |-> "result", run |-> run, outcome |-> outcome]

\* What a connection carries is written only while the attempt is the client's
\* current one and its connection is up.
Heard(a) == wire.up /\ reader.attempt = a
Write(a, frame) ==
    wire' = IF Heard(a) THEN [wire EXCEPT !.frames = Append(@, frame)] ELSE wire

ServingAt(a, thread) == serving' = [serving EXCEPT ![a] = thread]

-----------------------------------------------------------------------------
StreamInit ==
    /\ reader = [at |-> "idle", attempt |-> 0, last_id |-> -1, got |-> <<>>,
                 result |-> NoRow]
    /\ wire = [up |-> FALSE, frames |-> <<>>]
    /\ serving = [a \in Tries |-> Silent]
    /\ recorded = NoRow
    /\ begun = <<>>
    /\ falls = 0

(***************************************************************************)
(* The client                                                              *)
(***************************************************************************)
\* The caller starts to iterate.
InvokeStream ==
    /\ reader.at = "idle"
    /\ reader' = [reader EXCEPT !.at = "calling"]
    /\ UNCHANGED <<wire, serving, recorded, begun, falls>>

\* POST /invoke, with Last-Event-ID after a first chunk.
Request ==
    /\ reader.at = "calling"
    /\ ServingAt(reader.attempt, [at |-> "gate", resume |-> reader.last_id])
    /\ wire' = [up |-> TRUE, frames |-> <<>>]
    /\ reader' = [reader EXCEPT !.at = "reading"]
    /\ UNCHANGED <<recorded, begun, falls>>

Retry(r) ==
    IF r.attempt = MaxReconnects THEN [r EXCEPT !.at = "raised"]
    ELSE [r EXCEPT !.at = "calling", !.attempt = @ + 1]

\* Refused, timed out or broken, with what was in flight; the thread runs on.
Disconnect ==
    /\ reader.at \in {"calling", "reading"}
    /\ reader' = Retry(reader)
    /\ wire' = [up |-> FALSE, frames |-> <<>>]
    /\ UNCHANGED <<serving, recorded, begun, falls>>

ReadChunk ==
    /\ reader.at = "reading"
    /\ wire.frames # <<>>
    /\ LET f == Head(wire.frames)
       IN  /\ f.event = "chunk"
           /\ reader' = IF f.id <= reader.last_id THEN reader
                        ELSE [reader EXCEPT !.last_id = f.id,
                                 !.got = Append(@, <<f.run, f.index>>)]
    /\ wire' = [wire EXCEPT !.frames = Tail(@)]
    /\ UNCHANGED <<serving, recorded, begun, falls>>

\* The terminal frame, or a plain JSON answer.
ReadResult ==
    /\ reader.at = "reading"
    /\ wire.frames # <<>>
    /\ Head(wire.frames).event = "result"
    /\ reader' = [reader EXCEPT !.at = "returned",
                     !.result = [run |-> Head(wire.frames).run,
                                 outcome |-> Head(wire.frames).outcome]]
    /\ wire' = [up |-> FALSE, frames |-> <<>>]
    /\ UNCHANGED <<serving, recorded, begun, falls>>

(***************************************************************************)
(* The server's thread of attempt a                                        *)
(***************************************************************************)
\* Gate 0 finds nothing: an execution begins, whatever chunk the client saw
\* last; the other gates deny, which is recorded, or pass.
Execute(a) ==
    /\ serving[a].at = "gate"
    /\ recorded = NoRow
    /\ begun' = Append(begun, 0)
    /\ ServingAt(a, [at |-> "running", resume |-> serving[a].resume,
                     run |-> Len(begun) + 1, sse |-> FALSE])
    /\ UNCHANGED <<reader, wire, recorded, falls>>

\* Mutant of Replay: the slice starts one chunk too late.
ReplayLate(a) ==
    /\ serving[a].at = "gate"
    /\ recorded # NoRow
    /\ ServingAt(a, [at |-> "replaying", resume |-> serving[a].resume,
                     run |-> recorded.run, next |-> serving[a].resume + 2, sse |-> FALSE])
    /\ UNCHANGED <<reader, wire, recorded, begun, falls>>

\* It finds the row: the recorded chunks after the one the client saw last.
Replay(a) ==
    /\ serving[a].at = "gate"
    /\ recorded # NoRow
    /\ ServingAt(a, [at |-> "replaying", resume |-> serving[a].resume,
                     run |-> recorded.run, next |-> serving[a].resume + 1, sse |-> FALSE])
    /\ UNCHANGED <<reader, wire, recorded, begun, falls>>

\* The handler yields a delta; the first one commits the answer to SSE, and the
\* frames are numbered from the chunk after the one the client saw last.
Yield(a) ==
    /\ serving[a].at = "running"
    /\ LET run == serving[a].run
           index == begun[run]
       IN  /\ index < MaxDeltas
           /\ begun' = [begun EXCEPT ![run] = @ + 1]
           /\ Write(a, Chunk(serving[a].resume + 1 + index, run, index))
    /\ ServingAt(a, [serving[a] EXCEPT !.sse = TRUE])
    /\ UNCHANGED <<reader, recorded, falls>>

ReplayChunk(a) ==
    /\ serving[a].at = "replaying"
    /\ serving[a].next < recorded.chunks
    /\ Write(a, Chunk(serving[a].next, recorded.run, serving[a].next))
    /\ ServingAt(a, [serving[a] EXCEPT !.next = @ + 1, !.sse = TRUE])
    /\ UNCHANGED <<reader, recorded, begun, falls>>

\* The recorded result ends a replay.
ReplayResult(a) ==
    /\ serving[a].at = "replaying"
    /\ serving[a].next >= recorded.chunks
    /\ Write(a, Result(recorded.run, recorded.outcome))
    /\ ServingAt(a, [at |-> "ended"])
    /\ UNCHANGED <<reader, recorded, begun, falls>>

\* The client had gone when the headers were sent: the write raises, and the
\* generator is closed at its first chunk.  (Later writes do not raise.)
HeadersFail(a) ==
    /\ serving[a].at \in {"running", "replaying"}
    /\ ~serving[a].sse
    /\ ~Heard(a)
    /\ IF serving[a].at = "running"
       THEN /\ begun[serving[a].run] < MaxDeltas
            /\ begun' = [begun EXCEPT ![serving[a].run] = @ + 1]
       ELSE serving[a].next < recorded.chunks /\ UNCHANGED begun
    /\ ServingAt(a, [at |-> "closed"])
    /\ UNCHANGED <<reader, wire, recorded, falls>>

\* _record_result: a failure has no chunks, nor a success with too many.
RowOf(run, outcome) ==
    [run |-> run, outcome |-> outcome,
     chunks |-> IF outcome = "success" /\ begun[run] <= ChunkCap THEN begun[run] ELSE 0]

\* The handler ends or raises: the result is recorded (the first one stays) ...
EndExecution(a, outcome) ==
    /\ serving[a].at = "running"
    /\ recorded' = IF recorded = NoRow THEN RowOf(serving[a].run, outcome) ELSE recorded
    /\ ServingAt(a, [at |-> "ending", run |-> serving[a].run, outcome |-> outcome])
    /\ UNCHANGED <<reader, wire, begun, falls>>

\* ... and sent.
SendResult(a) ==
    /\ serving[a].at = "ending"
    /\ Write(a, Result(serving[a].run, serving[a].outcome))
    /\ ServingAt(a, [at |-> "ended"])
    /\ UNCHANGED <<reader, recorded, begun, falls>>

\* The server's process dies and is started again; the table persists.
ServerFalls ==
    /\ falls < MaxServerFalls
    /\ falls' = falls + 1
    /\ serving' = [a \in Tries |-> IF serving[a].at \in Live THEN [at |-> "dead"] ELSE serving[a]]
    /\ wire' = [up |-> FALSE, frames |-> <<>>]
    /\ reader' = IF reader.at = "reading" THEN Retry(reader) ELSE reader
    /\ UNCHANGED <<recorded, begun>>

-----------------------------------------------------------------------------
Reader == InvokeStream \/ Request \/ Disconnect \/ ReadChunk \/ ReadResult

Outcomes == {"success", "failure"}

Server(a) ==
    \/ Execute(a)
    \/ Replay(a)
    \/ Yield(a)
    \/ ReplayChunk(a)
    \/ ReplayResult(a)
    \/ HeadersFail(a)
    \/ \E outcome \in Outcomes : EndExecution(a, outcome)
    \/ SendResult(a)

StreamNext ==
    \/ Reader
    \/ ServerFalls
    \/ \E a \in Tries : Server(a)

\* The client reads on, and a thread of the server that can run does.
StreamFairness ==
    /\ WF_streamVars(Request \/ ReadChunk \/ ReadResult)
    /\ \A a \in Tries : WF_streamVars(Server(a))

StreamSpec == StreamInit /\ [][StreamNext]_streamVars /\ StreamFairness

-----------------------------------------------------------------------------
(***************************************************************************)
(* Properties                                                              *)
(***************************************************************************)
StreamTypeOK ==
    /\ reader.at \in {"idle", "calling", "reading", "returned", "raised"}
    /\ reader.attempt \in Tries
    /\ reader.last_id \in -1..(MaxReconnects + 1) * (MaxDeltas + 1)
    /\ \A a \in Tries : serving[a].at \in {"none", "ended", "closed", "dead"} \cup Live
    /\ recorded.run \in 0..Len(begun)
    /\ Len(begun) <= MaxReconnects + 1
    /\ \A n \in DOMAIN begun : begun[n] \in 0..MaxDeltas

\* The first n deltas of an execution.
Deltas(run, n) == [i \in 1..n |-> <<run, i - 1>>]

\* "One seamless delta sequence": what the caller has got is the beginning of
\* what one execution yielded.
Seamless == \E run \in DOMAIN begun \cup {1} : reader.got = Deltas(run, Len(reader.got))

\* It is, wherever the connection broke and however often, if the identifier
\* was executed once: the frames of a replay continue those of the execution.
SeamlessOnceExecuted == Len(begun) = 1 => Seamless

\* And it is all of it by the time the call returns a success, unless the stream
\* was too long to keep.
CompleteOnceExecuted ==
    (Len(begun) = 1 /\ reader.at = "returned" /\ reader.result.outcome = "success"
        /\ (reader.attempt > 0 => begun[1] <= ChunkCap))
        => reader.got = Deltas(1, begun[1])

\* An execution whose client has gone is drained to its end and recorded, unless
\* the client had gone before the first chunk or the server fell.
Abandoned == \E a \in Tries : serving[a].at \in {"closed", "dead"}
DrainedForResume == Len(begun) > 0 ~> (recorded # NoRow \/ Abandoned)

\* The call returns or raises.
StreamCallEnds == reader.at = "calling" ~> reader.at \in {"returned", "raised"}

\* Evidence brackets the stream: an execution that was started is completed or
\* has failed, however its client behaves.
BracketCloses == \A a \in Tries : serving[a].at # "closed"

\* A resumed stream is the one that was executed: nothing missing, nothing twice.
StreamSafe == StreamTypeOK /\ SeamlessOnceExecuted /\ CompleteOnceExecuted
=============================================================================
