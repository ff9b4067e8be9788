----------------------------- MODULE HostProcess -----------------------------
(***************************************************************************)
(* A host process from start to exit: the HTTP server of chp_core/http.py  *)
(* with its in-flight count, its concurrency cap and its SIGTERM drain,    *)
(* and the background jobs of chp-adapter-jobs, whose rows outlive it.     *)
(*                                                                         *)
(* Handler threads are daemons, killed when the interpreter ends; the      *)
(* workers of the jobs' thread pool are not, and the interpreter waits for *)
(* them and for what is queued, whatever the drain's deadline.  Every      *)
(* request has a connection of its own (the server speaks HTTP/1.0).       *)
(***************************************************************************)
EXTENDS Integers, FiniteSets

CONSTANTS
    Requests,       \* each has a connection
    Jobs,           \* those that may submit a job, which bears their name
    MaxConcurrency, \* CHP_HOST_MAX_CONCURRENCY
    MaxWorkers,     \* of the jobs' thread pool
    BusyErrors      \* may the jobs database refuse a write (its lock is held)

ASSUME HostProcessConstants ==
    /\ IsFiniteSet(Requests)
    /\ Jobs \subseteq Requests
    /\ MaxConcurrency \in Nat \ {0}
    /\ MaxWorkers \in Nat \ {0}
    /\ BusyErrors \in BOOLEAN

VARIABLES
    process,   \* "up", "draining", "exiting" or "down"
    listening, \* the server accepts connections
    late,      \* the drain's deadline has passed
    conn,      \* what each request's handler thread has reached
    inflight,  \* _inflight
    slots,     \* what is left of _concurrency
    row,       \* jobs.status, "none" without a row
    worker,    \* what the thread pool does with the job
    runs,      \* history: how often the job's target has been run
    awaited,   \* history: the requests in flight when SIGTERM arrived
    told,      \* history: the verdict a poller was given
    unwritten, \* history: the jobs whose status could not be written
    disturbed  \* history: the live jobs another process has interrupted

server == <<process, listening, late, awaited>>
requests == <<conn, inflight, slots>>
jobs == <<row, worker, runs, told, unwritten, disturbed>>
vars == <<server, requests, jobs>>

Settled == {"completed", "failed", "interrupted"}
Counted == {"counted", "serving", "created", "shedding", "written"}
Holding == {"serving", "created"}
Past == {"answered", "shed", "dropped", "late", "killed"}

Alive == process # "down"
Busy(j) == worker[j] \in {"started", "ran"}

Reach(r, where) == conn' = [conn EXCEPT ![r] = where]

-----------------------------------------------------------------------------
Init ==
    /\ process = "up"
    /\ listening = TRUE
    /\ late = FALSE
    /\ conn = [r \in Requests |-> "none"]
    /\ inflight = 0
    /\ slots = MaxConcurrency
    /\ row = [j \in Jobs |-> "none"]
    /\ worker = [j \in Jobs |-> "none"]
    /\ runs = [j \in Jobs |-> 0]
    /\ awaited = {}
    /\ told = [j \in Jobs |-> "none"]
    /\ unwritten = {}
    /\ disturbed = {}

(***************************************************************************)
(* A request                                                               *)
(***************************************************************************)
\* The server accepts and starts a handler thread.
Accept(r) ==
    /\ Alive
    /\ listening
    /\ conn[r] = "none"
    /\ Reach(r, "accepted")
    /\ UNCHANGED <<server, inflight, slots, jobs>>

\* handle: the thread counts itself.
Enter(r) ==
    /\ Alive
    /\ conn[r] = "accepted"
    /\ Reach(r, "counted")
    /\ inflight' = inflight + 1
    /\ UNCHANGED <<server, slots, jobs>>

\* _guarded: a slot, or a 503.
Admit(r) ==
    /\ Alive
    /\ conn[r] = "counted"
    /\ IF slots > 0
       THEN Reach(r, "serving") /\ slots' = slots - 1
       ELSE Reach(r, "shedding") /\ UNCHANGED slots
    /\ UNCHANGED <<server, inflight, jobs>>

\* The response is written and the slot released.
Respond(r) ==
    /\ Alive
    /\ conn[r] = "serving"
    /\ Reach(r, "written")
    /\ slots' = slots + 1
    /\ UNCHANGED <<server, inflight, jobs>>

End(r) ==
    /\ Alive
    /\ conn[r] \in {"written", "shedding"}
    /\ Reach(r, IF conn[r] = "written" THEN "answered" ELSE "shed")
    /\ inflight' = inflight - 1
    /\ UNCHANGED <<server, slots, jobs>>

\* jobs.result or jobs.status.
Poll(r, j) ==
    /\ Alive
    /\ conn[r] = "serving"
    /\ row[j] \in Settled
    /\ told' = [told EXCEPT ![j] = row[j]]
    /\ UNCHANGED <<server, requests, row, worker, runs, unwritten, disturbed>>

(***************************************************************************)
(* A job                                                                   *)
(***************************************************************************)
\* submit: the row first ...
Create(r) ==
    /\ Alive
    /\ conn[r] = "serving"
    /\ r \in Jobs
    /\ row[r] = "none"
    /\ row' = [row EXCEPT ![r] = "submitted"]
    /\ Reach(r, "created")
    /\ UNCHANGED <<server, inflight, slots, worker, runs, told, unwritten, disturbed>>

\* ... then the thread pool, which takes nothing once the interpreter ends.
Enqueue(r) ==
    /\ Alive
    /\ conn[r] = "created"
    /\ worker' = IF process = "exiting" THEN worker ELSE [worker EXCEPT ![r] = "queued"]
    /\ Reach(r, "serving")
    /\ UNCHANGED <<server, inflight, slots, row, runs, told, unwritten, disturbed>>

\* _run_job: mark_running, unconditionally.
Start(j) ==
    /\ Alive
    /\ worker[j] = "queued"
    /\ Cardinality({k \in Jobs : Busy(k)}) < MaxWorkers
    /\ row' = [row EXCEPT ![j] = "running"]
    /\ worker' = [worker EXCEPT ![j] = "started"]
    /\ UNCHANGED <<server, requests, runs, told, unwritten, disturbed>>

\* Not written, the job ends before its target has run.
StartFails(j) ==
    /\ BusyErrors
    /\ Alive
    /\ worker[j] = "queued"
    /\ Cardinality({k \in Jobs : Busy(k)}) < MaxWorkers
    /\ worker' = [worker EXCEPT ![j] = "none"]
    /\ unwritten' = unwritten \cup {j}
    /\ UNCHANGED <<server, requests, row, runs, told, disturbed>>

RunTarget(j) ==
    /\ Alive
    /\ worker[j] = "started"
    /\ worker' = [worker EXCEPT ![j] = "ran"]
    /\ runs' = [runs EXCEPT ![j] = @ + 1]
    /\ UNCHANGED <<server, requests, row, told, unwritten, disturbed>>

\* mark_done, unconditionally.
Finish(j, status) ==
    /\ Alive
    /\ worker[j] = "ran"
    /\ status \in {"completed", "failed"}
    /\ row' = [row EXCEPT ![j] = status]
    /\ worker' = [worker EXCEPT ![j] = "none"]
    /\ UNCHANGED <<server, requests, runs, told, unwritten, disturbed>>

\* Neither mark_done nor the one of the except clause is written.
FinishFails(j) ==
    /\ BusyErrors
    /\ Alive
    /\ worker[j] = "ran"
    /\ worker' = [worker EXCEPT ![j] = "none"]
    /\ unwritten' = unwritten \cup {j}
    /\ UNCHANGED <<server, requests, row, runs, told, disturbed>>

(***************************************************************************)
(* The process                                                             *)
(***************************************************************************)
\* _drain: SIGTERM.
Sigterm ==
    /\ process = "up"
    /\ process' = "draining"
    /\ awaited' = {r \in Requests : conn[r] \in Counted}
    /\ UNCHANGED <<listening, late, requests, jobs>>

\* The thread of server.shutdown() gets through.
StopListening ==
    /\ process = "draining"
    /\ listening
    /\ listening' = FALSE
    /\ UNCHANGED <<process, late, awaited, requests, jobs>>

Deadline ==
    /\ process = "draining"
    /\ ~late
    /\ late' = TRUE
    /\ UNCHANGED <<process, listening, awaited, requests, jobs>>

\* Mutant of DrainEnd: the in-flight count is not consulted.
DrainEndAtOnce ==
    /\ process = "draining"
    /\ process' = "exiting"
    /\ listening' = FALSE
    /\ UNCHANGED <<late, awaited, requests, jobs>>

\* The poll finds nothing in flight, or the deadline has passed; server_close,
\* SystemExit.
DrainEnd ==
    /\ process = "draining"
    /\ inflight = 0 \/ late
    /\ process' = "exiting"
    /\ listening' = FALSE
    /\ UNCHANGED <<late, awaited, requests, jobs>>

Down(how) ==
    /\ process' = "down"
    /\ listening' = FALSE
    /\ conn' = [r \in Requests |->
                   IF conn[r] \in {"none"} \cup Past THEN conn[r] ELSE how]
    /\ worker' = [j \in Jobs |-> "none"]
    /\ UNCHANGED <<late, awaited, inflight, slots, row, runs, told, unwritten, disturbed>>

\* The thread pool has run dry.
Exit ==
    /\ process = "exiting"
    /\ \A j \in Jobs : worker[j] = "none"
    /\ Down(IF late THEN "late" ELSE "dropped")

\* SIGKILL or a crash.
Kill ==
    /\ Alive
    /\ Down("killed")

\* reconcile_interrupted
Interrupt ==
    row' = [j \in Jobs |->
               IF row[j] \in {"submitted", "running"} THEN "interrupted" ELSE row[j]]

\* Mutant of Restart: the rows are left as they are.
RestartWithoutReconcile ==
    /\ process = "down"
    /\ process' = "up"
    /\ listening' = TRUE
    /\ late' = FALSE
    /\ awaited' = {}
    /\ inflight' = 0
    /\ slots' = MaxConcurrency
    /\ UNCHANGED <<conn, jobs>>

Restart ==
    /\ process = "down"
    /\ process' = "up"
    /\ listening' = TRUE
    /\ late' = FALSE
    /\ awaited' = {}
    /\ inflight' = 0
    /\ slots' = MaxConcurrency
    /\ Interrupt
    /\ UNCHANGED <<conn, worker, runs, told, unwritten, disturbed>>

\* Another process on the machine builds its JobsAdapter.
OtherStarts ==
    /\ Interrupt
    /\ disturbed' = disturbed \cup
          {j \in Jobs : /\ row'[j] # row[j]
                        /\ worker[j] # "none" \/ conn[j] = "created"}
    /\ UNCHANGED <<server, requests, worker, runs, told, unwritten>>

-----------------------------------------------------------------------------
Serve ==
    \E r \in Requests :
        \/ Accept(r)
        \/ Enter(r)
        \/ Admit(r)
        \/ Create(r)
        \/ Enqueue(r)
        \/ Respond(r)
        \/ End(r)
        \/ \E j \in Jobs : Poll(r, j)

Job(j) ==
    \/ Start(j)
    \/ StartFails(j)
    \/ RunTarget(j)
    \/ \E status \in {"completed", "failed"} : Finish(j, status)
    \/ FinishFails(j)

Lifecycle ==
    \/ Sigterm
    \/ StopListening
    \/ Deadline
    \/ DrainEnd
    \/ Exit
    \/ Kill
    \/ Restart
    \/ OtherStarts

Next == Serve \/ Lifecycle \/ \E j \in Jobs : Job(j)

\* The threads of a live process run, the clock reaches the deadline and the
\* service manager starts the process again.  A job's target ends, but a request
\* may be served for ever; clients, signals and crashes come as they like.
Fairness ==
    /\ \A j \in Jobs : WF_vars(Job(j))
    /\ \A r \in Requests : WF_vars(Enter(r) \/ Admit(r) \/ Enqueue(r) \/ End(r))
    /\ WF_vars(StopListening)
    /\ WF_vars(Deadline)
    /\ WF_vars(DrainEnd)
    /\ WF_vars(Exit)
    /\ WF_vars(Restart)

Spec == Init /\ [][Next]_vars /\ Fairness

-----------------------------------------------------------------------------
(***************************************************************************)
(* Properties                                                              *)
(***************************************************************************)
TypeOK ==
    /\ process \in {"up", "draining", "exiting", "down"}
    /\ listening \in BOOLEAN
    /\ late \in BOOLEAN
    /\ conn \in [Requests -> {"none", "accepted"} \cup Counted \cup Past]
    /\ inflight \in 0..Cardinality(Requests)
    /\ slots \in 0..MaxConcurrency
    /\ row \in [Jobs -> {"none", "submitted", "running"} \cup Settled]
    /\ worker \in [Jobs -> {"none", "queued", "started", "ran"}]
    /\ runs \in [Jobs -> Nat]
    /\ awaited \subseteq Requests
    /\ told \in [Jobs -> {"none"} \cup Settled]
    /\ unwritten \cup disturbed \subseteq Jobs

\* The counts are exact through sheds, failures and restarts: what the drain
\* polls is the number of counted handlers, and a slot is missing for each
\* request that runs.
CountsExact ==
    Alive => /\ inflight = Cardinality({r \in Requests : conn[r] \in Counted})
             /\ slots + Cardinality({r \in Requests : conn[r] \in Holding}) = MaxConcurrency

\* "Waits for in-flight requests": a request counted when SIGTERM arrived is
\* answered, unless the deadline has passed or the process is killed.
DrainAnswersCounted == \A r \in awaited : conn[r] # "dropped"

\* A job's target runs at most once, across crashes and restarts, and not after
\* its poller was told a verdict (unless another process gave that verdict).
RunsOnce ==
    \A j \in Jobs :
        /\ runs[j] <= 1
        /\ told[j] # "none" /\ j \notin disturbed => worker[j] = "none"

\* "A definitive answer": the verdict a poller was given is the verdict for good.
DefinitiveAnswer == \A j \in Jobs : told[j] # "none" => row[j] = told[j]

\* It is, but for the jobs another process has interrupted while they ran.
VerdictFinal ==
    \A j \in Jobs : told[j] # "none" /\ j \notin disturbed => row[j] = told[j]

\* Nobody polls forever: a submitted job is settled, by its worker or by the next
\* start, unless the database refused its status.
JobsSettled ==
    \A j \in Jobs : row[j] = "submitted" ~> (row[j] \in Settled \/ j \in unwritten)

\* A process that was told to stop stops.
DrainEnds == process = "draining" ~> process = "down"

\* "Stops accepting, waits for in-flight requests up to CHP_DRAIN_TIMEOUT_S": an
\* accepted request is not cut off before the deadline.
DrainLosesNone == \A r \in Requests : conn[r] # "dropped"

\* Shutdowns, crashes and restarts lose no counted request before the deadline,
\* leak no slot, run no job twice and change no verdict.
ProcessSafe ==
    /\ TypeOK
    /\ CountsExact
    /\ DrainAnswersCounted
    /\ RunsOnce
    /\ VerdictFinal
=============================================================================
