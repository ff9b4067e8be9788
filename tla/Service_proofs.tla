----------------------------- MODULE Service_proofs -----------------------------
(***************************************************************************)
(* Proofs about the parts a host process is made of: its server            *)
(* (HostProcess), its state machines (StateMachine), its token bucket      *)
(* (Admission) and its version ranges (Semver).  The parts share nothing   *)
(* but the process; each has its own section.                              *)
(***************************************************************************)
EXTENDS HostProcess, StateMachine, Admission, Semver, FiniteSetTheorems,
        SequenceTheorems, TLAPS

-----------------------------------------------------------------------------
(***************************************************************************)
(* Proofs about HostProcess, for any number of requests and jobs, any cap  *)
(* on either, and any interleaving of signals, crashes, restarts and       *)
(* refused writes.                                                         *)
(***************************************************************************)

-----------------------------------------------------------------------------
(***************************************************************************)
(* The counts                                                              *)
(***************************************************************************)
\* The requests by where their handler threads are.
At(places) == {r \in Requests : conn[r] \in places}

Inside == {"accepted"} \cup Counted

\* What the two counters stand for while the process lives; nobody is inside
\* while it does not.
CountsInv ==
    /\ CountsExact
    /\ Alive \/ At(Inside) = {}

\* The sets of requests are finite, and no larger than their number.
LEMMA Finite ==
    ASSUME NEW places
    PROVE  /\ IsFiniteSet(At(places))
           /\ Cardinality(At(places)) \in Nat
           /\ Cardinality(At(places)) <= Cardinality(Requests)
           /\ Cardinality(Requests) \in Nat
<1>1. At(places) \subseteq Requests /\ IsFiniteSet(Requests)
    BY HostProcessConstants DEF At, HostProcessConstants
<1> QED
    BY <1>1, FS_Subset, FS_CardinalityType

\* A thread that comes to one of the places is one more there ...
LEMMA CountIn ==
    ASSUME TypeOK, NEW r \in Requests, NEW where, Reach(r, where), NEW places,
           where \in places, conn[r] \notin places
    PROVE  Cardinality(At(places)') = Cardinality(At(places)) + 1
<1>1. At(places)' = At(places) \cup {r} /\ r \notin At(places)
    BY DEF At, Reach, TypeOK
<1>2. IsFiniteSet(At(places))
    BY Finite
<1>3. Cardinality(At(places) \cup {r}) = Cardinality(At(places)) + 1
    BY <1>1, <1>2, FS_AddElement
<1> QED
    BY <1>1, <1>3

\* ... one that leaves them is one less ...
LEMMA CountOut ==
    ASSUME TypeOK, NEW r \in Requests, NEW where, Reach(r, where), NEW places,
           where \notin places, conn[r] \in places
    PROVE  Cardinality(At(places)') = Cardinality(At(places)) - 1
<1>1. At(places)' = At(places) \ {r} /\ r \in At(places)
    BY DEF At, Reach, TypeOK
<1>2. IsFiniteSet(At(places))
    BY Finite
<1>3. Cardinality(At(places) \ {r}) = Cardinality(At(places)) - 1
    BY <1>1, <1>2, FS_RemoveElement
<1> QED
    BY <1>1, <1>3

\* ... and one that moves among them, or among the others, changes nothing.
LEMMA CountSame ==
    ASSUME TypeOK, NEW r \in Requests, NEW where, Reach(r, where), NEW places,
           where \in places <=> conn[r] \in places
    PROVE  At(places)' = At(places)
    BY DEF At, Reach, TypeOK

\* Each handler thread keeps the counters in step with what it does.
LEMMA ServeCounts ==
    ASSUME TypeOK, CountsInv, Serve
    PROVE  CountsInv'
<1> USE DEF Counted, Holding
<1>1. /\ Alive /\ Alive'
      /\ inflight = Cardinality(At(Counted))
      /\ slots + Cardinality(At(Holding)) = MaxConcurrency
    BY DEF Serve, Accept, Enter, Admit, Create, Enqueue, Respond, End, Poll, Alive, server,
           requests, CountsInv, CountsExact, At
<1>2. /\ inflight \in Int /\ slots \in Int /\ MaxConcurrency \in Int
      /\ Cardinality(At(Counted)) \in Nat /\ Cardinality(At(Holding)) \in Nat
    BY Finite, HostProcessConstants DEF TypeOK, HostProcessConstants
<1> SUFFICES /\ inflight' = Cardinality(At(Counted)')
             /\ slots' + Cardinality(At(Holding)') = MaxConcurrency
    BY <1>1 DEF CountsInv, CountsExact, At
<1>3. PICK r \in Requests : \/ Accept(r) \/ Enter(r) \/ Admit(r) \/ Create(r) \/ Enqueue(r)
                            \/ Respond(r) \/ End(r) \/ \E j \in Jobs : Poll(r, j)
    BY DEF Serve
<1>4. CASE Accept(r)
    BY <1>1, <1>4, CountSame DEF Accept
<1>5. CASE Enter(r)
    BY <1>1, <1>5, CountSame, CountIn DEF Enter
<1>6. CASE Admit(r)
  <2>1. CASE slots > 0
    <3>1. Reach(r, "serving") /\ conn[r] = "counted" /\ slots' = slots - 1 /\ inflight' = inflight
        BY <1>6, <2>1 DEF Admit
    <3>2. Cardinality(At(Holding)') = Cardinality(At(Holding)) + 1
        BY <3>1, CountIn
    <3>3. At(Counted)' = At(Counted)
        BY <3>1, CountSame
    <3> QED
        BY <1>1, <1>2, <3>1, <3>2, <3>3
  <2>2. CASE ~(slots > 0)
    BY <1>1, <1>6, <2>2, CountSame DEF Admit
  <2> QED
    BY <2>1, <2>2
<1>7. CASE Create(r)
    BY <1>1, <1>7, CountSame DEF Create
<1>8. CASE Enqueue(r)
    BY <1>1, <1>8, CountSame DEF Enqueue
<1>9. CASE Respond(r)
  <2>1. Reach(r, "written") /\ conn[r] = "serving" /\ slots' = slots + 1 /\ inflight' = inflight
    BY <1>9 DEF Respond
  <2>2. Cardinality(At(Holding)') = Cardinality(At(Holding)) - 1
    BY <2>1, CountOut
  <2>3. At(Counted)' = At(Counted)
    BY <2>1, CountSame
  <2> QED
    BY <1>1, <1>2, <2>1, <2>2, <2>3
<1>10. CASE End(r)
  <2>1. PICK where \in {"answered", "shed"} : Reach(r, where)
    BY <1>10 DEF End
  <2>2. conn[r] \in {"written", "shedding"} /\ inflight' = inflight - 1 /\ slots' = slots
    BY <1>10 DEF End
  <2>3. Cardinality(At(Counted)') = Cardinality(At(Counted)) - 1
    BY <2>1, <2>2, CountOut
  <2>4. At(Holding)' = At(Holding)
    BY <2>1, <2>2, CountSame
  <2> QED
    BY <1>1, <1>2, <2>2, <2>3, <2>4
<1>11. CASE \E j \in Jobs : Poll(r, j)
    BY <1>1, <1>11 DEF Poll, requests, At
<1> QED
    BY <1>3, <1>4, <1>5, <1>6, <1>7, <1>8, <1>9, <1>10, <1>11

\* When the process goes down every thread is over.
LEMMA DownEnds ==
    ASSUME TypeOK, NEW how \in Past, Down(how)
    PROVE  /\ process' = "down"
           /\ \A r \in Requests : conn'[r] = IF conn[r] \in {"none"} \cup Past THEN conn[r]
                                             ELSE how
           /\ At(Inside)' = {}
    BY DEF Down, At, Inside, Counted, Past, TypeOK

\* Every step keeps the counters exact.
LEMMA NextCounts ==
    ASSUME TypeOK, CountsInv, [Next]_vars
    PROVE  CountsInv'
<1>1. CASE Serve
    BY <1>1, ServeCounts
<1>2. CASE (\E j \in Jobs : Job(j)) \/ OtherStarts \/ UNCHANGED vars
  <2>1. UNCHANGED <<process, conn, inflight, slots>>
    BY <1>2 DEF Job, Start, StartFails, RunTarget, Finish, FinishFails, OtherStarts, server,
                requests, vars
  <2> QED
    BY <2>1 DEF CountsInv, CountsExact, Alive, At
<1>3. CASE Sigterm \/ StopListening \/ Deadline \/ DrainEnd
  <2>1. Alive /\ Alive' /\ UNCHANGED requests
    BY <1>3 DEF Sigterm, StopListening, Deadline, DrainEnd, Alive
  <2> QED
    BY <2>1 DEF CountsInv, CountsExact, At, requests
<1>4. CASE Exit \/ Kill
    BY <1>4, DownEnds DEF Exit, Kill, Past, CountsInv, CountsExact, Alive
<1>5. CASE Restart
  <2>1. At(Inside)' = {} /\ inflight' = 0 /\ slots' = MaxConcurrency
    BY <1>5 DEF Restart, CountsInv, Alive, At
  <2>2. At(Counted)' = {} /\ At(Holding)' = {}
    BY <2>1 DEF At, Inside, Counted, Holding
  <2>3. Cardinality(At(Counted)') = 0 /\ Cardinality(At(Holding)') = 0
    BY <2>2, FS_EmptySet
  <2> QED
    BY <1>5, <2>1, <2>3, HostProcessConstants
       DEF Restart, CountsInv, CountsExact, Alive, At, HostProcessConstants
<1> QED
    BY <1>1, <1>2, <1>3, <1>4, <1>5 DEF Next, Lifecycle

\* Types survive every step; the counters stay in range because they are exact.
LEMMA NextTypes ==
    ASSUME TypeOK, CountsInv, [Next]_vars
    PROVE  TypeOK'
<1>1. inflight' \in 0..Cardinality(Requests) /\ slots' \in 0..MaxConcurrency
  <2>1. CASE Alive'
    <3>1. /\ inflight' = Cardinality(At(Counted)')
          /\ slots' + Cardinality(At(Holding)') = MaxConcurrency
        BY <2>1, NextCounts DEF CountsInv, CountsExact, At
    <3>2. slots' \in Nat
      <4>1. CASE Serve
        <5>1. slots \in Nat
            BY HostProcessConstants DEF TypeOK, HostProcessConstants
        <5> QED
            BY <4>1, <5>1 DEF Serve, Accept, Enter, Admit, Create, Enqueue, Respond, End,
               Poll, requests
      <4>2. CASE ~Serve
        <5>1. slots' = slots \/ slots' = MaxConcurrency
            BY <4>2 DEF Next, Job, Start, StartFails, RunTarget, Finish, FinishFails,
               Lifecycle, Sigterm, StopListening, Deadline, DrainEnd, Exit, Kill, Down,
               Restart, OtherStarts, requests, vars
        <5> QED
            BY <5>1, HostProcessConstants DEF TypeOK, HostProcessConstants
      <4> QED
        BY <4>1, <4>2
    <3>3. /\ At(Counted)' \subseteq Requests /\ At(Holding)' \subseteq Requests
          /\ IsFiniteSet(Requests)
        BY HostProcessConstants DEF At, HostProcessConstants
    <3>4. /\ Cardinality(At(Counted)') \in Nat /\ Cardinality(At(Holding)') \in Nat
          /\ Cardinality(At(Counted)') <= Cardinality(Requests)
          /\ Cardinality(Requests) \in Nat
        BY <3>3, FS_Subset, FS_CardinalityType
    <3>5. inflight' \in 0..Cardinality(Requests)
        BY <3>1, <3>4
    <3> QED
        BY <3>1, <3>2, <3>4, <3>5, HostProcessConstants DEF HostProcessConstants
  <2>2. CASE ~Alive'
    <3>1. inflight' = inflight /\ slots' = slots
        BY <2>2 DEF Next, Serve, Accept, Enter, Admit, Create, Enqueue, Respond, End, Poll,
               Job, Start, StartFails, RunTarget, Finish, FinishFails, Lifecycle, Sigterm,
               StopListening, Deadline, DrainEnd, Exit, Kill, Down, Restart, OtherStarts,
               server, requests, vars, Alive
    <3> QED
        BY <3>1 DEF TypeOK
  <2> QED
    BY <2>1, <2>2
<1>2. /\ process' \in {"up", "draining", "exiting", "down"}
      /\ listening' \in BOOLEAN
      /\ late' \in BOOLEAN
      /\ awaited' \subseteq Requests
    BY DEF Next, Serve, Accept, Enter, Admit, Create, Enqueue, Respond, End, Poll, Job,
           Start, StartFails, RunTarget, Finish, FinishFails, Lifecycle, Sigterm,
           StopListening, Deadline, DrainEnd, Exit, Kill, Down, Restart, OtherStarts,
           server, requests, vars, TypeOK
<1>3. conn' \in [Requests -> {"none", "accepted"} \cup Counted \cup Past]
  <2>1. CASE Serve
    BY <2>1 DEF Serve, Accept, Enter, Admit, Create, Enqueue, Respond, End, Poll, Reach,
           requests, TypeOK, Counted, Past
  <2>2. CASE ~Serve
    BY <2>2 DEF Next, Job, Start, StartFails, RunTarget, Finish, FinishFails, Lifecycle,
           Sigterm, StopListening, Deadline, DrainEnd, Exit, Kill, Down, Restart,
           OtherStarts, requests, vars, TypeOK, Counted, Past
  <2> QED
    BY <2>1, <2>2
<1> DEFINE Tables ==
              /\ row \in [Jobs -> {"none", "submitted", "running"} \cup Settled]
              /\ worker \in [Jobs -> {"none", "queued", "started", "ran"}]
              /\ runs \in [Jobs -> Nat]
              /\ told \in [Jobs -> {"none"} \cup Settled]
              /\ unwritten \cup disturbed \subseteq Jobs
<1>4. Tables'
  <2> USE DEF TypeOK, Settled
  <2>1. CASE Serve
    BY <2>1 DEF Serve, Accept, Enter, Admit, Create, Enqueue, Respond, End, Poll, jobs
  <2>2. ASSUME NEW j \in Jobs, Job(j)
        PROVE  Tables'
    BY <2>2 DEF Job, Start, StartFails, RunTarget, Finish, FinishFails
  <2>3. CASE Lifecycle
    BY <2>3 DEF Lifecycle, Sigterm, StopListening, Deadline, DrainEnd, Exit, Kill, Down,
           Restart, Interrupt, OtherStarts, jobs
  <2>4. CASE UNCHANGED vars
    BY <2>4 DEF vars, jobs
  <2> QED
    BY <2>1, <2>2, <2>3, <2>4 DEF Next
<1> QED
    BY <1>1, <1>2, <1>3, <1>4 DEF TypeOK

-----------------------------------------------------------------------------
(***************************************************************************)
(* The drain.  What it waits for is counted or over, and nothing of it is  *)
(* counted any more when the drain has ended in time.                      *)
(***************************************************************************)
DrainInv ==
    /\ process = "up" => awaited = {}
    /\ \A r \in awaited : conn[r] \in (Counted \cup Past) \ {"dropped"}
    /\ process = "exiting" /\ ~late => \A r \in awaited : conn[r] \notin Counted

\* A handler thread only moves forward.
LEMMA ServeForward ==
    ASSUME TypeOK, Serve
    PROVE  \A r \in Requests :
              /\ conn[r] \in Past => conn'[r] = conn[r]
              /\ conn[r] \in Counted => conn'[r] \in Counted \cup {"answered", "shed"}
<1> USE DEF TypeOK, Counted, Past, Reach
<1>1. PICK r \in Requests : \/ Accept(r) \/ Enter(r) \/ Admit(r) \/ Create(r) \/ Enqueue(r)
                            \/ Respond(r) \/ End(r) \/ \E j \in Jobs : Poll(r, j)
    BY DEF Serve
<1>2. CASE Accept(r) \/ Enter(r) \/ Admit(r)
    BY <1>2 DEF Accept, Enter, Admit
<1>3. CASE Create(r) \/ Enqueue(r) \/ Respond(r)
    BY <1>3 DEF Create, Enqueue, Respond
<1>4. CASE End(r) \/ \E j \in Jobs : Poll(r, j)
    BY <1>4 DEF End, Poll, requests
<1> QED
    BY <1>1, <1>2, <1>3, <1>4

\* Every step keeps what the drain waits for.
LEMMA NextDrain ==
    ASSUME TypeOK, CountsInv, DrainInv, [Next]_vars
    PROVE  DrainInv'
<1> USE DEF DrainInv
<1>1. CASE Serve
  <2>1. UNCHANGED server
    BY <1>1 DEF Serve, Accept, Enter, Admit, Create, Enqueue, Respond, End, Poll
  <2>2. \A r \in awaited : r \in Requests
    BY DEF TypeOK
  <2> QED
    BY <1>1, <2>1, <2>2, ServeForward DEF server, Counted, Past
<1>2. CASE (\E j \in Jobs : Job(j)) \/ OtherStarts \/ UNCHANGED vars
  <2>1. UNCHANGED <<process, awaited, late, conn>>
    BY <1>2 DEF Job, Start, StartFails, RunTarget, Finish, FinishFails, OtherStarts, server,
                requests, vars
  <2> QED
    BY <2>1
<1>3. CASE Sigterm
    BY <1>3 DEF Sigterm, requests, Counted, Past
<1>4. CASE StopListening \/ Deadline
    BY <1>4 DEF StopListening, Deadline, requests
<1>5. CASE DrainEnd
  <2>1. UNCHANGED <<late, awaited, conn>> /\ process' = "exiting"
    BY <1>5 DEF DrainEnd, requests
  <2>2. inflight = 0 \/ late
    BY <1>5 DEF DrainEnd
  <2>3. inflight = 0 => At(Counted) = {}
    <3>1. inflight = Cardinality(At(Counted)) /\ IsFiniteSet(At(Counted))
        BY <1>5, Finite DEF DrainEnd, Alive, CountsInv, CountsExact, At
    <3> QED
        BY <3>1, FS_EmptySet
  <2>4. inflight = 0 => \A r \in awaited : conn[r] \notin Counted
    BY <2>3 DEF At, TypeOK
  <2> QED
    BY <2>1, <2>2, <2>4
<1>6. CASE Exit
  <2>1. PICK how \in {"late", "dropped"} : Down(how) /\ (how = "dropped" => ~late)
    BY <1>6 DEF Exit
  <2>2. \A r \in awaited : conn[r] \notin Past => conn[r] \in Counted /\ how # "dropped"
    BY <1>6, <2>1 DEF Exit
  <2>3. \A r \in awaited : conn'[r] \in Past \ {"dropped"}
    BY <2>1, <2>2, DownEnds DEF Past, Counted, TypeOK
  <2> QED
    BY <2>1, <2>3, DownEnds DEF Down, Past
<1>7. CASE Kill
  <2>1. \A r \in awaited : conn'[r] \in Past \ {"dropped"}
    BY <1>7, DownEnds DEF Kill, Past, Counted, TypeOK
  <2> QED
    BY <1>7, <2>1 DEF Kill, Down, Past
<1>8. CASE Restart
    BY <1>8 DEF Restart
<1> QED
    BY <1>1, <1>2, <1>3, <1>4, <1>5, <1>6, <1>7, <1>8 DEF Next, Lifecycle

-----------------------------------------------------------------------------
(***************************************************************************)
(* The jobs.  A job is created once, enqueued once and run once; until it  *)
(* is over its row is open, unless another process has closed it.          *)
(***************************************************************************)
Pending(j) == worker[j] # "none" \/ conn[j] = "created"

JobOK(j) ==
    /\ row[j] = "none" => ~Pending(j) /\ runs[j] = 0 /\ told[j] = "none"
    /\ conn[j] = "created" => worker[j] = "none"
    /\ conn[j] = "created" \/ worker[j] \in {"queued", "started"} => runs[j] = 0
    /\ runs[j] <= 1
    /\ Alive \/ ~Pending(j)
    /\ Pending(j) /\ row[j] \in Settled => j \in disturbed
    /\ told[j] # "none" /\ j \notin disturbed => ~Pending(j) /\ row[j] = told[j]

JobInv == \A j \in Jobs : JobOK(j)

\* What a request does to the job of its name, and to a job it polls.
LEMMA ServeJobs ==
    ASSUME TypeOK, JobInv, Serve
    PROVE  JobInv'
<1> USE DEF JobInv, JobOK, Pending, Alive, TypeOK, Settled, Reach
<1>1. PICK r \in Requests : \/ Accept(r) \/ Enter(r) \/ Admit(r) \/ Create(r) \/ Enqueue(r)
                            \/ Respond(r) \/ End(r) \/ \E j \in Jobs : Poll(r, j)
    BY DEF Serve
<1>2. CASE Accept(r) \/ Enter(r) \/ Admit(r) \/ Respond(r) \/ End(r)
  <2>1. /\ UNCHANGED <<process, row, worker, runs, told, disturbed>>
        /\ \A j \in Requests : conn'[j] = "created" <=> conn[j] = "created"
    BY <1>2 DEF Accept, Enter, Admit, Respond, End, server, jobs
  <2>2. Jobs \subseteq Requests
    BY HostProcessConstants DEF HostProcessConstants
  <2> QED
    BY <2>1, <2>2
<1>3. CASE Create(r)
    BY <1>3, HostProcessConstants DEF Create, server, HostProcessConstants
<1>4. CASE Enqueue(r)
    BY <1>4, HostProcessConstants DEF Enqueue, server, HostProcessConstants
<1>5. ASSUME NEW j \in Jobs, Poll(r, j)
      PROVE  JobInv'
    BY <1>5 DEF Poll, server, requests
<1> QED
    BY <1>1, <1>2, <1>3, <1>4, <1>5

\* What the thread pool does to a job.
LEMMA PoolJobs ==
    ASSUME TypeOK, JobInv, NEW j \in Jobs, Job(j)
    PROVE  JobInv'
<1> USE DEF JobInv, JobOK, Pending, Alive, TypeOK, Settled, server, requests
<1>1. CASE Start(j)
    BY <1>1 DEF Start
<1>2. CASE StartFails(j)
    BY <1>2 DEF StartFails
<1>3. CASE RunTarget(j)
    BY <1>3 DEF RunTarget
<1>4. ASSUME NEW status \in {"completed", "failed"}, Finish(j, status)
      PROVE  JobInv'
    BY <1>4 DEF Finish
<1>5. CASE FinishFails(j)
    BY <1>5 DEF FinishFails
<1> QED
    BY <1>1, <1>2, <1>3, <1>4, <1>5 DEF Job

\* Every step keeps the jobs' rows, runs and verdicts in step.
LEMMA NextJobs ==
    ASSUME TypeOK, JobInv, [Next]_vars
    PROVE  JobInv'
<1>1. CASE Serve
    BY <1>1, ServeJobs
<1>2. ASSUME NEW j \in Jobs, Job(j)
      PROVE  JobInv'
    BY <1>2, PoolJobs
<1> USE DEF JobInv, JobOK, Pending, Alive, TypeOK, Settled
<1>3. CASE Sigterm \/ StopListening \/ Deadline \/ DrainEnd
    BY <1>3 DEF Sigterm, StopListening, Deadline, DrainEnd, requests, jobs
<1>4. CASE Exit \/ Kill
  <2>1. PICK how \in Past : Down(how)
    BY <1>4 DEF Exit, Kill, Past
  <2>2. \A j \in Jobs : worker'[j] = "none" /\ conn'[j] # "created"
    BY <2>1, DownEnds, HostProcessConstants
       DEF Down, At, Inside, Counted, HostProcessConstants
  <2>3. UNCHANGED <<row, runs, told, disturbed>>
    BY <2>1 DEF Down
  <2> QED
    BY <2>2, <2>3
<1>5. CASE Restart
    BY <1>5 DEF Restart, Interrupt
<1>6. CASE OtherStarts
    BY <1>6 DEF OtherStarts, Interrupt, server, requests
<1>7. CASE UNCHANGED vars
    BY <1>7 DEF vars, server, requests, jobs
<1> QED
    BY <1>1, <1>2, <1>3, <1>4, <1>5, <1>6, <1>7 DEF Next, Lifecycle

-----------------------------------------------------------------------------
\* What holds of the process, whatever it is told and whatever fails.
ProcessInv == TypeOK /\ CountsInv /\ DrainInv /\ JobInv

\* It holds at the start ...
LEMMA InitProcess == Init => ProcessInv
<1> SUFFICES ASSUME Init
             PROVE  ProcessInv
    OBVIOUS
<1>1. Cardinality(Requests) \in Nat
    BY Finite
<1>2. TypeOK
  <2>1. inflight \in 0..Cardinality(Requests)
    BY <1>1 DEF Init
  <2>2. slots \in 0..MaxConcurrency
    BY HostProcessConstants DEF Init, HostProcessConstants
  <2>3. /\ conn \in [Requests -> {"none", "accepted"} \cup Counted \cup Past]
        /\ runs \in [Jobs -> Nat]
    BY DEF Init
  <2> QED
    BY <2>1, <2>2, <2>3 DEF Init, TypeOK, Settled
<1>3. CountsInv
  <2>1. At(Counted) = {} /\ At(Holding) = {} /\ At(Inside) = {}
    BY DEF Init, At, Counted, Holding, Inside
  <2>2. Cardinality(At(Counted)) = 0 /\ Cardinality(At(Holding)) = 0
    BY <2>1, FS_EmptySet
  <2> QED
    BY <2>1, <2>2, HostProcessConstants
       DEF Init, CountsInv, CountsExact, Alive, At, HostProcessConstants
<1>4. DrainInv /\ JobInv
    BY HostProcessConstants
       DEF Init, DrainInv, JobInv, JobOK, Pending, Alive, Settled, HostProcessConstants
<1> QED
    BY <1>2, <1>3, <1>4 DEF ProcessInv

\* ... and hence always.
LEMMA ProcessInvariance == Spec => []ProcessInv
<1>1. ProcessInv /\ [Next]_vars => ProcessInv'
    BY NextTypes, NextCounts, NextDrain, NextJobs DEF ProcessInv
<1> QED
    BY InitProcess, <1>1, PTL DEF Spec

\* Shutdowns, crashes and restarts lose no counted request before the deadline,
\* leak no slot, run no job twice and change no verdict, whatever the caps.
THEOREM ProcessStaysSafe == Spec => []ProcessSafe
<1>1. ProcessInv => ProcessSafe
    BY DEF ProcessInv, ProcessSafe, CountsInv, DrainInv, DrainAnswersCounted, JobInv, JobOK,
           Pending, RunsOnce, VerdictFinal
<1> QED
    BY <1>1, ProcessInvariance, PTL

-----------------------------------------------------------------------------
(***************************************************************************)
(* That a machine's row always tells the run of one machine, and that      *)
(* nothing is lost while transitions do not overlap, for every graph and   *)
(* every number of callers.                                                *)
(*                                                                         *)
(* What a caller has read and decided is as good as the row was when it    *)
(* read it: the invariant carries RowIsRun over to the rows in the hands   *)
(* of the callers, which WriteMachine puts back.                           *)
(***************************************************************************)

\* A row that is typed and tells a run.
GoodRow(x) == x \in Rows /\ IsRun(x)

\* What a caller may hold: nothing, or a good row and an event it allows.
GoodCall(c) ==
    \/ c = NoCall
    \/ /\ c.stage = "decided"
       /\ GoodRow(c.row)
       /\ c.event \in States
       /\ Allowed(c.row, c.event)

MachineInv ==
    /\ machine = NoMachine \/ GoodRow(machine)
    /\ call \in [Callers -> {call[t] : t \in Callers}]
    /\ \A t \in Callers : GoodCall(call[t])
    /\ granted \in Seq(Entries)
    /\ overlap \in BOOLEAN

\* While no two transitions have overlapped, one caller at most holds a row, the
\* row is still the machine's, and the history is what was granted.
AloneInv ==
    /\ machine = NoMachine => granted = <<>> /\ \A t \in Callers : call[t] = NoCall
    /\ ~overlap =>
        /\ \A t, u \in Callers : call[t] # NoCall /\ call[u] # NoCall => t = u
        /\ \A t \in Callers : call[t] # NoCall => call[t].row = machine
        /\ machine # NoMachine => machine.history = granted

-----------------------------------------------------------------------------
\* A good row advanced by an allowed event is good (Advanced).
LEMMA AdvancedGood ==
    ASSUME NEW given, NEW event \in States, GoodRow(given), Allowed(given, event)
    PROVE  GoodRow(Advanced(given, event))
<1> DEFINE h == given.history
           e == [from |-> given.state, to |-> event]
           next == Advanced(given, event)
<1>1. given \in Rows /\ h \in Seq(Entries) /\ given.state \in States
  BY DEF GoodRow, Rows
<1>2. e \in Entries
  BY <1>1 DEF Entries
<1>3. next.history = Append(h, e) /\ next.state = event /\ next.status = StatusAfter(event)
  BY DEF Advanced
<1>4. /\ next.history \in Seq(Entries)
      /\ Len(next.history) = Len(h) + 1
      /\ \A n \in 1..Len(h) : next.history[n] = h[n]
      /\ next.history[Len(h) + 1] = e
      /\ Len(h) \in Nat
  BY <1>1, <1>2, <1>3
<1>5. StatusAfter(event) \in {"running"} \cup Over
  BY DEF StatusAfter, Over
<1>6. next \in Rows
  BY <1>3, <1>4, <1>5 DEF Rows, Advanced
<1>7. IsRun(given) /\ given.status \notin Over /\ event \in Transitions[given.state]
  BY DEF GoodRow, Allowed
<1>8. \A n \in 1..Len(next.history) :
          /\ next.history[n].to \in Transitions[next.history[n].from]
          /\ next.history[n].from =
                 IF n = 1 THEN InitialState ELSE next.history[n - 1].to
          /\ n < Len(next.history) => StatusAfter(next.history[n].to) \notin Over
  <2> SUFFICES ASSUME NEW n \in 1..Len(h) + 1
               PROVE  /\ next.history[n].to \in Transitions[next.history[n].from]
                      /\ next.history[n].from =
                             IF n = 1 THEN InitialState ELSE next.history[n - 1].to
                      /\ n < Len(h) + 1 => StatusAfter(next.history[n].to) \notin Over
    BY <1>4
  <2>1. CASE n = Len(h) + 1
    <3>1. next.history[n].from = given.state /\ next.history[n].to = event
      BY <2>1, <1>4
    <3>2. given.state = IF Len(h) = 0 THEN InitialState ELSE h[Len(h)].to
      BY <1>7 DEF IsRun
    <3>3. n # 1 => next.history[n - 1] = h[Len(h)]
      BY <2>1, <1>4
    <3> QED
      BY <2>1, <3>1, <3>2, <3>3, <1>4, <1>7
  <2>2. CASE n \in 1..Len(h)
    <3>1. next.history[n] = h[n] /\ (n # 1 => next.history[n - 1] = h[n - 1])
      BY <2>2, <1>4
    <3>2. /\ h[n].to \in Transitions[h[n].from]
          /\ h[n].from = IF n = 1 THEN InitialState ELSE h[n - 1].to
          /\ n < Len(h) => StatusAfter(h[n].to) \notin Over
      BY <2>2, <1>7 DEF IsRun
    <3>3. n = Len(h) => StatusAfter(h[n].to) \notin Over
      BY <2>2, <1>7, <1>4 DEF IsRun
    <3> QED
      BY <2>2, <3>1, <3>2, <3>3, <1>4
  <2> QED
    BY <2>1, <2>2, <1>4
<1>9. IsRun(next)
  BY <1>3, <1>4, <1>8 DEF IsRun
<1> QED
  BY <1>6, <1>9 DEF GoodRow

-----------------------------------------------------------------------------
LEMMA MachineInitInv == MachineInit => MachineInv /\ AloneInv
<1> SUFFICES ASSUME MachineInit PROVE MachineInv /\ AloneInv
  OBVIOUS
<1>1. \A t \in Callers : call[t] = NoCall
  BY DEF MachineInit
<1>2. call \in [Callers -> {call[t] : t \in Callers}]
  BY DEF MachineInit
<1>3. MachineInv
  <2>1. machine = NoMachine /\ \A t \in Callers : GoodCall(call[t])
    BY <1>1 DEF MachineInit, GoodCall
  <2>2. granted \in Seq(Entries)
    BY DEF MachineInit
  <2>3. overlap \in BOOLEAN
    BY DEF MachineInit
  <2> QED
    BY <1>2, <2>1, <2>2, <2>3, Zenon DEF MachineInv
<1>4. AloneInv
  BY <1>1 DEF MachineInit, AloneInv, NoMachine
<1> QED
  BY <1>3, <1>4

\* The step of MachineInv, action by action.
LEMMA MachineStep ==
    ASSUME MachineInv, [MachineNext]_machineVars
    PROVE  MachineInv'
<1> USE StateMachineConstants DEF MachineInv
<1>1. CASE CreateMachine
  <2>1. GoodRow(machine')
    BY <1>1 DEF CreateMachine, GoodRow, Rows, IsRun
  <2> QED
    BY <1>1, <2>1 DEF CreateMachine
<1>2. ASSUME NEW t \in Callers, NEW event \in States, ReadMachine(t, event)
      PROVE  MachineInv'
  <2>1. GoodCall(call'[t])
    BY <1>2 DEF ReadMachine, GoodCall
  <2>2. \A u \in Callers \ {t} : call'[u] = call[u]
    BY <1>2 DEF ReadMachine
  <2>3. call' \in [Callers -> {call'[u] : u \in Callers}]
    BY <1>2 DEF ReadMachine
  <2> QED
    BY <1>2, <2>1, <2>2, <2>3 DEF ReadMachine
<1>3. ASSUME NEW t \in Callers, WriteMachine(t)
      PROVE  MachineInv'
  <2>1. call[t] # NoCall /\ GoodRow(call[t].row) /\ call[t].event \in States
        /\ Allowed(call[t].row, call[t].event)
    BY <1>3 DEF WriteMachine, GoodCall
  <2>2. GoodRow(machine')
    BY <1>3, <2>1, AdvancedGood DEF WriteMachine
  <2>3. granted' \in Seq(Entries)
    BY <1>3, <2>1 DEF WriteMachine, GoodRow, Rows, Entries
  <2>4. \A u \in Callers : call'[u] \in {NoCall, call[u]}
    BY <1>3 DEF WriteMachine
  <2>5. call' \in [Callers -> {call'[u] : u \in Callers}]
    BY <1>3 DEF WriteMachine
  <2> QED
    BY <1>3, <2>2, <2>3, <2>4, <2>5 DEF WriteMachine, GoodCall
<1>4. ASSUME NEW t \in Callers, DropCall(t)
      PROVE  MachineInv'
  <2>1. \A u \in Callers : call'[u] \in {NoCall, call[u]}
    BY <1>4 DEF DropCall
  <2>2. call' \in [Callers -> {call'[u] : u \in Callers}]
    BY <1>4 DEF DropCall
  <2> QED
    BY <1>4, <2>1, <2>2 DEF DropCall, GoodCall
<1>5. CASE UNCHANGED machineVars
  BY <1>5 DEF machineVars
<1> QED
  BY <1>1, <1>2, <1>3, <1>4, <1>5 DEF MachineNext

\* The step of AloneInv.
LEMMA AloneStep ==
    ASSUME MachineInv, AloneInv, [MachineNext]_machineVars
    PROVE  AloneInv'
<1> USE DEF AloneInv
<1>1. CASE CreateMachine
  BY <1>1 DEF CreateMachine, NoMachine
<1>2. ASSUME NEW t \in Callers, NEW event \in States, ReadMachine(t, event)
      PROVE  AloneInv'
  <2>1. /\ machine # NoMachine /\ machine' = machine /\ granted' = granted
        /\ overlap' = (overlap \/ \E u \in Callers : call[u] # NoCall)
        /\ \A u \in Callers \ {t} : call'[u] = call[u]
        /\ call'[t].row = machine
    BY <1>2 DEF ReadMachine, MachineInv
  <2> QED
    BY <2>1
<1>3. ASSUME NEW t \in Callers, WriteMachine(t)
      PROVE  AloneInv'
  <2>1. /\ machine' = Advanced(call[t].row, call[t].event)
        /\ granted' = Append(granted, [from |-> call[t].row.state, to |-> call[t].event])
        /\ overlap' = overlap /\ call[t] # NoCall /\ call'[t] = NoCall
        /\ \A u \in Callers \ {t} : call'[u] = call[u]
    BY <1>3 DEF WriteMachine, MachineInv
  <2>2. machine # NoMachine
    BY <2>1
  <2>3. machine' # NoMachine
    BY <2>1 DEF Advanced, NoMachine, StatusAfter
  <2>4. ~overlap => \A u \in Callers : call'[u] = NoCall
    BY <2>1
  <2>5. ~overlap => machine'.history = granted'
    BY <2>1, <2>2 DEF Advanced
  <2> QED
    BY <2>1, <2>3, <2>4, <2>5
<1>4. ASSUME NEW t \in Callers, DropCall(t)
      PROVE  AloneInv'
  <2>1. /\ \A u \in Callers : call'[u] \in {NoCall, call[u]}
        /\ UNCHANGED <<machine, granted, overlap>>
    BY <1>4 DEF DropCall, MachineInv
  <2> QED
    BY <2>1
<1>5. CASE UNCHANGED machineVars
  BY <1>5 DEF machineVars
<1> QED
  BY <1>1, <1>2, <1>3, <1>4, <1>5 DEF MachineNext

-----------------------------------------------------------------------------
\* The inductive invariant holds of every reachable state.
THEOREM MachineInvariant == MachineSpec => [](MachineInv /\ AloneInv)
<1>1. MachineInv /\ AloneInv /\ [MachineNext]_machineVars => (MachineInv /\ AloneInv)'
  BY MachineStep, AloneStep
<1> QED
  BY MachineInitInv, <1>1, PTL DEF MachineSpec

\* Type correctness of the machine's row, the calls and the histories.
THEOREM MachineTypeCorrect == MachineSpec => []MachineTypeOK
<1>1. MachineInv => MachineTypeOK
  BY DEF MachineInv, MachineTypeOK, GoodRow, GoodCall
<1> QED
  BY MachineInvariant, <1>1, PTL

\* However many transitions overlap, the row of state_machine.py tells the run of
\* one machine, and no history goes on past a terminal state.
THEOREM RowTellsRun == MachineSpec => []RowIsRun
<1>1. MachineInv => RowIsRun
  BY DEF MachineInv, RowIsRun, GoodRow
<1> QED
  BY MachineInvariant, <1>1, PTL

\* Transitions that never overlap lose nothing: each that was answered "allowed"
\* is in the history, in order.
THEOREM AloneLosesNothing == MachineSpec => []NothingLostAlone
<1>1. AloneInv => NothingLostAlone
  BY DEF AloneInv, NothingLostAlone
<1> QED
  BY MachineInvariant, <1>1, PTL

\* All that unlocked transitions keep, for any machine, threads and history.
THEOREM MachineStaysSafe == MachineSpec => []MachineSafe
<1> QED
  BY MachineTypeCorrect, RowTellsRun, AloneLosesNothing, PTL DEF MachineSafe

-----------------------------------------------------------------------------
(***************************************************************************)
(* That the rate limit holds for every limit, window, number of threads    *)
(* and length of the run.                                                  *)
(*                                                                         *)
(* RateBound is not inductive: a bucket that went back in time refills the *)
(* same span again.  What is kept is the account of the tokens: all that   *)
(* was admitted since From and all that the bucket holds fit into a full   *)
(* bucket and what From to the bucket's own time refills, whichever way    *)
(* that time moves (Accounted); and the debt of a bucket set back is paid  *)
(* by the time that is missing (BucketBounded).                            *)
(***************************************************************************)

Accounted ==
    \/ admitted = 0 /\ bucket.last < From
    \/ admitted * Window + bucket.tokens <= Capacity + (bucket.last - From) * Limit

AdmissionInv ==
    /\ AdmissionTypeOK
    /\ bucket.last <= time
    /\ \A t \in Handlers : read[t] <= time
    /\ BucketBounded
    /\ Accounted

-----------------------------------------------------------------------------
(***************************************************************************)
(* Products                                                                *)
(***************************************************************************)
LEMMA Spans ==
    ASSUME NEW a \in Int, NEW b \in Int, NEW c \in Int, NEW l \in Int
    PROVE  (a - b) * l + (b - c) * l = (a - c) * l
  OBVIOUS

LEMMA SpanNat ==
    ASSUME NEW a \in Nat, NEW l \in Nat
    PROVE  a * l \in Nat
  OBVIOUS

LEMMA OneMore ==
    ASSUME NEW a \in Int, NEW w \in Int
    PROVE  (a + 1) * w = a * w + w
  OBVIOUS

LEMMA IntTimes ==
    ASSUME NEW a \in Int, NEW b \in Int
    PROVE  a * b \in Int
  OBVIOUS

-----------------------------------------------------------------------------
LEMMA AdmissionInitInv == AdmissionInit => AdmissionInv
<1> SUFFICES ASSUME AdmissionInit PROVE AdmissionInv
  OBVIOUS
<1> USE AdmissionConstants DEF AdmissionInit
<1>1. Capacity \in Nat
  BY SpanNat DEF Capacity
<1>2. AdmissionTypeOK
  BY <1>1 DEF AdmissionTypeOK, None
<1>3. BucketBounded
  BY <1>1 DEF BucketBounded
<1>4. Accounted
  BY <1>1 DEF Accounted
<1>5. \A t \in Handlers : read[t] <= time
  BY DEF None
<1> QED
  BY <1>1, <1>2, <1>3, <1>4, <1>5 DEF AdmissionInv

\* Settling a request keeps the account and the bounds of the bucket.
LEMMA SettleStep ==
    ASSUME AdmissionInv, NEW t \in Handlers, Settle(t)
    PROVE  AdmissionInv'
<1> USE AdmissionConstants
<1> DEFINE now == read[t]
           refill == (now - bucket.last) * Limit
           full == bucket.tokens + refill
           tokens == Refilled(now)
           charged == IF tokens >= Window THEN tokens - Window ELSE tokens
           more == IF tokens >= Window /\ now >= From THEN 1 ELSE 0
<1>1. /\ time \in Nat /\ now \in Nat /\ now <= time /\ admitted \in Nat
      /\ bucket.tokens \in Int /\ bucket.last \in Nat /\ bucket.last <= time
      /\ Capacity \in Nat /\ bucket.tokens <= Capacity
      /\ bucket.tokens + (time - bucket.last) * Limit >= 0
      /\ read \in [Handlers -> Nat \cup {None}]
  BY SpanNat DEF AdmissionInv, AdmissionTypeOK, BucketBounded, Settle, None, Capacity
<1>2. refill \in Int /\ full \in Int
  BY <1>1, IntTimes
<1>3. tokens = IF Capacity < full THEN Capacity ELSE full
  BY DEF Refilled, Smaller
<1>4. tokens \in Int /\ tokens <= Capacity /\ tokens <= full /\ charged \in Int
      /\ charged <= tokens
  BY <1>1, <1>2, <1>3
<1>5. /\ bucket' = [tokens |-> charged, last |-> now]
      /\ admitted' = admitted + more
      /\ time' = time
      /\ read' = [read EXCEPT ![t] = None]
  BY <1>1 DEF Settle
<1>6. AdmissionTypeOK'
  BY <1>1, <1>4, <1>5 DEF AdmissionTypeOK
<1>7. BucketBounded'
  <2>1. (time - now) * Limit \in Nat
    BY <1>1, SpanNat
  <2>2. (time - now) * Limit + refill = (time - bucket.last) * Limit
    BY <1>1, Spans
  <2>3. full + (time - now) * Limit >= 0
    BY <1>1, <1>2, <2>1, <2>2
  <2>4. tokens + (time - now) * Limit >= 0
    BY <1>1, <1>2, <1>3, <2>1, <2>3
  <2>5. charged + (time - now) * Limit >= 0
    BY <1>4, <2>1, <2>4
  <2>6. charged <= Capacity
    BY <1>1, <1>4
  <2>7. bucket'.tokens = charged /\ bucket'.last = now /\ time' = time /\ Capacity' = Capacity
    BY <1>5 DEF Capacity
  <2> QED
    BY <2>5, <2>6, <2>7 DEF BucketBounded
<1>8. Accounted'
  <2>1. bucket'.tokens = charged /\ bucket'.last = now /\ Capacity' = Capacity
    BY <1>5 DEF Capacity
  <2>2. admitted * Window \in Int /\ (now - From) * Limit \in Int
        /\ (bucket.last - From) * Limit \in Int
    BY <1>1, IntTimes
  <2>3. admitted' * Window + charged <= admitted * Window + tokens
    <3>1. (admitted + 1) * Window = admitted * Window + Window
      BY <1>1, OneMore
    <3>2. CASE more = 1
      BY <3>1, <3>2, <1>1, <1>4, <1>5, <2>2
    <3>3. CASE more = 0
      BY <3>3, <1>1, <1>4, <1>5, <2>2
    <3> QED
      BY <3>2, <3>3
  <2>4. CASE admitted = 0 /\ bucket.last < From /\ now < From
    BY <2>4, <2>1, <1>1, <1>5 DEF Accounted
  <2>5. CASE admitted = 0 /\ bucket.last < From /\ now >= From
    <3>1. (now - From) * Limit \in Nat
      BY <2>5, <1>1, SpanNat
    <3>2. admitted * Window + tokens <= Capacity + (now - From) * Limit
      BY <2>5, <3>1, <1>1, <1>4
    <3>3. admitted' * Window \in Int
      BY <1>1, <1>5, IntTimes
    <3> QED
      BY <3>2, <3>3, <2>1, <2>2, <2>3, <1>1, <1>4 DEF Accounted
  <2>6. CASE admitted * Window + bucket.tokens <= Capacity + (bucket.last - From) * Limit
    <3>1. refill + (bucket.last - From) * Limit = (now - From) * Limit
      BY <1>1, Spans
    <3>2. admitted * Window + tokens <= Capacity + (now - From) * Limit
      BY <2>6, <3>1, <1>1, <1>2, <1>4, <2>2
    <3>3. admitted' * Window \in Int
      BY <1>1, <1>5, IntTimes
    <3> QED
      BY <3>2, <3>3, <2>1, <2>2, <2>3, <1>1, <1>4 DEF Accounted
  <2> QED
    BY <2>4, <2>5, <2>6, <1>1 DEF AdmissionInv, Accounted
<1>9. bucket'.last <= time' /\ \A u \in Handlers : read'[u] <= time'
  BY <1>1, <1>5 DEF AdmissionInv, None
<1> QED
  BY <1>6, <1>7, <1>8, <1>9 DEF AdmissionInv

LEMMA AdmissionStep ==
    ASSUME AdmissionInv, [AdmissionNext]_admissionVars
    PROVE  AdmissionInv'
<1> USE AdmissionConstants
<1>0. /\ time \in Nat /\ bucket.last \in Nat /\ bucket.last <= time
      /\ bucket.tokens \in Int /\ Capacity \in Nat
      /\ read \in [Handlers -> Nat \cup {None}]
  BY SpanNat DEF AdmissionInv, AdmissionTypeOK, Capacity
<1>1. CASE Tick
  <2>1. time' = time + 1 /\ UNCHANGED <<bucket, read, admitted>> /\ Capacity' = Capacity
    BY <1>1 DEF Tick, Capacity
  <2>2. (time + 1 - bucket.last) * Limit = (time - bucket.last) * Limit + Limit
    <3>1. time - bucket.last \in Int /\ time + 1 - bucket.last = (time - bucket.last) + 1
      BY <1>0
    <3> QED
      BY <3>1, OneMore
  <2>3. (time - bucket.last) * Limit \in Int
    BY <1>0, IntTimes
  <2>4. BucketBounded'
    BY <2>1, <2>2, <2>3, <1>0 DEF AdmissionInv, BucketBounded
  <2>5. Accounted'
    BY <2>1 DEF AdmissionInv, Accounted
  <2>6. AdmissionTypeOK'
    BY <2>1, <1>0 DEF AdmissionInv, AdmissionTypeOK
  <2>7. bucket'.last <= time' /\ \A t \in Handlers : read'[t] <= time'
    BY <2>1, <1>0 DEF AdmissionInv, None
  <2> QED
    BY <2>4, <2>5, <2>6, <2>7 DEF AdmissionInv
<1>2. ASSUME NEW t \in Handlers, ReadClock(t)
      PROVE  AdmissionInv'
  <2>1. read' = [read EXCEPT ![t] = time] /\ UNCHANGED <<time, bucket, admitted>>
        /\ Capacity' = Capacity
    BY <1>2 DEF ReadClock, Capacity
  <2>2. BucketBounded' /\ Accounted'
    BY <2>1 DEF AdmissionInv, BucketBounded, Accounted
  <2>3. AdmissionTypeOK'
    BY <2>1, <1>0 DEF AdmissionInv, AdmissionTypeOK
  <2>4. bucket'.last <= time' /\ \A u \in Handlers : read'[u] <= time'
    BY <2>1, <1>0 DEF AdmissionInv
  <2> QED
    BY <2>2, <2>3, <2>4 DEF AdmissionInv
<1>3. ASSUME NEW t \in Handlers, Settle(t)
      PROVE  AdmissionInv'
  BY <1>3, SettleStep
<1>4. CASE UNCHANGED admissionVars
  BY <1>4 DEF admissionVars, AdmissionInv, AdmissionTypeOK, BucketBounded, Accounted, Capacity
<1> QED
  BY <1>1, <1>2, <1>3, <1>4 DEF AdmissionNext

-----------------------------------------------------------------------------
\* The inductive invariant holds of every reachable state.
THEOREM AdmissionInvariant == AdmissionSpec => []AdmissionInv
<1>1. AdmissionInv /\ [AdmissionNext]_admissionVars => AdmissionInv'
  BY AdmissionStep
<1> QED
  BY AdmissionInitInv, <1>1, PTL DEF AdmissionSpec

\* Type correctness of the rate limit's state.
THEOREM AdmissionTypeCorrect == AdmissionSpec => []AdmissionTypeOK
<1>1. AdmissionInv => AdmissionTypeOK
  BY DEF AdmissionInv
<1> QED
  BY AdmissionInvariant, <1>1, PTL

\* The bucket of allow_request never overflows, and what it lacks is no more than
\* what the time it has been set back by will refill.
THEOREM BucketStaysBounded == AdmissionSpec => []BucketBounded
<1>1. AdmissionInv => BucketBounded
  BY DEF AdmissionInv
<1> QED
  BY AdmissionInvariant, <1>1, PTL

\* From any moment on, allow_request admits of one caller at most Limit requests
\* and Limit more per Window, in whatever order the threads settle.
THEOREM RateIsBounded == AdmissionSpec => []RateBound
<1>1. AdmissionInv => RateBound
  <2> SUFFICES ASSUME AdmissionInv PROVE RateBound
    OBVIOUS
  <2> USE AdmissionConstants
  <2>1. /\ time \in Nat /\ bucket.last \in Nat /\ bucket.tokens \in Int
        /\ Capacity \in Nat /\ admitted \in Nat
        /\ bucket.tokens + (time - bucket.last) * Limit >= 0
    BY SpanNat DEF AdmissionInv, AdmissionTypeOK, BucketBounded, Capacity
  <2>2. Elapsed \in Nat /\ Elapsed * Limit \in Nat /\ admitted * Window \in Int
    BY <2>1, SpanNat, IntTimes DEF Elapsed
  <2>3. CASE admitted = 0
    BY <2>1, <2>2, <2>3 DEF RateBound
  <2>4. CASE admitted * Window + bucket.tokens <= Capacity + (bucket.last - From) * Limit
    <3>1. (time - bucket.last) * Limit + (bucket.last - From) * Limit = (time - From) * Limit
      BY <2>1, Spans
    <3>2. /\ (time - bucket.last) * Limit \in Int
          /\ (bucket.last - From) * Limit \in Int
          /\ (time - From) * Limit \in Int
      BY <2>1, IntTimes
    <3>3. admitted * Window <= Capacity + (time - From) * Limit
      BY <2>1, <2>2, <2>4, <3>1, <3>2
    <3>4. CASE time > From
      BY <3>3, <3>4 DEF RateBound, Elapsed
    <3>5. CASE ~(time > From)
      <4>1. (From - time) * Limit \in Nat
        BY <2>1, <3>5, SpanNat
      <4>2. (time - From) * Limit + (From - time) * Limit = (time - time) * Limit
        BY <2>1, Spans
      <4>3. (time - time) * Limit = 0
        BY <2>1
      <4>4. (time - From) * Limit <= 0
        BY <4>1, <4>2, <4>3, <3>2
      <4> QED
        BY <3>2, <3>3, <4>4, <2>1, <2>2 DEF RateBound
    <3> QED
      BY <3>4, <3>5
  <2> QED
    BY <2>3, <2>4 DEF AdmissionInv, Accounted
<1> QED
  BY AdmissionInvariant, <1>1, PTL

\* The rate limit and its bucket, for any limit, window and threads.
THEOREM AdmissionStaysSafe == AdmissionSpec => []AdmissionSafe
<1> QED
  BY AdmissionTypeCorrect, RateIsBounded, BucketStaysBounded, PTL DEF AdmissionSafe

-----------------------------------------------------------------------------
(***************************************************************************)
(* Proofs about Semver: for all versions and ranges, a comparator accepts  *)
(* what it is documented to accept, and for every set of requested ranges  *)
(* the host never picks a lower version after another one is registered.   *)
(***************************************************************************)

Triples == [1..3 -> Nat]

-----------------------------------------------------------------------------
\* What was read is a version.
LEMMA ParsedType ==
    ASSUME NEW n \in 1..3, NEW parts \in [1..n -> Numbers \cup {X}]
    PROVE  /\ parts \in Seq(Numbers \cup {X})
           /\ Len(parts) = n
           /\ Parsed(parts) \in Triples
  <1>1. parts \in Seq(Numbers \cup {X}) /\ Len(parts) = n
    OBVIOUS
  <1>2. \A i \in 1..3 : (i <= Len(parts) /\ parts[i] # X) => parts[i] \in Nat
    <2> SUFFICES ASSUME NEW i \in 1..3, i <= Len(parts), parts[i] # X
                 PROVE  parts[i] \in Nat
      OBVIOUS
    <2>1. i \in 1..n
      BY <1>1
    <2>2. parts[i] \in Numbers \cup {X}
      BY <2>1
    <2>3. Numbers \subseteq Nat
      BY SemverConstants
    <2> QED
      BY <2>2, <2>3, Zenon
  <1> QED
    BY <1>1, <1>2 DEF Parsed, Triples

\* The three numbers of a bumped version.
LEMMA BumpIs ==
    ASSUME NEW v \in Triples, NEW place \in 1..3
    PROVE  /\ Bump(v, place) \in Triples
           /\ \A i \in 1..3 : Bump(v, place)[i] =
                 IF i < place THEN v[i] ELSE IF i = place THEN v[i] + 1 ELSE 0
  BY DEF Bump, Triples

\* A caret accepts the versions from its base on that keep its leading number,
\* or the leading ones that are not 0 (_satisfies_one).
THEOREM CaretExact ==
    ASSUME NEW v \in Triples, NEW base \in Triples
    PROVE  Within(v, base, Bump(base, CaretPlace(base))) <=> KeepsLeading(v, base)
  <1> DEFINE upper == Bump(base, CaretPlace(base))
  <1>0. v[1] \in Nat /\ v[2] \in Nat /\ v[3] \in Nat
    BY DEF Triples
  <1>1. base[1] \in Nat /\ base[2] \in Nat /\ base[3] \in Nat
    BY DEF Triples
  <1>2. CASE base[1] > 0
    <2>1. CaretPlace(base) = 1
      BY <1>2 DEF CaretPlace
    <2>2. upper[1] = base[1] + 1 /\ upper[2] = 0 /\ upper[3] = 0
      BY <2>1, BumpIs
    <2> QED
      BY <1>0, <1>1, <1>2, <2>2 DEF Within, Less, KeepsLeading
  <1>3. CASE base[1] = 0 /\ base[2] > 0
    <2>1. CaretPlace(base) = 2
      BY <1>3 DEF CaretPlace
    <2>2. upper[1] = 0 /\ upper[2] = base[2] + 1 /\ upper[3] = 0
      BY <1>3, <2>1, BumpIs
    <2> QED
      BY <1>0, <1>1, <1>3, <2>2 DEF Within, Less, KeepsLeading
  <1>4. CASE base[1] = 0 /\ base[2] = 0
    <2>1. CaretPlace(base) = 3
      BY <1>4 DEF CaretPlace
    <2>2. upper[1] = 0 /\ upper[2] = 0 /\ upper[3] = base[3] + 1
      BY <1>4, <2>1, BumpIs
    <2> QED
      BY <1>0, <1>1, <1>4, <2>2 DEF Within, Less, KeepsLeading
  <1> QED
    BY <1>1, <1>2, <1>3, <1>4

\* A tilde accepts the later patches of its minor version (_satisfies_one).
THEOREM TildeExact ==
    ASSUME NEW v \in Triples, NEW base \in Triples
    PROVE  Within(v, base, Bump(base, 2)) <=> KeepsMinor(v, base)
  <1> DEFINE upper == Bump(base, 2)
  <1>1. v[1] \in Nat /\ v[2] \in Nat /\ v[3] \in Nat
    BY DEF Triples
  <1>2. base[1] \in Nat /\ base[2] \in Nat /\ base[3] \in Nat
    BY DEF Triples
  <1>3. upper[1] = base[1] /\ upper[2] = base[2] + 1 /\ upper[3] = 0
    BY BumpIs
  <1> QED
    BY <1>1, <1>2, <1>3 DEF Within, Less, KeepsMinor

-----------------------------------------------------------------------------
\* The numbers before the first "x" are those that a bare range fixes.
LEMMA FixedIs ==
    ASSUME NEW n \in 1..3, NEW parts \in [1..n -> Numbers \cup {X}]
    PROVE  /\ Fixed(parts) \in 0..n
           /\ \A i \in 1..Fixed(parts) : parts[i] # X
           /\ Fixed(parts) < n => parts[Fixed(parts) + 1] = X
  <1> DEFINE Fits(k) == /\ \A i \in 1..k : parts[i] # X
                        /\ k < Len(parts) => parts[k + 1] = X
  <1>1. Len(parts) = n
    BY ParsedType
  <1>2. \E k \in 0..Len(parts) : Fits(k)
    <2>1. CASE parts[1] = X
      BY <1>1, <2>1, Fits(0)
    <2>2. CASE parts[1] # X /\ (n = 1 \/ parts[2] = X)
      <3>1. Fits(1)
        BY <1>1, <2>2
      <3> QED
        BY <1>1, <3>1
    <2>3. CASE parts[1] # X /\ n > 1 /\ parts[2] # X /\ (n = 2 \/ parts[3] = X)
      <3>1. Fits(2)
        BY <1>1, <2>3
      <3> QED
        BY <1>1, <2>3, <3>1
    <2>4. CASE parts[1] # X /\ n = 3 /\ parts[2] # X /\ parts[3] # X
      <3>1. Fits(3)
        BY <1>1, <2>4
      <3> QED
        BY <1>1, <2>4, <3>1
    <2> QED
      BY <2>1, <2>2, <2>3, <2>4
  <1> QED
    BY <1>1, <1>2 DEF Fixed

\* A bare range accepts what begins like it (_satisfies_one).
THEOREM BareExact ==
    ASSUME NEW v \in Triples,
           NEW n \in 1..3, NEW parts \in [1..n -> Numbers \cup {X}]
    PROVE  BareSatisfied(v, parts) <=> StartsWith(v, parts)
  <1> DEFINE fixed == Fixed(parts)
             base == Parsed(SubSeq(parts, 1, fixed))
  <1>1. parts \in Seq(Numbers \cup {X}) /\ Len(parts) = n
    BY ParsedType
  <1>2. /\ fixed \in 0..n
        /\ \A i \in 1..fixed : parts[i] # X
        /\ fixed < n => parts[fixed + 1] = X
    BY FixedIs
  <1>3. StartsWith(v, parts) <=> \A i \in 1..fixed : v[i] = parts[i]
    <2>1. StartsWith(v, parts) => \A i \in 1..fixed : v[i] = parts[i]
      BY <1>1, <1>2 DEF StartsWith
    <2>2. (\A i \in 1..fixed : v[i] = parts[i]) => StartsWith(v, parts)
      <3> SUFFICES ASSUME \A i \in 1..fixed : v[i] = parts[i],
                          NEW i \in 1..n, i > fixed
                   PROVE  \E j \in 1..i : parts[j] = X
        BY <1>1, <1>2 DEF StartsWith
      <3> QED
        BY <1>2
    <2> QED
      BY <2>1, <2>2
  <1>4. /\ v[1] \in Nat /\ v[2] \in Nat /\ v[3] \in Nat
        /\ v = [i \in 1..3 |-> v[i]]
    BY DEF Triples
  <1>5. /\ \A i \in 1..fixed : parts[i] \in Nat
        /\ \A i \in 1..3 : base[i] = IF i <= fixed THEN parts[i] ELSE 0
        /\ base \in Triples
    <2>1. \A i \in 1..fixed : parts[i] \in Nat
      <3> SUFFICES ASSUME NEW i \in 1..fixed
                   PROVE  parts[i] \in Nat
        OBVIOUS
      <3>1. i \in 1..n
        BY <1>2
      <3>2. parts[i] \in Numbers \cup {X} /\ parts[i] # X
        BY <3>1, <1>2
      <3>3. Numbers \subseteq Nat
        BY SemverConstants
      <3> QED
        BY <3>2, <3>3, Zenon
    <2>2. Len(SubSeq(parts, 1, fixed)) = fixed
      BY <1>1, <1>2
    <2>3. \A i \in 1..fixed : SubSeq(parts, 1, fixed)[i] = parts[i]
      BY <1>1, <1>2
    <2>4. \A i \in 1..3 : base[i] = IF i <= fixed THEN parts[i] ELSE 0
      BY <1>2, <2>2, <2>3 DEF Parsed
    <2>5. base = [i \in 1..3 |-> base[i]]
      BY DEF Parsed
    <2>6. \A i \in 1..3 : base[i] \in Nat
      BY <1>2, <2>1, <2>4
    <2> HIDE DEF base, fixed
    <2> QED
      BY <2>1, <2>4, <2>5, <2>6 DEF Triples
  <1>6. CASE fixed = 0
    BY <1>3, <1>6 DEF BareSatisfied
  <1>7. CASE fixed = 1
    <2>1. BareSatisfied(v, parts) <=> Within(v, base, Bump(base, 1))
      BY <1>7 DEF BareSatisfied
    <2>2. Bump(base, 1)[1] = base[1] + 1 /\ Bump(base, 1)[2] = 0 /\ Bump(base, 1)[3] = 0
      BY <1>5, BumpIs
    <2>3. base[1] = parts[1] /\ base[2] = 0 /\ base[3] = 0 /\ parts[1] \in Nat
      BY <1>5, <1>7
    <2>4. Within(v, base, Bump(base, 1)) <=> v[1] = base[1]
      <3> HIDE DEF base
      <3> QED
        BY <1>4, <2>2, <2>3 DEF Within, Less
    <2> QED
      BY <1>3, <1>7, <2>1, <2>3, <2>4
  <1>8. CASE fixed = 2
    <2>1. BareSatisfied(v, parts) <=> Within(v, base, Bump(base, 2))
      BY <1>8 DEF BareSatisfied
    <2>2. /\ Bump(base, 2)[1] = base[1]
          /\ Bump(base, 2)[2] = base[2] + 1
          /\ Bump(base, 2)[3] = 0
      BY <1>5, BumpIs
    <2>3. /\ base[1] = parts[1] /\ base[2] = parts[2] /\ base[3] = 0
          /\ parts[1] \in Nat /\ parts[2] \in Nat
      BY <1>5, <1>8
    <2>4. Within(v, base, Bump(base, 2)) <=> v[1] = base[1] /\ v[2] = base[2]
      <3> HIDE DEF base
      <3> QED
        BY <1>4, <2>2, <2>3 DEF Within, Less
    <2> QED
      BY <1>3, <1>8, <2>1, <2>3, <2>4
  <1>9. CASE fixed = 3
    <2>1. BareSatisfied(v, parts) <=> v = base
      BY <1>9 DEF BareSatisfied
    <2>2. base[1] = parts[1] /\ base[2] = parts[2] /\ base[3] = parts[3]
      BY <1>5, <1>9
    <2>3. v = base <=> v[1] = base[1] /\ v[2] = base[2] /\ v[3] = base[3]
      <3> HIDE DEF base
      <3> QED
        BY <1>5 DEF Triples
    <2> QED
      BY <1>3, <1>9, <2>1, <2>2, <2>3
  <1> QED
    BY <1>2, <1>6, <1>7, <1>8, <1>9

-----------------------------------------------------------------------------
LEMMA RegisteredVersions == SemverSpec => [](registered \subseteq Versions)
  <1>1. SemverInit => registered \subseteq Versions
    BY DEF SemverInit
  <1>2. registered \subseteq Versions /\ [SemverNext]_registered
            => (registered \subseteq Versions)'
    BY DEF SemverNext, RegisterVersion
  <1> QED
    BY <1>1, <1>2, PTL DEF SemverSpec

\* Ranges mean what they are documented to mean, for all versions a host
\* registers and everything written in a range.
THEOREM RangesAreExact == SemverSpec => []RangesExact
  <1>1. registered \subseteq Versions => RangesExact
    <2> SUFFICES ASSUME registered \subseteq Versions,
                        NEW v \in registered, NEW parts \in PartsWritten
                 PROVE  LET accepts(op) ==
                              SatisfiesOne(v.core, [op |-> op, parts |-> parts])
                        IN  /\ accepts("^") <=> KeepsLeading(v.core, Parsed(parts))
                            /\ accepts("~") <=> KeepsMinor(v.core, Parsed(parts))
                            /\ accepts("") <=> StartsWith(v.core, parts)
      BY DEF RangesExact
    <2>1. v.core \in Triples
      BY SemverConstants DEF Versions, Cores, Triples
    <2>2. PICK n \in 1..3 : parts \in [1..n -> Numbers \cup {X}]
      BY DEF PartsWritten
    <2>3. Parsed(parts) \in Triples
      BY <2>2, ParsedType
    <2>4. SatisfiesOne(v.core, [op |-> "^", parts |-> parts])
            <=> KeepsLeading(v.core, Parsed(parts))
      BY <2>1, <2>3, CaretExact DEF SatisfiesOne
    <2>5. SatisfiesOne(v.core, [op |-> "~", parts |-> parts])
            <=> KeepsMinor(v.core, Parsed(parts))
      BY <2>1, <2>3, TildeExact DEF SatisfiesOne
    <2>6. SatisfiesOne(v.core, [op |-> "", parts |-> parts])
            <=> StartsWith(v.core, parts)
      BY <2>1, <2>2, BareExact DEF SatisfiesOne
    <2> QED
      BY <2>4, <2>5, <2>6
  <1> QED
    BY <1>1, RegisteredVersions, PTL

\* Registering another version never makes the host pick a lower one.
THEOREM HostNeverDowngrades == SemverSpec => NeverDowngrades
  <1>1. registered \subseteq Versions /\ SemverNext => KeepsPick
    <2> SUFFICES ASSUME registered \subseteq Versions, SemverNext,
                        NEW range \in Ranges,
                        NEW v \in Picks(registered, range),
                        NEW w \in Picks(registered', range)
                 PROVE  ~Less(w.core, v.core)
      BY DEF KeepsPick
    <2>1. registered' \subseteq Versions /\ registered \subseteq registered'
      BY DEF SemverNext, RegisterVersion
    <2>2. v \in Matching(registered', range)
      BY <2>1 DEF Picks, Matching
    <2>3. v = w \/ Prefers(w, v)
      BY <2>2 DEF Picks
    <2>4. w \in Versions /\ v \in Versions
      BY <2>1, <2>2 DEF Picks, Matching
    <2>5. v.core \in Triples /\ w.core \in Triples
      BY <2>4, SemverConstants DEF Versions, Cores, Triples
    <2>6. v.core[1] \in Nat /\ v.core[2] \in Nat /\ v.core[3] \in Nat
      BY <2>5 DEF Triples
    <2>7. w.core[1] \in Nat /\ w.core[2] \in Nat /\ w.core[3] \in Nat
      BY <2>5 DEF Triples
    <2> QED
      BY <2>3, <2>6, <2>7 DEF Prefers, Less
  <1>2. registered \subseteq Versions /\ [SemverNext]_registered => [KeepsPick]_registered
    BY <1>1
  <1> QED
    BY <1>2, RegisteredVersions, PTL DEF SemverSpec, NeverDowngrades

\* The comparison of versions is a strict order, and total.
LEMMA TriplesOrdered ==
  /\ \A v \in Triples : ~Less(v, v)
  /\ \A v, w \in Triples : /\ ~(Less(v, w) /\ Less(w, v))
                          /\ v # w => Less(v, w) \/ Less(w, v)
  /\ \A u, v, w \in Triples : Less(u, v) /\ Less(v, w) => Less(u, w)
  <1>1. \A v \in Triples : v[1] \in Nat /\ v[2] \in Nat /\ v[3] \in Nat
    BY DEF Triples
  <1>2. \A v, w \in Triples : v[1] = w[1] /\ v[2] = w[2] /\ v[3] = w[3] => v = w
    BY DEF Triples
  <1> QED
    BY <1>1, <1>2 DEF Less

\* Of two versions the host has a preference for one, and of three in a row for
\* the first over the last.
LEMMA PreferenceIsTotal ==
  ASSUME NEW v \in Versions, NEW w \in Versions, v # w
  PROVE  /\ Prefers(v, w) \/ Prefers(w, v)
         /\ ~(Prefers(v, w) /\ Prefers(w, v))
  <1>1. /\ v.core \in Triples /\ w.core \in Triples
        /\ v.tagged \in BOOLEAN /\ w.tagged \in BOOLEAN
    BY SemverConstants DEF Versions, Cores, Triples
  <1>2. v.core = w.core => v.tagged # w.tagged
    BY DEF Versions
  <1>3. /\ ~Less(v.core, v.core) /\ ~Less(w.core, w.core)
        /\ ~(Less(v.core, w.core) /\ Less(w.core, v.core))
        /\ v.core # w.core => Less(v.core, w.core) \/ Less(w.core, v.core)
    BY <1>1, TriplesOrdered
  <1> QED
    BY <1>1, <1>2, <1>3 DEF Prefers

LEMMA PreferenceCarries ==
  ASSUME NEW u \in Versions, NEW v \in Versions, NEW w \in Versions,
         Prefers(u, v), Prefers(v, w)
  PROVE  Prefers(u, w)
  <1>1. u.core \in Triples /\ v.core \in Triples /\ w.core \in Triples
    BY SemverConstants DEF Versions, Cores, Triples
  <1>2. Less(w.core, v.core) /\ Less(v.core, u.core) => Less(w.core, u.core)
    BY <1>1, TriplesOrdered
  <1> QED
    BY <1>2 DEF Prefers

\* One more version is the pick of a range, or leaves it as it was.
LEMMA PickMoves ==
  ASSUME registered \subseteq Versions, PicksOne, SemverNext,
         NEW range \in Ranges, Matching(registered', range) # {}
  PROVE  \E p : Picks(registered', range) = {p}
  <1>1. PICK w \in Versions : registered' = registered \cup {w}
    BY DEF SemverNext, RegisterVersion
  <1>2. \A S : S \subseteq Versions =>
           \A p, q \in Picks(S, range) : p = q
    BY PreferenceIsTotal DEF Picks, Matching
  <1>3. \E p : p \in Picks(registered', range)
    <2>1. CASE Matching(registered, range) = {}
      <3>1. Matching(registered', range) = {w}
        BY <1>1, <2>1 DEF Matching
      <3> QED
        BY <3>1 DEF Picks
    <2>2. CASE Matching(registered, range) # {}
      <3>1. PICK p : p \in Picks(registered, range)
        <4>1. Cardinality(Picks(registered, range)) = 1
          BY <2>2 DEF PicksOne
        <4> QED
          BY <4>1, FS_EmptySet
      <3>2. /\ p \in Matching(registered, range) /\ p \in Versions
            /\ \A v \in Matching(registered, range) : v # p => Prefers(p, v)
        BY <3>1 DEF Picks, Matching
      <3>3. CASE w \notin Matching(registered', range)
        <4>1. Matching(registered', range) = Matching(registered, range)
          BY <1>1, <3>3 DEF Matching
        <4> QED
          BY <3>1, <4>1 DEF Picks
      <3>4. CASE w \in Matching(registered', range)
        <4>1. Matching(registered', range) = Matching(registered, range) \cup {w}
          BY <1>1, <3>4 DEF Matching
        <4>2. CASE w = p \/ Prefers(p, w)
          <5>1. \A v \in Matching(registered', range) : v # p => Prefers(p, v)
            BY <3>2, <4>1, <4>2
          <5> QED
            BY <3>2, <4>1, <5>1 DEF Picks
        <4>3. CASE w # p /\ Prefers(w, p)
          <5>1. ASSUME NEW v \in Matching(registered', range), v # w
                PROVE  Prefers(w, v)
            <6>1. v = p \/ Prefers(p, v)
              BY <3>2, <4>1, <5>1
            <6>2. v \in Versions
              BY <1>1, <5>1 DEF Matching
            <6> QED
              BY <3>2, <4>3, <6>1, <6>2, PreferenceCarries
          <5> QED
            BY <3>4, <5>1 DEF Picks
        <4> QED
          BY <3>2, <4>2, <4>3, PreferenceIsTotal
      <3> QED
        BY <3>3, <3>4
    <2> QED
      BY <2>1, <2>2
  <1>4. registered' \subseteq Versions
    BY <1>1
  <1>5. PICK p : p \in Picks(registered', range)
    BY <1>3
  <1>6. \A q \in Picks(registered', range) : q = p
    BY <1>2, <1>4, <1>5
  <1>7. Picks(registered', range) = {p}
    BY <1>5, <1>6
  <1> QED
    BY <1>7

\* Whatever is registered, in whatever order, the host picks exactly one of the
\* versions in a range that has some (best_satisfying).
THEOREM PickIsUnique == SemverSpec => [](registered \subseteq Versions /\ PicksOne)
  <1>1. SemverInit => registered \subseteq Versions /\ PicksOne
    BY DEF SemverInit, PicksOne, Matching
  <1>2. registered \subseteq Versions /\ PicksOne /\ [SemverNext]_registered
            => (registered \subseteq Versions /\ PicksOne)'
    <2> SUFFICES ASSUME registered \subseteq Versions, PicksOne, [SemverNext]_registered
                 PROVE  (registered \subseteq Versions /\ PicksOne)'
      OBVIOUS
    <2>1. CASE UNCHANGED registered
      BY <2>1 DEF PicksOne, Matching, Picks
    <2>2. CASE SemverNext
      <3>1. registered' \subseteq Versions
        BY <2>2 DEF SemverNext, RegisterVersion
      <3>2. ASSUME NEW range \in Ranges, Matching(registered', range) # {}
            PROVE  Cardinality(Picks(registered', range)) = 1
        <4>1. PICK p : Picks(registered', range) = {p}
          BY <2>2, <3>2, PickMoves
        <4> QED
          BY <4>1, FS_Singleton
      <3> QED
        BY <3>1, <3>2 DEF PicksOne
    <2> QED
      BY <2>1, <2>2
  <1> QED
    BY <1>1, <1>2, PTL DEF SemverSpec

\* However a host comes to have versions, ranges mean what they are documented to
\* mean, the host picks one version, and no registration downgrades it.
THEOREM VersionsStayHeld == SemverSpec => VersionsHold
  <1>1. RangesExact' /\ PicksOne' /\ [KeepsPick]_registered
            => [RangesExact' /\ PicksOne' /\ KeepsPick]_registered
    OBVIOUS
  <1> QED
    BY <1>1, RangesAreExact, PickIsUnique, HostNeverDowngrades, PTL
       DEF VersionsHold, NeverDowngrades
=============================================================================
