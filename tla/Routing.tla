------------------------------- MODULE Routing -------------------------------
(***************************************************************************)
(* MultiHostRouter (chp_host/router.py): the circuit breaker of each host, *)
(* the order in which the owners of a capability are tried, and the        *)
(* threads that share the breaker: request threads (ainvoke), replays, the *)
(* health prober and the catalog refresher.                                *)
(*                                                                         *)
(* The breaker lives in plain dictionaries that no lock guards.  A method  *)
(* is cut where what another thread does in between changes what the code  *)
(* goes on to decide; the entries written on one side of a cut are written *)
(* together.  What a call to a host finds is decided when the host answers.*)
(***************************************************************************)
EXTENDS Integers, Sequences, FiniteSets

CONSTANTS
    Hosts,
    Order,       \* the hosts in the order of their transports
    Threads,
    Work,        \* the rounds a thread makes: request threads serve "invoke",
                 \* "replay" and "probe" (health), the prober "probe", the
                 \* refresher "refresh"
    Selections,  \* the gateway's selection settings considered
    Affinities,  \* the sets of hosts a caller's `prefer` may match
    Threshold,   \* breaker_threshold
    TripCap      \* trips after which the window no longer grows: 2^3 = 8

ASSUME RoutingConstants ==
    /\ Order \in Seq(Hosts)
    /\ \A h \in Hosts : \E n \in DOMAIN Order : Order[n] = h
    /\ \A n, m \in DOMAIN Order : Order[n] = Order[m] => n = m
    /\ Work \in [Threads -> SUBSET {"invoke", "replay", "probe", "refresh"}]
    /\ Selections \subseteq {"first", "round_robin", "least_loaded"}
    /\ Affinities \subseteq SUBSET Hosts
    /\ Threshold \in Nat \ {0}
    /\ TripCap \in Nat \ {0}

VARIABLES
    selection, \* the configured selection
    breaker,   \* _unhealthy: "closed" (no entry), "open", "elapsed"
    failures,  \* _failure_counts, counted up to Threshold; 0: no entry
    trips,     \* _trip_counts, counted up to TripCap; 0: no entry
    probing,   \* _half_open_probe
    rr,        \* _rr of the capability
    known,     \* the hosts with a descriptor: the owners in _routes
    told,      \* the last health transition of each host on the gateway's chain
    at,        \* where each thread is
    kind,      \* the round it is making
    round,     \* the hosts this round of the thread is about
    todo,      \* those it has still to deal with, the current one first
    healthy,   \* the lists _ordered_candidates has built so far
    rest,
    owed,      \* history: the owners the invocation has not attempted
    moved      \* history: those another thread made healthier meanwhile

breakers == <<breaker, failures, trips, probing>>
control == <<at, kind, round, todo, healthy, rest, owed, moved>>
vars == <<selection, breakers, rr, known, told, control>>

Locations == {"idle", "stats", "first", "second", "order", "ask", "contact",
              "bump", "check", "trip", "rearm", "tell_unhealthy",
              "clear", "restore", "tell_healthy"}

Elements(s) == {s[n] : n \in DOMAIN s}

Least(a, b) == IF a < b THEN a ELSE b

Go(t, l) == at' = [at EXCEPT ![t] = l]

Host(t) == Head(todo[t])

\* The elements of s that are in kept, in their order: SelectSeq, as a recursive
\* function.
Kept(s, kept) ==
    LET upTo[n \in 0..Len(s)] ==
            IF n = 0 THEN <<>>
            ELSE IF s[n] \in kept THEN Append(upTo[n - 1], s[n]) ELSE upTo[n - 1]
    IN  upTo

Keep(s, kept) == Kept(s, kept)[Len(s)]

Among(hosts) == Keep(Order, hosts)

-----------------------------------------------------------------------------
(***************************************************************************)
(* _is_healthy: a closed breaker, or the one trial of a half-open one.     *)
(***************************************************************************)
Admits(h) == breaker[h] = "closed" \/ (breaker[h] = "elapsed" /\ ~probing[h])

Ask(h) == probing' = [probing EXCEPT ![h] = @ \/ breaker[h] = "elapsed"]

\* _is_healthy may begin to admit h while invocations are ordering their owners:
\* its window ends, its entry goes, or its half-open probe is free again.
Notice(h) ==
    moved' = [t \in Threads |->
                IF at[t] \in {"first", "second"}
                THEN moved[t] \cup ({h} \cap owed[t]) ELSE moved[t]]

Return(t) ==
    /\ Go(t, "idle")
    /\ kind' = [kind EXCEPT ![t] = "none"]
    /\ round' = [round EXCEPT ![t] = <<>>]
    /\ todo' = [todo EXCEPT ![t] = <<>>]
    /\ owed' = [owed EXCEPT ![t] = {}]
    /\ moved' = [moved EXCEPT ![t] = {}]

\* Mutant of Resume: the failed owner is tried again.
ResumeAtSameHost(t, served) ==
    /\ Go(t, IF kind[t] = "refresh" THEN "clear"
             ELSE IF kind[t] = "replay" THEN "ask" ELSE "contact")
    /\ todo' = IF served THEN [todo EXCEPT ![t] = Tail(@)] ELSE todo
    /\ UNCHANGED <<kind, round, owed, moved>>

\* What a thread does next once the host at the head of todo is dealt with.
Resume(t, served) ==
    LET after == CASE kind[t] = "refresh" -> "clear"
                   [] kind[t] = "replay"  -> "ask"
                   [] OTHER               -> "contact"
    IN  IF kind[t] = "invoke" /\ served THEN Return(t)
        ELSE /\ Go(t, after)
             /\ todo' = [todo EXCEPT ![t] = Tail(@)]
             /\ UNCHANGED <<kind, round, owed, moved>>

-----------------------------------------------------------------------------
\* After connect(): the hosts that did not answer were marked unhealthy.
Init ==
    /\ known \in (SUBSET Hosts) \ {{}}
    /\ selection \in Selections
    /\ breaker = [h \in Hosts |->
                    IF h \in known \/ Threshold > 1 THEN "closed" ELSE "open"]
    /\ failures = [h \in Hosts |-> IF h \in known THEN 0 ELSE 1]
    /\ trips = [h \in Hosts |-> IF breaker[h] = "open" THEN 1 ELSE 0]
    /\ probing = [h \in Hosts |-> FALSE]
    /\ rr = 0
    /\ told = [h \in Hosts |->
                 IF breaker[h] = "open" THEN "unhealthy" ELSE "healthy"]
    /\ at = [t \in Threads |-> "idle"]
    /\ kind = [t \in Threads |-> "none"]
    /\ round = [t \in Threads |-> <<>>]
    /\ todo = [t \in Threads |-> <<>>]
    /\ healthy = [t \in Threads |-> <<>>]
    /\ rest = [t \in Threads |-> <<>>]
    /\ owed = [t \in Threads |-> {}]
    /\ moved = [t \in Threads |-> {}]

\* Where an invocation begins.
FirstStop == IF selection = "least_loaded" THEN "stats" ELSE "first"

\* A request, a replay, a tick of the prober or of the refresher.  The refresher
\* asks all hosts at once and goes through those that answered.
Begin(t) ==
    \E work \in Work[t], answering \in SUBSET Hosts :
        LET hosts == CASE work = "invoke"  -> Among(known)
                       [] work = "refresh" -> Among(answering)
                       [] OTHER            -> Order
        IN  /\ at[t] = "idle"
            /\ Go(t, CASE work = "invoke"  -> FirstStop
                       [] work = "refresh" -> "clear"
                       [] work = "replay"  -> "ask"
                       [] OTHER            -> "contact")
            /\ kind' = [kind EXCEPT ![t] = work]
            /\ round' = [round EXCEPT ![t] = hosts]
            /\ todo' = [todo EXCEPT ![t] = hosts]
            /\ owed' = [owed EXCEPT ![t] = IF work = "invoke" THEN known
                                        ELSE {}]
            /\ UNCHANGED <<selection, breakers, rr, known, told, healthy, rest,
                           moved>>

-----------------------------------------------------------------------------
(***************************************************************************)
(* The order of the owners                                                 *)
(***************************************************************************)
\* _refresh_stats asks _is_healthy of every owner; what it learns only orders.
AskForStats(t) ==
    /\ at[t] = "stats"
    /\ IF todo[t] # <<>>
       THEN /\ Ask(Host(t))
            /\ todo' = [todo EXCEPT ![t] = Tail(@)]
            /\ UNCHANGED at
       ELSE /\ Go(t, "first")
            /\ todo' = [todo EXCEPT ![t] = round[t]]
            /\ UNCHANGED probing
    /\ UNCHANGED <<selection, breaker, failures, trips, rr, known, told, kind,
                   round, healthy, rest, owed, moved>>

\* healthy = [tr for tr in owners if self._is_healthy(tr)]
FirstPass(t) ==
    /\ at[t] = "first"
    /\ IF todo[t] # <<>>
       THEN /\ Ask(Host(t))
            /\ healthy' = IF Admits(Host(t))
                          THEN [healthy EXCEPT ![t] = Append(@, Host(t))]
                          ELSE healthy
            /\ todo' = [todo EXCEPT ![t] = Tail(@)]
            /\ UNCHANGED at
       ELSE /\ Go(t, "second")
            /\ todo' = [todo EXCEPT ![t] = round[t]]
            /\ UNCHANGED <<probing, healthy>>
    /\ UNCHANGED <<selection, breaker, failures, trips, rr, known, told, kind,
                   round, rest, owed, moved>>

\* unhealthy = [tr for tr in owners if not self._is_healthy(tr)]
SecondPass(t) ==
    /\ at[t] = "second"
    /\ IF todo[t] # <<>>
       THEN /\ Ask(Host(t))
            /\ rest' = IF Admits(Host(t)) THEN rest
                       ELSE [rest EXCEPT ![t] = Append(@, Host(t))]
            /\ todo' = [todo EXCEPT ![t] = Tail(@)]
            /\ UNCHANGED at
       ELSE /\ Go(t, "order")
            /\ UNCHANGED <<probing, rest, todo>>
    /\ UNCHANGED <<selection, breaker, failures, trips, rr, known, told, kind,
                   round, healthy, owed, moved>>

Rotate(s, n) == SubSeq(s, n + 1, Len(s)) \o SubSeq(s, 1, n)

\* The orders least_loaded may sort a list into.
Shuffles(s) ==
    {p \in [DOMAIN s -> Elements(s)] : Elements(p) = Elements(s)}

\* Mutant of Prefer: the affinity is a hard pin.
PreferOnly(s, wanted) ==
    LET preferred == Keep(s, wanted)
    IN  IF preferred = <<>> THEN s ELSE preferred

Prefer(s, wanted) ==
    Keep(s, wanted) \o Keep(s, Hosts \ wanted)

\* Mutant of Turn: the rotation never wraps.
TurnUnwrapped(s) == rr

\* idx, the place of the round-robin rotation among the healthy owners.
Turn(s) == rr % Len(s)

OrderCandidates(t) ==
    LET list == healthy[t]
        many == Len(list) > 1
    IN  /\ at[t] = "order"
        /\ \E base \in CASE selection = "round_robin" /\ many ->
                               {Rotate(list, Turn(list))}
                         [] selection = "least_loaded" /\ many -> Shuffles(list)
                         [] OTHER -> {list},
              wanted \in Affinities :
              todo' = [todo EXCEPT ![t] = Prefer(base, wanted) \o rest[t]]
        /\ rr' = IF selection = "round_robin" /\ many
                 THEN Turn(list) + 1 ELSE rr
        /\ round' = [round EXCEPT ![t] = <<>>]
        /\ healthy' = [healthy EXCEPT ![t] = <<>>]
        /\ rest' = [rest EXCEPT ![t] = <<>>]
        /\ Go(t, "contact")
        /\ UNCHANGED <<selection, breakers, known, told, kind, owed, moved>>

-----------------------------------------------------------------------------
(***************************************************************************)
(* Calls to a host                                                         *)
(***************************************************************************)
\* ainvoke's attempts and health()'s probes.
Contact(t) ==
    /\ at[t] = "contact"
    /\ todo[t] # <<>>
    /\ \E answers \in BOOLEAN : Go(t, IF answers THEN "clear" ELSE "bump")
    /\ owed' = [owed EXCEPT ![t] = @ \ {Host(t)}]
    /\ UNCHANGED <<selection, breakers, rr, known, told, kind, round, todo,
                   healthy, rest, moved>>

\* No candidate is left: health() is done, an invocation is denied
\* host_unreachable.
Denying(t) == at[t] = "contact" /\ todo[t] = <<>> /\ kind[t] = "invoke"

GiveUp(t) ==
    /\ at[t] = "contact"
    /\ todo[t] = <<>>
    /\ Return(t)
    /\ UNCHANGED <<selection, breakers, rr, known, told, healthy, rest>>

\* _replay_with_missing: only hosts that pass for healthy are asked for their
\* events, and an answer marks nothing.
ReplayFrom(t) ==
    /\ at[t] = "ask"
    /\ IF todo[t] = <<>> THEN Return(t) /\ UNCHANGED probing
       ELSE /\ Ask(Host(t))
            /\ \/ /\ Admits(Host(t))
                  /\ Go(t, "bump")
                  /\ UNCHANGED todo
               \/ /\ todo' = [todo EXCEPT ![t] = Tail(@)]
                  /\ UNCHANGED at
            /\ UNCHANGED <<kind, round, owed, moved>>
    /\ UNCHANGED <<selection, breaker, failures, trips, rr, known, told,
                   healthy, rest>>

\* _refresh_catalog has gone through the answers: the new tables are swapped in.
SwapCatalog(t) ==
    /\ at[t] = "clear"
    /\ todo[t] = <<>>
    /\ known' = known \cup Elements(round[t])
    /\ Return(t)
    /\ UNCHANGED <<selection, breakers, rr, told, healthy, rest>>

-----------------------------------------------------------------------------
(***************************************************************************)
(* _mark_unhealthy                                                         *)
(***************************************************************************)
BumpFailures(t) ==
    /\ at[t] = "bump"
    /\ probing' = [probing EXCEPT ![Host(t)] = FALSE]
    /\ failures' = [failures EXCEPT ![Host(t)] = Least(@ + 1, Threshold)]
    /\ Go(t, "check")
    /\ Notice(Host(t))
    /\ UNCHANGED <<selection, breaker, trips, rr, known, told, kind, round,
                   todo, healthy, rest, owed>>

\* The count is read again; another thread may have popped it: KeyError.
Raising(t) ==
    at[t] = "check" /\ breaker[Host(t)] = "closed" /\ failures[Host(t)] = 0

CheckThreshold(t) ==
    LET wasHealthy == breaker[Host(t)] = "closed"
        tripping == failures[Host(t)] = Threshold
    IN  /\ at[t] = "check"
        /\ \/ Raising(t) /\ Return(t)
           \/ /\ wasHealthy /\ ~Raising(t) /\ ~tripping
              /\ Resume(t, FALSE)
           \/ /\ ~wasHealthy \/ tripping
              /\ Go(t, IF wasHealthy THEN "trip" ELSE "rearm")
              /\ UNCHANGED <<kind, round, todo, owed, moved>>
        /\ UNCHANGED <<selection, breakers, rr, known, told, healthy, rest>>

\* A transition: one trip more, a new window, and an event.
Trip(t) ==
    /\ at[t] = "trip"
    /\ trips' = [trips EXCEPT ![Host(t)] = Least(@ + 1, TripCap)]
    /\ breaker' = [breaker EXCEPT ![Host(t)] = "open"]
    /\ Go(t, "tell_unhealthy")
    /\ UNCHANGED <<selection, failures, probing, rr, known, told, kind, round,
                   todo, healthy, rest, owed, moved>>

\* The host was unhealthy already: a new window, and silence.
Rearm(t) ==
    /\ at[t] = "rearm"
    /\ breaker' = [breaker EXCEPT ![Host(t)] = "open"]
    /\ Resume(t, FALSE)
    /\ UNCHANGED <<selection, failures, trips, probing, rr, known, told,
                   healthy, rest>>

(***************************************************************************)
(* _mark_healthy                                                           *)
(***************************************************************************)
\* Mutant of ClearCounts: the refresher marks nothing.
ClearUnlessRefreshing(t) ==
    /\ at[t] = "clear"
    /\ todo[t] # <<>>
    /\ IF kind[t] = "refresh" THEN Resume(t, TRUE)
       ELSE /\ Go(t, "restore")
            /\ UNCHANGED <<kind, round, todo, owed, moved>>
    /\ UNCHANGED <<selection, breakers, rr, known, told, healthy, rest>>

ClearCounts(t) ==
    /\ at[t] = "clear"
    /\ todo[t] # <<>>
    /\ probing' = [probing EXCEPT ![Host(t)] = FALSE]
    /\ failures' = [failures EXCEPT ![Host(t)] = 0]
    /\ trips' = [trips EXCEPT ![Host(t)] = 0]
    /\ Go(t, "restore")
    /\ Notice(Host(t))
    /\ UNCHANGED <<selection, breaker, rr, known, told, kind, round, todo,
                   healthy, rest, owed>>

\* Popping the entry decides, atomically, who tells.
Restore(t) ==
    /\ at[t] = "restore"
    /\ breaker' = [breaker EXCEPT ![Host(t)] = "closed"]
    /\ IF breaker[Host(t)] = "closed" THEN Resume(t, TRUE)
       ELSE /\ Go(t, "tell_healthy")
            /\ Notice(Host(t))
            /\ UNCHANGED <<kind, round, todo, owed>>
    /\ UNCHANGED <<selection, failures, trips, probing, rr, known, told,
                   healthy, rest>>

\* _emit_routing_event
Tell(t) ==
    \E state \in {"healthy", "unhealthy"} :
        /\ at[t] = IF state = "healthy" THEN "tell_healthy"
                   ELSE "tell_unhealthy"
        /\ told' = [told EXCEPT ![Host(t)] = state]
        /\ Resume(t, state = "healthy")
        /\ UNCHANGED <<selection, breakers, rr, known, healthy, rest>>

-----------------------------------------------------------------------------
\* A recheck window ends.
Elapse(h) ==
    /\ breaker[h] = "open"
    /\ breaker' = [breaker EXCEPT ![h] = "elapsed"]
    /\ Notice(h)
    /\ UNCHANGED <<selection, failures, trips, probing, rr, known, told, at,
                   kind, round, todo, healthy, rest, owed>>

Step(t) ==
    \/ AskForStats(t) \/ FirstPass(t) \/ SecondPass(t) \/ OrderCandidates(t)
    \/ Contact(t) \/ GiveUp(t) \/ ReplayFrom(t) \/ SwapCatalog(t)
    \/ BumpFailures(t) \/ CheckThreshold(t) \/ Trip(t) \/ Rearm(t)
    \/ ClearCounts(t) \/ Restore(t) \/ Tell(t)

Next ==
    \/ \E t \in Threads : Begin(t) \/ Step(t)
    \/ \E h \in Hosts : Elapse(h)

Spec == Init /\ [][Next]_vars

\* Threads in a round go on, windows end, the refresher ticks.  Nothing is
\* assumed of callers, of the prober, or of the hosts.
FairSpec ==
    /\ Spec
    /\ \A t \in Threads : WF_vars(Step(t))
    /\ \A t \in Threads : "refresh" \in Work[t] => WF_vars(Begin(t))
    /\ \A h \in Hosts : WF_vars(Elapse(h))

-----------------------------------------------------------------------------
(***************************************************************************)
(* Properties                                                              *)
(***************************************************************************)
\* Type correctness of the breaker and of the threads.
TypeOK ==
    /\ selection \in Selections
    /\ breaker \in [Hosts -> {"closed", "open", "elapsed"}]
    /\ failures \in [Hosts -> 0..Threshold]
    /\ trips \in [Hosts -> 0..TripCap]
    /\ probing \in [Hosts -> BOOLEAN]
    /\ rr \in 0..Len(Order)
    /\ known \subseteq Hosts
    /\ told \in [Hosts -> {"healthy", "unhealthy"}]
    /\ at \in [Threads -> Locations]
    /\ kind \in [Threads -> {"none", "invoke", "replay", "probe", "refresh"}]
    /\ round \in [Threads -> Seq(Hosts)]
    /\ todo \in [Threads -> Seq(Hosts)]
    /\ healthy \in [Threads -> Seq(Hosts)]
    /\ rest \in [Threads -> Seq(Hosts)]
    /\ owed \in [Threads -> SUBSET Hosts]
    /\ moved \in [Threads -> SUBSET Hosts]

\* "Unhealthy kept as a last resort": an invocation is denied host_unreachable
\* only after it has attempted every owner, whatever their breakers say, save
\* one that _is_healthy began to admit between the two passes over the owners.
NeverGivenUp == \A t \in Threads : Denying(t) => owed[t] \subseteq moved[t]

\* The same without the exception: no owner falls between the two passes of
\* _ordered_candidates.
LastResort == \A t \in Threads : Denying(t) => owed[t] = {}

\* Every invocation is answered, however hosts come and go.
InvocationsEnd == \A t \in Threads : kind[t] = "invoke" ~> kind[t] = "none"

\* A host that answers the refresher again and again, and from some time on
\* everybody, returns to the rotation for good, although replays and orderings
\* leave its half-open probe claimed.
Answering(h) ==
    \E t \in Threads : at[t] = "clear" /\ todo[t] # <<>> /\ Host(t) = h

Failing(h) ==
    \E t \in Threads : at[t] = "bump" /\ Host(t) = h

RecoveredHostReturns ==
    \A h \in Hosts :
        ([]<>Answering(h) /\ <>[]~Failing(h)) => <>[](breaker[h] = "closed")

\* "A tripped host's recheck window escalates x2 per repeat trip, capped at 8x":
\* a host that fails again after its window has ended gets the next window.
RepeatTripsEscalate ==
    [][\A h \in Hosts :
          (breaker[h] = "elapsed" /\ breaker'[h] = "open")
          => (trips'[h] > trips[h] \/ trips[h] = TripCap)]_vars

\* "Never a bare 5xx": no invocation ends in an exception of the breaker.
NeverRaises == \A t \in Threads : kind[t] = "invoke" => ~Raising(t)

\* "half-open admits one probe": no invocation has an owner twice among its
\* candidates.
TriedOnce ==
    \A t \in Threads :
        (kind[t] = "invoke" /\ at[t] = "contact")
        => \A n, m \in DOMAIN todo[t] : todo[t][n] = todo[t][m] => n = m

\* The chain says of every host what its breaker says, unless a thread is about
\* to tell.
ChainTellsState ==
    (\A t \in Threads : at[t] \notin {"tell_healthy", "tell_unhealthy"})
    => \A h \in Hosts : (told[h] = "healthy") <=> (breaker[h] = "closed")
=============================================================================
