-------------------------------- MODULE Circuit --------------------------------
(***************************************************************************)
(* The circuit breaker of chp-adapter-http, for one origin: handler        *)
(* threads that send requests, retry them after transport failures, and    *)
(* share the origin's failure count and the moment until which its circuit *)
(* is open.  Both are read and written with a lock; the origin is asked    *)
(* without it.  There is no trial request: once the window is over,        *)
(* everybody may ask again.                                                *)
(*                                                                         *)
(* Time is what is left of the window.  The failure count is only compared *)
(* with the threshold, so it stops there.                                  *)
(***************************************************************************)
EXTENDS Integers, FiniteSets

CONSTANTS
    Askers,    \* handler threads
    Retries,   \* max_retries
    Threshold, \* circuit_threshold
    Cooldown   \* circuit_cooldown, in ticks

ASSUME CircuitConstants ==
    /\ IsFiniteSet(Askers) /\ Askers # {}
    /\ Retries \in Nat
    /\ Threshold \in Nat \ {0}
    /\ Cooldown \in Nat \ {0}

VARIABLES
    failures, \* the origin's consecutive failures, at most Threshold
    left,     \* how long its circuit stays open
    up,       \* the origin can be reached
    asking,   \* what each thread is doing, and its attempts
    sent      \* history: attempts made since the circuit last opened, while it is

circuitVars == <<failures, left, up, asking, sent>>

Free == [stage |-> "free", attempts |-> 0]

-----------------------------------------------------------------------------
CircuitInit ==
    /\ failures = 0
    /\ left = 0
    /\ up = TRUE
    /\ asking = [t \in Askers |-> Free]
    /\ sent = 0

\* The origin goes down or comes back.
Turn ==
    /\ up' = ~up
    /\ UNCHANGED <<failures, left, asking, sent>>

Pass ==
    /\ left > 0
    /\ left' = left - 1
    /\ sent' = IF left = 1 THEN 0 ELSE sent
    /\ UNCHANGED <<failures, up, asking>>

\* _circuit_record(success=False)
CountFailure ==
    LET count == IF failures < Threshold THEN failures + 1 ELSE failures
    IN  /\ failures' = count
        /\ left' = IF count >= Threshold THEN Cooldown ELSE left

\* _circuit_record(success=True)
CountSuccess ==
    /\ failures' = 0
    /\ left' = 0

Sending(attempts) == [stage |-> "sending", attempts |-> attempts]

\* What a call may use: `request` Retries + 1 attempts, `stream` one.
Allowances == {1, Retries + 1}

StartCall(t) ==
    /\ \E attempts \in Allowances : asking' = [asking EXCEPT ![t] = Sending(attempts)]
    /\ UNCHANGED <<failures, left, up, sent>>

\* Mutant of Ask: an open circuit refuses nobody.
AskAnyway(t) == asking[t] = Free /\ StartCall(t)

\* _circuit_is_open: an open circuit fails a call at once, and nothing changes.
Ask(t) ==
    /\ asking[t] = Free
    /\ \/ left = 0 /\ StartCall(t)
       \/ left > 0 /\ UNCHANGED circuitVars

\* client.request or client.stream: an answer whatever its status, or an
\* httpx.HTTPError.
Attempt(t) ==
    /\ asking[t].stage = "sending"
    /\ asking' = [asking EXCEPT ![t].stage = IF up THEN "answered" ELSE "failed",
                                ![t].attempts = @ - 1]
    /\ sent' = IF left > 0 THEN sent + 1 ELSE sent
    /\ UNCHANGED <<failures, left, up>>

\* After the backoff.
TryAgain(t) ==
    /\ asking[t].stage = "failed"
    /\ asking[t].attempts > 0
    /\ asking' = [asking EXCEPT ![t].stage = "sending"]
    /\ UNCHANGED <<failures, left, up, sent>>

Fail(t) ==
    /\ asking[t].stage = "failed"
    /\ asking[t].attempts = 0
    /\ CountFailure
    /\ asking' = [asking EXCEPT ![t] = Free]
    /\ UNCHANGED <<up, sent>>

Succeed(t) ==
    /\ asking[t].stage = "answered"
    /\ CountSuccess
    /\ asking' = [asking EXCEPT ![t] = Free]
    /\ sent' = 0
    /\ UNCHANGED up

GoesOn(t) == Attempt(t) \/ TryAgain(t) \/ Fail(t) \/ Succeed(t)

-----------------------------------------------------------------------------
CircuitNext ==
    \/ Turn
    \/ Pass
    \/ \E t \in Askers : Ask(t) \/ GoesOn(t)

\* Time passes, and a call that was begun goes on.
CircuitFairness ==
    /\ WF_circuitVars(Pass)
    /\ \A t \in Askers : WF_circuitVars(GoesOn(t))

CircuitSpec == CircuitInit /\ [][CircuitNext]_circuitVars /\ CircuitFairness

-----------------------------------------------------------------------------
(***************************************************************************)
(* Properties                                                              *)
(***************************************************************************)
CircuitTypeOK ==
    /\ failures \in 0..Threshold
    /\ left \in 0..Cooldown
    /\ left > 0 => failures = Threshold
    /\ up \in BOOLEAN
    /\ asking \in [Askers -> [stage : {"free", "sending", "answered", "failed"},
                              attempts : 0..Retries + 1]]

\* "Fail fast": while its circuit is open, an origin is asked by nothing but the
\* calls that found the circuit closed, which is one less than there are threads,
\* and by each of them with its attempts, however often their failures begin the
\* window anew.
OriginSpared == sent <= (Cardinality(Askers) - 1) * (Retries + 1)

\* An origin that can be reached again is used again: its circuit closes and
\* stays so, although calls are refused meanwhile and failures from before are
\* recorded late.
CircuitCloses == <>[]up => <>[](left = 0)

\* The counters stay within their bounds and the origin is left in peace.
CircuitSafe == CircuitTypeOK /\ OriginSpared
=============================================================================
