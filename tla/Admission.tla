------------------------------ MODULE Admission ------------------------------
(***************************************************************************)
(* The rate limit of a caller (allow_request in chp_core/http.py): a token *)
(* bucket that refills Limit tokens per Window.  A handler thread reads    *)
(* the clock before it takes the lock, so that buckets are settled in an   *)
(* order other than that of their times, and the bucket's own time can go  *)
(* backwards.                                                              *)
(*                                                                         *)
(* Tokens are counted in units of 1/Window, which keeps them integers: a   *)
(* request costs Window of them, and a tick refills Limit.                 *)
(***************************************************************************)
EXTENDS Integers

CONSTANTS
    Limit,    \* CHP_HOST_RATE_LIMIT
    Window,   \* CHP_HOST_RATE_WINDOW_S, in ticks
    Handlers, \* threads with requests of one caller
    From,     \* the time from which the caller's admissions are counted
    MaxClock  \* bound on the clock

ASSUME AdmissionConstants ==
    /\ Limit \in Nat \ {0}
    /\ Window \in Nat \ {0}
    /\ From \in Nat
    /\ MaxClock \in Nat

VARIABLES
    time,     \* the monotonic clock
    bucket,   \* the caller's entry of _rate_buckets: tokens and their time
    read,     \* the time each thread has read, -1 before that
    admitted  \* history: the requests of times from From on that were allowed

admissionVars == <<time, bucket, read, admitted>>

Capacity == Limit * Window
None == -1

Smaller(a, b) == IF a < b THEN a ELSE b

-----------------------------------------------------------------------------
\* The first request finds a full bucket of its own time; here, of time 0.
AdmissionInit ==
    /\ time = 0
    /\ bucket = [tokens |-> Capacity, last |-> 0]
    /\ read = [t \in Handlers |-> None]
    /\ admitted = 0

Tick ==
    /\ time < MaxClock
    /\ time' = time + 1
    /\ UNCHANGED <<bucket, read, admitted>>

\* now = time.monotonic()
ReadClock(t) ==
    /\ read[t] = None
    /\ read' = [read EXCEPT ![t] = time]
    /\ UNCHANGED <<time, bucket, admitted>>

\* Mutant of Refilled: a full bucket keeps what overflows.
RefilledUncapped(now) == bucket.tokens + (now - bucket.last) * Limit

Refilled(now) == Smaller(Capacity, bucket.tokens + (now - bucket.last) * Limit)

\* With the lock: the bucket is refilled up to `now` and the request charged.
Settle(t) ==
    /\ read[t] # None
    /\ read' = [read EXCEPT ![t] = None]
    /\ LET tokens == Refilled(read[t])
       IN  IF tokens >= Window
           THEN /\ bucket' = [tokens |-> tokens - Window, last |-> read[t]]
                /\ admitted' = IF read[t] >= From THEN admitted + 1 ELSE admitted
           ELSE /\ bucket' = [tokens |-> tokens, last |-> read[t]]
                /\ UNCHANGED admitted
    /\ UNCHANGED time

AdmissionNext == Tick \/ \E t \in Handlers : ReadClock(t) \/ Settle(t)

AdmissionSpec == AdmissionInit /\ [][AdmissionNext]_admissionVars

-----------------------------------------------------------------------------
(***************************************************************************)
(* Properties                                                              *)
(***************************************************************************)
AdmissionTypeOK ==
    /\ time \in Nat
    /\ bucket \in [tokens : Int, last : Nat]
    /\ read \in [Handlers -> Nat \cup {None}]
    /\ admitted \in Nat

Elapsed == IF time > From THEN time - From ELSE 0

\* "One caller cannot monopolize": from any moment on, a caller is allowed at
\* most Limit requests and Limit more per Window, although the threads settle
\* their buckets in another order than they read the clock in.
RateBound == admitted * Window <= Capacity + Elapsed * Limit

\* The bucket neither overflows nor is charged for what it does not hold: what
\* it holds now, or would at the latest time read, is between none and all.
BucketBounded ==
    /\ bucket.tokens <= Capacity
    /\ bucket.tokens + (time - bucket.last) * Limit >= 0

\* The limit holds from every moment on, and the bucket within its bounds.
AdmissionSafe == AdmissionTypeOK /\ RateBound /\ BucketBounded
=============================================================================
