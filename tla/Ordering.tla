------------------------------- MODULE Ordering -------------------------------
(***************************************************************************)
(* chp-causal-order-v1 (chp_core/ordering.py): one order for the events of *)
(* a correlation gathered from several hosts, and the check of a task      *)
(* bundle that relies on it (chp_core/signing.py).  Around them, what      *)
(* produces such events: hosts with clocks of their own, and threads that  *)
(* stamp an event first and have the store append it afterwards.  A router *)
(* may send an invocation on to another host or send it again, and every   *)
(* host runs whatever invocation_id it is sent.                            *)
(***************************************************************************)
EXTENDS Integers, Sequences, FiniteSets

CONSTANTS
    EventHosts, \* numbered in the order of their names
    Emitters,   \* the threads of the hosts
    PerSecond,  \* the steps of a clock in a second
    MaxEvents,  \* bound on the events
    MaxTime     \* bound on the clocks

ASSUME OrderingConstants ==
    /\ EventHosts \subseteq Nat
    /\ IsFiniteSet(Emitters)
    /\ PerSecond \in Nat \ {0}
    /\ MaxEvents \in Nat
    /\ MaxTime \in Nat

VARIABLES
    events,   \* the events: sequence, host, invocation, causation, timestamp;
              \* event_id numbers them as they were appended
    emitting, \* what each thread has stamped and not yet appended, or Silent
    clock,    \* the clock of each host
    stepped,  \* history: some clock has been set back
    reruns    \* history: the invocations that were begun more than once

orderingVars == <<events, emitting, clock, stepped, reruns>>

-----------------------------------------------------------------------------
(***************************************************************************)
(* order_events                                                            *)
(***************************************************************************)
\* _key
K(e) == <<e.timestamp, e.host, e.sequence, e.event_id>>

Below(a, b) ==
    \E n \in DOMAIN a : a[n] < b[n] /\ \A m \in 1..n - 1 : a[m] = b[m]

Least(es) == CHOOSE e \in es : \A f \in es \ {e} : Below(K(e), K(f))

OfInvocation(es, inv) == {e \in es : e.invocation = inv}

\* Mutant of Edges: no spawn edges.
HostEdges(es) ==
    {p \in es \X es : p[1].host = p[2].host /\ p[1].sequence < p[2].sequence}

\* Per-host sequence order, and the spawn edge from the first event of the
\* causing invocation.
Edges(es) ==
    {p \in es \X es :
        \/ p[1].host = p[2].host /\ p[1].sequence < p[2].sequence
        \/ /\ p[1] # p[2]
           /\ OfInvocation(es, p[2].causation) # {}
           /\ p[1] = Least(OfInvocation(es, p[2].causation))}

\* Nothing that is left has to come before them.
Ready(rest, edges) == {e \in rest : \A p \in edges : p[2] = e => p[1] \notin rest}

Emitted(order) == {order[n] : n \in DOMAIN order}
Remaining(es, order) == es \ Emitted(order)

\* Kahn's algorithm: one by one, the least of the events that are ready.  It ends
\* where none is, with nothing left or with what a cycle holds back.
Kahn(es, edges) ==
    LET upTo[n \in 0..Cardinality(es)] ==
            IF n = 0 THEN <<>>
            ELSE LET out == upTo[n - 1]
                     ready == Ready(Remaining(es, out), edges)
                 IN  IF ready = {} THEN out ELSE Append(out, Least(ready))
    IN  upTo[Cardinality(es)]

Sorted(es) == Kahn(es, {})

\* What a cycle holds back follows in key order.
OrderEvents(es) ==
    LET out == Kahn(es, Edges(es))
    IN  out \o Sorted(Remaining(es, out))

\* causal_acyclic of verify_task_bundle: nothing comes before the place where
\* the invocation that caused it first appears.
CausalAcyclic(es) ==
    LET order == OrderEvents(es)
    IN  \A n \in DOMAIN order :
            LET causing == {m \in DOMAIN order : order[m].invocation = order[n].causation}
            IN  causing # {} => \E m \in causing : m <= n

-----------------------------------------------------------------------------
(***************************************************************************)
(* Hosts                                                                   *)
(***************************************************************************)
Silent == [host |-> 0, invocation |-> 0, causation |-> 0, timestamp |-> 0]

OrderingInit ==
    /\ events = {}
    /\ emitting = [t \in Emitters |-> Silent]
    /\ clock = [h \in EventHosts |-> 1]
    /\ stepped = FALSE
    /\ reruns = {}

\* utc_now, by the place of its text among the others: on a whole second the text
\* has no fraction, and its "Z" sorts after every "." of that second.
Whole(time) == time % PerSecond = 0
Stamp(time) == IF Whole(time) THEN time + PerSecond ELSE time

Known(inv) ==
    \/ OfInvocation(events, inv) # {}
    \/ \E t \in Emitters : emitting[t].invocation = inv

\* emit_evidence reads the clock, before anything else is held.
Emit(t, h, inv, cause) ==
    /\ emitting[t] = Silent
    /\ Cardinality(events) + Cardinality({u \in Emitters : emitting[u] # Silent}) < MaxEvents
    /\ emitting' = [emitting EXCEPT ![t] =
                       [host |-> h, invocation |-> inv, causation |-> cause,
                        timestamp |-> Stamp(clock[h])]]
    /\ UNCHANGED <<events, clock, stepped>>

\* A host starts to run an invocation that nothing (0), or one with an event,
\* caused.  Its id is new (of the new ones the first) or that of another run,
\* here or elsewhere: the host does not ask.
Begin(t, h, inv, cause) ==
    /\ cause = 0 \/ OfInvocation(events, cause) # {}
    /\ Known(inv) \/ \A earlier \in 1..inv - 1 : Known(earlier)
    /\ Emit(t, h, inv, cause)
    /\ reruns' = IF Known(inv) THEN reruns \cup {inv} ELSE reruns

\* A run that has recorded an event goes on to its next, in whatever thread.
Continue(t, e) ==
    /\ e \in events
    /\ Emit(t, e.host, e.invocation, e.causation)
    /\ UNCHANGED reruns

Sequenced(e) ==
    [event_id |-> Cardinality(events) + 1, host |-> e.host,
     sequence |-> Cardinality({f \in events : f.host = e.host}) + 1,
     invocation |-> e.invocation, causation |-> e.causation, timestamp |-> e.timestamp]

\* store.append gives the sequence, under its lock, ...
AppendStamped(t) ==
    /\ emitting[t] # Silent
    /\ events' = events \cup {Sequenced(emitting[t])}
    /\ emitting' = [emitting EXCEPT ![t] = Silent]
    /\ UNCHANGED <<clock, stepped, reruns>>

\* ... or raises.
AppendRaises(t) ==
    /\ emitting[t] # Silent
    /\ emitting' = [emitting EXCEPT ![t] = Silent]
    /\ UNCHANGED <<events, clock, stepped, reruns>>

SetClock(h, time) ==
    /\ time # clock[h]
    /\ stepped' = (stepped \/ time < clock[h])
    /\ clock' = [clock EXCEPT ![h] = time]
    /\ UNCHANGED <<events, emitting, reruns>>

OrderingNext ==
    \/ \E t \in Emitters :
          \/ \E h \in EventHosts, inv \in 1..MaxEvents, cause \in 0..MaxEvents :
                Begin(t, h, inv, cause)
          \/ \E e \in events : Continue(t, e)
          \/ AppendStamped(t)
          \/ AppendRaises(t)
    \/ \E h \in EventHosts, time \in 1..MaxTime : SetClock(h, time)

OrderingSpec == OrderingInit /\ [][OrderingNext]_orderingVars

-----------------------------------------------------------------------------
(***************************************************************************)
(* Properties                                                              *)
(***************************************************************************)
Place(order, e) == CHOOSE n \in DOMAIN order : order[n] = e

\* The first event of an invocation comes before those of what it caused.
Spawns(a, b) ==
    /\ b.causation = a.invocation
    /\ \A e \in OfInvocation(events, a.invocation) : a.event_id <= e.event_id

\* What really comes before what: a host's events in the order it recorded
\* them, and causes before their effects.
Causes(a, b) ==
    \/ a.host = b.host /\ a.sequence < b.sequence
    \/ Spawns(a, b)

\* Nothing in es is, by its edges, before itself.
Acyclic(es) ==
    \A some \in (SUBSET es) \ {{}} :
        \E e \in some : \A p \in Edges(es) : p[2] = e => p[1] \notin some

\* "An event never precedes what caused it."
CausallyConsistent ==
    LET order == OrderEvents(events)
    IN  \A a, b \in events : Causes(a, b) => Place(order, a) < Place(order, b)

\* However far apart the clocks of the hosts are, whichever threads overtake each
\* other between the clock and the store, and whatever appends fail, it does not,
\* as long as no clock has been set back and none of the invocations that caused
\* another was begun more than once or on a whole second.
ConsistentUnderSkew ==
    (/\ ~stepped
     /\ \A a, b \in events :
           Spawns(a, b) => a.invocation \notin reruns /\ ~Whole(a.timestamp))
        => CausallyConsistent

\* Whatever the clocks did, the order holds every event once and respects every
\* edge of a set without a cycle, which a task bundle's check then accepts.
OrderExtendsEdges ==
    LET order == OrderEvents(events)
    IN  /\ Len(order) = Cardinality(events)
        /\ {order[n] : n \in DOMAIN order} = events
        /\ Acyclic(events) =>
              /\ \A p \in Edges(events) : Place(order, p[1]) < Place(order, p[2])
              /\ CausalAcyclic(events)

\* Nothing but an edge, or the cycle it is in, puts an event behind one with a
\* greater key that is next to it.
OnlyCausesDelay ==
    LET order == OrderEvents(events)
    IN  \A n \in 1..Len(order) - 1 :
            Below(K(order[n + 1]), K(order[n])) =>
                \/ <<order[n], order[n + 1]>> \in Edges(events)
                \/ ~Acyclic(events)

\* An honest task bundle is accepted.
HonestTaskAccepted == CausalAcyclic(events)

\* What a reader may rely on: no cause is put behind its effect but where a clock
\* was set back or a causing invocation was run twice or begun on a whole second,
\* no event is lost or doubled, and only causes delay an event.
OrderingSafe == ConsistentUnderSkew /\ OrderExtendsEdges /\ OnlyCausesDelay
=============================================================================
