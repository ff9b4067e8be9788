----------------------------- MODULE Remote_proofs -----------------------------
(***************************************************************************)
(* Proofs about Gateway and Streams, for any number of owners, requests    *)
(* and faults, and of reconnections, deltas and restarts of the server.    *)
(*                                                                         *)
(* An identifier is executed no more often than is paid for, by counting   *)
(* what ran with what may still run for nothing (PaidFor).  A stream is    *)
(* seamless because the frames in flight always continue what the client   *)
(* has, and tell where the thread that sends them is (OnceInv).            *)
(***************************************************************************)
EXTENDS Gateway, Streams, FiniteSetTheorems, SequenceTheorems, TLAPS

-----------------------------------------------------------------------------
(***************************************************************************)
(* The gateway: what a request is, where its thread is, what it was told   *)
(***************************************************************************)
Statuses == {"unsent", "waiting", "answered", "broken"}
GwPlaces == {"none", "gate", "routing", "calling", "record", "answer", "done", "gone"}
ExecPlaces == {"none", "dead", "replied"} \cup Working

ThreadTyped(t) ==
    /\ t = [at |-> t.at, todo |-> t.todo, answer |-> t.answer]
    /\ t.at \in GwPlaces
    /\ t.todo \in Seq(Owners)
    /\ t.at = "calling" => t.todo # <<>>
    /\ t.at = "record" => t.answer # Nothing

ExecTyped(e) ==
    /\ e = [at |-> e.at, answer |-> e.answer]
    /\ e.at \in ExecPlaces
    /\ e.at = "ran" => e.answer.outcome = "success"
    /\ e.at = "replied" => e.answer # Nothing

ThreadsTyped ==
    /\ gw = [a \in Requests |-> gw[a]]
    /\ \A a \in Requests : ThreadTyped(gw[a])

ExecsTyped ==
    /\ exec = [a \in Requests |-> [h \in Owners |-> exec[a][h]]]
    /\ \A a \in Requests, h \in Owners : ExecTyped(exec[a][h])

OwnersTyped ==
    /\ records = [h \in Owners |-> records[h]]
    /\ ran \in [Owners -> Nat]
    /\ runs \in Nat
    /\ shaken \subseteq Owners

ClientTyped ==
    /\ client \in [Requests -> Statuses]
    /\ faults \in 0..MaxFaults
    /\ paid \in 0..faults
    /\ late \subseteq Requests

GatewayTyped == ThreadsTyped /\ ExecsTyped /\ OwnersTyped /\ ClientTyped

\* Requests are sent in turn, and the gateway's thread of a request begins with it.
InTurn ==
    \A a \in Requests :
        /\ gw[a].at = "none" <=> client[a] = "unsent"
        /\ client[a] # "unsent" => \A b \in 1..a - 1 : client[b] \in {"answered", "broken"}
        /\ gw[a].at \in {"none", "gate"} =>
              gw[a].answer = Nothing /\ \A h \in Owners : exec[a][h] = NoExec

\* A thread of the gateway that can still call an owner, or whose client may ask
\* again, without another fault.
Open(a) ==
    \/ gw[a].at \in {"gate", "answer"} /\ cache = Nothing
    \/ gw[a].at = "routing"
    \/ /\ gw[a].at = "calling"
       /\ LET e == exec[a][Head(gw[a].todo)]
          IN  e.at = "dead" \/ (e.at = "replied" /\ e.answer.outcome = "error")

OpenSet == {a \in Requests : Open(a)}

\* The owners' threads whose handler may still run.
ToRun == {p \in Requests \X Owners : exec[p[1]][p[2]].at \in {"gate", "ready"}}

\* A request that may be sent and routed.
Fresh == IF cache = Nothing /\ ~Waiting THEN 1 ELSE 0

\* What has run, what may run, and what may be called or sent for nothing, is
\* paid for but for one.
PaidFor == runs + Cardinality(ToRun) + Cardinality(OpenSet) + Fresh <= 1 + paid

\* Of an owner that is not shaken: one thread at most works, and once the
\* handler ran there is a record, or the thread that is about to make it.
OwnerSteady(h) ==
    /\ ran[h] <= 1
    /\ \A a, b \in Requests :
          exec[a][h].at \in Working /\ exec[b][h].at \in Working => a = b
    /\ ran[h] # 0 => records[h] # Nothing \/ \E a \in Requests : exec[a][h].at = "ran"
    /\ \A a \in Requests : exec[a][h].at = "ready" => records[h] = Nothing

\* A request that came late goes from gate 0 to its answer.
LateInv ==
    \A a \in late :
        /\ cache # Nothing
        /\ gw[a].at \in {"gate", "answer", "done", "gone"}
        /\ gw[a].answer \in {Nothing, cache}
        /\ \A h \in Owners : exec[a][h] = NoExec

GatewayInv ==
    /\ GatewayTyped
    /\ InTurn
    /\ PaidFor
    /\ \A h \in Owners \ shaken : OwnerSteady(h)
    /\ LateInv

-----------------------------------------------------------------------------
(***************************************************************************)
(* The stream                                                              *)
(***************************************************************************)
Frames == [event : {"chunk"}, id : Nat, run : Nat, index : Nat]
              \cup [event : {"result"}, run : Nat, outcome : Outcomes]
Rows == [run : Nat \ {0}, outcome : Outcomes, chunks : 0..MaxDeltas]

ServingTyped(t) ==
    \/ t \in [at : {"none", "ended", "closed", "dead"}]
    \/ t \in [at : {"gate"}, resume : Int]
    \/ t \in [at : {"running"}, resume : Int, run : DOMAIN begun, sse : BOOLEAN]
    \/ t \in [at : {"replaying"}, resume : Int, run : Nat, next : Nat, sse : BOOLEAN]
    \/ t \in [at : {"ending"}, run : Nat, outcome : Outcomes]

Readers ==
    [at : {"idle", "calling", "reading", "returned", "raised"},
     attempt : Tries, last_id : Nat \cup {-1}, got : Seq(Nat \X Nat),
     result : {NoRow} \cup [run : Nat, outcome : Outcomes]]

ServingsTyped ==
    /\ serving = [a \in Tries |-> serving[a]]
    /\ \A a \in Tries : ServingTyped(serving[a])

StreamTyped ==
    /\ reader \in Readers
    /\ wire \in [up : BOOLEAN, frames : Seq(Frames)]
    /\ ServingsTyped
    /\ recorded \in {NoRow} \cup Rows
    /\ begun \in Seq(0..MaxDeltas)

\* Threads that have begun an execution, or may have.
Beyond == {a \in Tries : serving[a].at \notin {"none", "gate"}}

\* The chunks of n attempts.
Bound(n) == n * MaxDeltas - 1

\* The client hears its current attempt's thread, and no later one exists.
CurrentInv ==
    /\ wire.up <=> reader.at = "reading"
    /\ ~wire.up => wire.frames = <<>>
    /\ \A a \in Tries :
          a > reader.attempt \/ (a = reader.attempt /\ reader.at \in {"idle", "calling"})
              => serving[a] = Silent
    /\ reader.at = "reading" =>
          serving[reader.attempt].at \in {"gate", "running", "replaying", "ending", "ended"}
    /\ reader.at = "reading" /\ serving[reader.attempt].at = "gate" =>
          wire.frames = <<>> /\ serving[reader.attempt].resume = reader.last_id

\* Numbers of chunks by the attempt they are sent in.
NumbersInv ==
    /\ reader.last_id <= Bound(reader.attempt + 1)
    /\ reader.at \in {"idle", "calling"} => reader.last_id <= Bound(reader.attempt)
    /\ \A n \in DOMAIN wire.frames :
          wire.frames[n].event = "chunk" => wire.frames[n].id <= Bound(reader.attempt + 1)
    /\ \A a \in Tries : serving[a].at \in {"gate", "running"} =>
          serving[a].resume >= -1 /\ serving[a].resume <= Bound(a)
    /\ Len(begun) <= Cardinality(Beyond)

\* An execution is of one thread, and what is recorded is of one that has ended.
RecordInv ==
    /\ \A a, b \in Tries :
          a # b /\ serving[a].at = "running" /\ serving[b].at = "running" =>
              serving[a].run # serving[b].run
    /\ recorded # NoRow =>
          /\ recorded.run \in DOMAIN begun
          /\ recorded = RowOf(recorded.run, recorded.outcome)
          /\ \A a \in Tries : serving[a].at = "running" => serving[a].run # recorded.run
    /\ \A a \in Tries : serving[a].at \in {"replaying", "ending", "ended"} => recorded # NoRow
    /\ reader.attempt = 0 =>
          /\ serving[0].at \in {"none", "gate"} => begun = <<>>
          /\ serving[0].at # "replaying"

\* The deltas the one execution has yielded.
Yielded == IF begun = <<>> THEN 0 ELSE begun[1]

\* The answer that ends with this outcome has all of them.
Whole(outcome) == outcome = "success" /\ (reader.attempt > 0 => Yielded <= ChunkCap)

\* Where the frames in flight are, by what the thread that sends them does.
InFlight(t, flight) ==
    /\ t.at \in {"running", "ending"} => Yielded = reader.last_id + 1 + flight
    /\ t.at = "replaying" => t.next = reader.last_id + 1 + flight /\ t.next <= Yielded
    /\ t.at = "ended" =>
          /\ flight # 0
          /\ reader.last_id + flight <= Yielded
          /\ wire.frames[flight].event = "result"
          /\ Whole(wire.frames[flight].outcome) => Yielded = reader.last_id + flight

\* Of an identifier that was executed once: what the client has is the beginning,
\* what is in flight continues it.
OnceInv ==
    /\ reader.got = Deltas(1, reader.last_id + 1)
    /\ reader.last_id + 1 <= Yielded
    /\ \A a \in Tries : serving[a].at = "running"
          \/ (serving[a].at = "gate" /\ begun = <<>>) => serving[a].resume = -1
    /\ reader.at = "reading" => InFlight(serving[reader.attempt], Len(wire.frames))
    /\ \A n \in DOMAIN wire.frames :
          \/ wire.frames[n] = Chunk(reader.last_id + n, 1, reader.last_id + n)
          \/ /\ wire.frames[n].event = "result"
             /\ n = Len(wire.frames)
             /\ serving[reader.attempt].at = "ended"
    /\ reader.at = "returned" => recorded # NoRow
    /\ reader.at = "returned" /\ Whole(reader.result.outcome) =>
          Yielded = reader.last_id + 1

StreamInv ==
    /\ StreamTyped
    /\ CurrentInv
    /\ NumbersInv
    /\ RecordInv
    /\ Len(begun) <= 1 => OnceInv

-----------------------------------------------------------------------------
(***************************************************************************)
(* Counting                                                                *)
(***************************************************************************)
LEMMA CountUp ==
    ASSUME NEW S, IsFiniteSet(S), NEW x, NEW T, T \subseteq S \cup {x}
    PROVE  Cardinality(S) \in Nat /\ Cardinality(T) \in Nat
           /\ Cardinality(T) <= Cardinality(S) + 1
<1>1. /\ IsFiniteSet(S \cup {x})
      /\ Cardinality(S \cup {x}) \in {Cardinality(S), Cardinality(S) + 1}
  BY FS_AddElement
<1>2. Cardinality(S) \in Nat /\ Cardinality(S \cup {x}) \in Nat
  BY <1>1, FS_CardinalityType
<1>3. IsFiniteSet(T) /\ Cardinality(T) <= Cardinality(S \cup {x})
  BY <1>1, FS_Subset
<1>4. Cardinality(T) \in Nat
  BY <1>3, FS_CardinalityType
<1> QED BY <1>1, <1>2, <1>3, <1>4

LEMMA CountSame ==
    ASSUME NEW S, IsFiniteSet(S), NEW T, T \subseteq S
    PROVE  Cardinality(S) \in Nat /\ Cardinality(T) \in Nat
           /\ Cardinality(T) <= Cardinality(S)
BY FS_CardinalityType, FS_Subset

LEMMA CountDown ==
    ASSUME NEW S, IsFiniteSet(S), NEW x \in S, NEW T, T \subseteq S \ {x}
    PROVE  Cardinality(S) \in Nat /\ Cardinality(T) \in Nat
           /\ Cardinality(T) + 1 <= Cardinality(S)
<1>1. IsFiniteSet(S \ {x}) /\ Cardinality(S \ {x}) = Cardinality(S) - 1
  BY FS_RemoveElement
<1>2. Cardinality(S) \in Nat /\ Cardinality(T) \in Nat
      /\ Cardinality(T) <= Cardinality(S \ {x})
  BY <1>1, CountSame, FS_CardinalityType
<1> QED BY <1>1, <1>2

LEMMA GatewayFinite ==
    /\ IsFiniteSet(Requests)
    /\ IsFiniteSet(OpenSet)
    /\ IsFiniteSet(ToRun)
<1>1. IsFiniteSet(Requests)
  BY GatewayConstants, FS_Interval DEF Requests
<1>2. IsFiniteSet(Requests \X Owners)
  BY <1>1, GatewayConstants, FS_Product
<1>3. OpenSet \subseteq Requests /\ ToRun \subseteq Requests \X Owners
  BY DEF OpenSet, ToRun
<1> QED BY <1>1, <1>2, <1>3, FS_Subset

-----------------------------------------------------------------------------
(***************************************************************************)
(* Steps of the gateway                                                    *)
(***************************************************************************)
LEMMA GatewayStarts == GatewayInit => GatewayInv
<1> SUFFICES ASSUME GatewayInit PROVE GatewayInv
  OBVIOUS
<1>1. GatewayTyped
  <2>1. <<>> \in Seq(Owners)
    OBVIOUS
  <2>2. MaxFaults \in Nat
    BY GatewayConstants
  <2>3. ThreadTyped(NoThread) /\ ExecTyped(NoExec)
    BY <2>1 DEF ThreadTyped, ExecTyped, NoThread, NoExec, GwPlaces, ExecPlaces
  <2>4. ThreadsTyped
    BY <2>3 DEF GatewayInit, ThreadsTyped
  <2>5. ExecsTyped
    BY <2>3 DEF GatewayInit, ExecsTyped
  <2>6. OwnersTyped
    BY DEF GatewayInit, OwnersTyped
  <2>7. ClientTyped
    BY <2>2 DEF GatewayInit, ClientTyped, Statuses
  <2> QED BY <2>4, <2>5, <2>6, <2>7 DEF GatewayTyped
<1>2. InTurn
  BY DEF GatewayInit, InTurn, NoThread
<1>3. PaidFor
  <2>1. OpenSet = {} /\ ToRun = {}
    BY DEF GatewayInit, OpenSet, Open, ToRun, NoThread, NoExec
  <2>2. Cardinality({}) = 0
    BY FS_EmptySet
  <2>3. Fresh \in {0, 1}
    BY DEF Fresh
  <2>4. runs = 0 /\ paid = 0
    BY DEF GatewayInit
  <2>5. Cardinality(OpenSet) = 0 /\ Cardinality(ToRun) = 0
    BY <2>1, <2>2
  <2> QED BY <2>3, <2>4, <2>5 DEF PaidFor
<1>4. \A h \in Owners \ shaken : OwnerSteady(h)
  BY DEF GatewayInit, OwnerSteady, NoExec, Working
<1>5. LateInv
  BY DEF GatewayInit, LateInv
<1> QED BY <1>1, <1>2, <1>3, <1>4, <1>5 DEF GatewayInv

\* A thread of the gateway goes on, and no owner does.
LEMMA ThreadMoves ==
    ASSUME GatewayInv, NEW a \in Requests, gw[a].at \notin {"none", "done", "gone"},
           NEW t, ThreadTyped(t), t.at \notin {"none", "gate"}, gw' = [gw EXCEPT ![a] = t],
           UNCHANGED <<exec, records, handled, shaken, late>>,
           client' \in [Requests -> Statuses],
           \A b \in Requests :
               client'[b] = client[b] \/ (client[b] = "waiting" /\ client'[b] = "answered"),
           faults' \in 0..MaxFaults, paid' \in 0..faults',
           cache # Nothing => cache' = cache,
           a \in late => t.at \in {"answer", "done"} /\ t.answer \in {Nothing, cache}
    PROVE  /\ GatewayTyped' /\ InTurn' /\ LateInv'
           /\ (\A h \in Owners \ shaken : OwnerSteady(h))'
           /\ ToRun' = ToRun
           /\ \A b \in Requests : gw'[b] = IF b = a THEN t ELSE gw[b]
           /\ \A b \in Requests \ {a} : b \in OpenSet' => b \in OpenSet
<1>1. \A b \in Requests : gw'[b] = IF b = a THEN t ELSE gw[b]
  BY DEF GatewayInv, GatewayTyped, ThreadsTyped
<1>2. GatewayTyped'
  <2>1. ThreadsTyped'
    BY <1>1 DEF GatewayInv, GatewayTyped, ThreadsTyped
  <2>2. ExecsTyped'
    BY DEF GatewayInv, GatewayTyped, ExecsTyped
  <2>3. OwnersTyped'
    BY DEF GatewayInv, GatewayTyped, OwnersTyped, handled
  <2>4. ClientTyped'
    BY DEF GatewayInv, GatewayTyped, ClientTyped
  <2> QED BY <2>1, <2>2, <2>3, <2>4 DEF GatewayTyped
<1>3. InTurn'
  <2> SUFFICES ASSUME NEW c \in Requests
               PROVE  /\ gw'[c].at = "none" <=> client'[c] = "unsent"
                      /\ client'[c] # "unsent" =>
                            \A b \in 1..c - 1 : client'[b] \in {"answered", "broken"}
                      /\ gw'[c].at \in {"none", "gate"} =>
                            gw'[c].answer = Nothing /\ \A h \in Owners : exec'[c][h] = NoExec
    BY DEF InTurn
  <2>1. /\ gw[c].at = "none" <=> client[c] = "unsent"
        /\ client[c] # "unsent" => \A b \in 1..c - 1 : client[b] \in {"answered", "broken"}
        /\ gw[c].at \in {"none", "gate"} =>
              gw[c].answer = Nothing /\ \A h \in Owners : exec[c][h] = NoExec
    BY DEF GatewayInv, InTurn
  <2>2. gw'[c].at = "none" <=> client'[c] = "unsent"
    BY <1>1, <2>1 DEF GatewayInv, InTurn
  <2>3. client'[c] # "unsent" => client[c] # "unsent"
    OBVIOUS
  <2>4. 1..c - 1 \subseteq Requests
    BY GatewayConstants DEF Requests
  <2>5. \A b \in 1..c - 1 : client[b] \in {"answered", "broken"} =>
                              client'[b] \in {"answered", "broken"}
    BY <2>4
  <2> QED BY <1>1, <2>1, <2>2, <2>3, <2>5
<1>4. LateInv'
  <2>1. \A c \in late : c \in Requests
    BY DEF GatewayInv, GatewayTyped, ClientTyped
  <2> QED BY <1>1, <2>1 DEF GatewayInv, LateInv
<1>5. (\A h \in Owners \ shaken : OwnerSteady(h))'
  BY DEF GatewayInv, OwnerSteady, handled
<1>6. ToRun' = ToRun
  BY DEF ToRun
<1>7. \A b \in Requests \ {a} : b \in OpenSet' => b \in OpenSet
  BY <1>1 DEF OpenSet, Open
<1> QED BY <1>1, <1>2, <1>3, <1>4, <1>5, <1>6, <1>7

\* What it may open is paid for.
LEMMA ThreadPays ==
    ASSUME GatewayInv, NEW a \in Requests,
           UNCHANGED handled, paid' \in Nat, ToRun' = ToRun,
           \A b \in Requests \ {a} : b \in OpenSet' => b \in OpenSet,
           \/ /\ a \in OpenSet \/ a \notin OpenSet'
              /\ paid' >= paid /\ Fresh' <= Fresh
           \/ /\ a \in OpenSet' => a \in OpenSet
              /\ paid' = paid + 1
           \/ paid' = paid + 1 /\ Fresh' <= Fresh
           \/ /\ a \in OpenSet /\ a \notin OpenSet'
              /\ paid' >= paid
           \/ /\ Fresh' = 0 /\ Fresh = 1
              /\ paid' >= paid
    PROVE  PaidFor'
<1>1. IsFiniteSet(OpenSet) /\ OpenSet' \subseteq OpenSet \cup {a}
  BY GatewayFinite DEF OpenSet
<1>2. /\ Cardinality(OpenSet) \in Nat /\ Cardinality(OpenSet') \in Nat
      /\ Cardinality(OpenSet') <= Cardinality(OpenSet) + 1
  BY <1>1, CountUp
<1>3. a \in OpenSet \/ a \notin OpenSet' => Cardinality(OpenSet') <= Cardinality(OpenSet)
  <2>1. a \in OpenSet \/ a \notin OpenSet' => OpenSet' \subseteq OpenSet
    BY DEF OpenSet
  <2> QED BY <2>1, <1>1, CountSame
<1>4. a \in OpenSet /\ a \notin OpenSet' => Cardinality(OpenSet') + 1 <= Cardinality(OpenSet)
  <2>1. a \in OpenSet /\ a \notin OpenSet' => OpenSet' \subseteq OpenSet \ {a}
    BY DEF OpenSet
  <2> QED BY <2>1, <1>1, CountDown
<1>5. Cardinality(ToRun) \in Nat /\ Cardinality(ToRun') = Cardinality(ToRun)
  BY GatewayFinite, FS_CardinalityType
<1>6. runs \in Nat /\ runs' = runs /\ paid \in Nat
  BY DEF GatewayInv, GatewayTyped, OwnersTyped, ClientTyped, handled
<1>7. Fresh \in {0, 1} /\ Fresh' \in {0, 1}
  BY DEF Fresh
<1>8. runs + Cardinality(ToRun) + Cardinality(OpenSet) + Fresh <= 1 + paid
  BY DEF GatewayInv, PaidFor
<1>9. PaidFor' = (runs' + Cardinality(ToRun') + Cardinality(OpenSet') + Fresh' <= 1 + paid')
  BY DEF PaidFor
<1>10. runs' + Cardinality(ToRun') + Cardinality(OpenSet') + Fresh' <= 1 + paid'
  BY <1>2, <1>3, <1>4, <1>5, <1>6, <1>7, <1>8
<1> QED BY <1>9, <1>10

\* A thread of an owner goes on, and the gateway does not.
LEMMA ExecMoves ==
    ASSUME GatewayInv, NEW a \in Requests, NEW h \in Owners, exec[a][h].at \in Working,
           NEW e, ExecTyped(e), exec' = [exec EXCEPT ![a][h] = e],
           UNCHANGED <<client, gw, cache, late>>,
           OwnersTyped', faults' \in 0..MaxFaults, paid' \in 0..faults'
    PROVE  /\ GatewayTyped' /\ InTurn' /\ LateInv'
           /\ \A b \in Requests, g \in Owners :
                 exec'[b][g] = IF b = a /\ g = h THEN e ELSE exec[b][g]
           /\ OpenSet' \subseteq OpenSet \cup {a}
           /\ ToRun' \subseteq ToRun \cup {<<a, h>>}
           /\ Fresh' = Fresh
<1>1. \A b \in Requests, g \in Owners :
          exec'[b][g] = IF b = a /\ g = h THEN e ELSE exec[b][g]
  BY DEF GatewayInv, GatewayTyped, ExecsTyped
<1>2. GatewayTyped'
  <2>1. ThreadsTyped'
    BY DEF GatewayInv, GatewayTyped, ThreadsTyped
  <2>2. ExecsTyped'
    <3>1. ExecsTyped
      BY DEF GatewayInv, GatewayTyped
    <3>2. exec' = [b \in Requests |-> exec'[b]]
      BY <3>1 DEF ExecsTyped
    <3>3. \A b \in Requests : exec'[b] = [g \in Owners |-> exec'[b][g]]
      BY <3>1 DEF ExecsTyped
    <3>4. \A b \in Requests, g \in Owners : ExecTyped(exec'[b][g])
      BY <1>1, <3>1 DEF ExecsTyped
    <3> QED BY <3>2, <3>3, <3>4 DEF ExecsTyped
  <2>3. ClientTyped'
    BY DEF GatewayInv, GatewayTyped, ClientTyped
  <2> QED BY <2>1, <2>2, <2>3 DEF GatewayTyped
<1>3. exec[a][h] # NoExec
  BY DEF NoExec, Working
<1>4. InTurn'
  <2>1. gw[a].at \notin {"none", "gate"}
    BY <1>3 DEF GatewayInv, InTurn
  <2>2. InTurn
    BY DEF GatewayInv
  <2>3. gw' = gw /\ client' = client
    OBVIOUS
  <2> SUFFICES ASSUME NEW c \in Requests
               PROVE  gw[c].at \in {"none", "gate"} =>
                            gw[c].answer = Nothing /\ \A g \in Owners : exec'[c][g] = NoExec
    BY <2>2, <2>3 DEF InTurn
  <2> QED BY <1>1, <2>1, <2>2 DEF InTurn
<1>5. LateInv'
  <2>1. a \notin late
    BY <1>3 DEF GatewayInv, LateInv
  <2>2. \A c \in late : c \in Requests
    BY DEF GatewayInv, GatewayTyped, ClientTyped
  <2> QED BY <1>1, <2>1, <2>2 DEF GatewayInv, LateInv
<1>6. OpenSet' \subseteq OpenSet \cup {a}
  <2>1. \A b \in Requests \ {a} : gw[b].at = "calling" => Head(gw[b].todo) \in Owners
    BY DEF GatewayInv, GatewayTyped, ThreadsTyped, ThreadTyped
  <2> QED BY <1>1, <2>1 DEF OpenSet, Open
<1>7. ToRun' \subseteq ToRun \cup {<<a, h>>}
  <2> SUFFICES ASSUME NEW p \in Requests \X Owners, exec'[p[1]][p[2]].at \in {"gate", "ready"},
                      p # <<a, h>>
               PROVE  exec[p[1]][p[2]].at \in {"gate", "ready"}
    BY DEF ToRun
  <2> QED BY <1>1
<1>8. Fresh' = Fresh
  BY DEF Fresh, Waiting
<1> QED BY <1>1, <1>2, <1>4, <1>5, <1>6, <1>7, <1>8

\* What it may run or open is paid for.
LEMMA ExecPays ==
    ASSUME GatewayInv, NEW a \in Requests, NEW h \in Owners,
           runs' \in Nat, paid' \in Nat,
           OpenSet' \subseteq OpenSet \cup {a}, ToRun' \subseteq ToRun \cup {<<a, h>>},
           Fresh' = Fresh,
           <<a, h>> \in ToRun' => <<a, h>> \in ToRun,
           \/ runs' = runs /\ paid' = paid + 1
           \/ /\ runs' = runs /\ paid' = paid
              /\ a \in OpenSet' => a \in OpenSet
           \/ /\ runs' = runs /\ paid' = paid
              /\ <<a, h>> \in ToRun /\ <<a, h>> \notin ToRun'
           \/ /\ runs' = runs + 1 /\ paid' = paid
              /\ a \in OpenSet' => a \in OpenSet
              /\ <<a, h>> \in ToRun /\ <<a, h>> \notin ToRun'
    PROVE  PaidFor'
<1>1. IsFiniteSet(OpenSet) /\ IsFiniteSet(ToRun)
  BY GatewayFinite
<1>2. /\ Cardinality(OpenSet) \in Nat /\ Cardinality(OpenSet') \in Nat
      /\ Cardinality(OpenSet') <= Cardinality(OpenSet) + 1
  BY <1>1, CountUp
<1>3. (a \in OpenSet' => a \in OpenSet) => Cardinality(OpenSet') <= Cardinality(OpenSet)
  <2>1. (a \in OpenSet' => a \in OpenSet) => OpenSet' \subseteq OpenSet
    OBVIOUS
  <2> QED BY <2>1, <1>1, CountSame
<1>4. /\ Cardinality(ToRun) \in Nat /\ Cardinality(ToRun') \in Nat
      /\ Cardinality(ToRun') <= Cardinality(ToRun)
  <2>1. ToRun' \subseteq ToRun
    OBVIOUS
  <2> QED BY <2>1, <1>1, CountSame
<1>5. <<a, h>> \in ToRun /\ <<a, h>> \notin ToRun' =>
          Cardinality(ToRun') + 1 <= Cardinality(ToRun)
  <2>1. <<a, h>> \in ToRun /\ <<a, h>> \notin ToRun' => ToRun' \subseteq ToRun \ {<<a, h>>}
    OBVIOUS
  <2> QED BY <2>1, <1>1, CountDown
<1>6. runs \in Nat /\ paid \in Nat
  BY DEF GatewayInv, GatewayTyped, OwnersTyped, ClientTyped
<1>7. Fresh \in {0, 1}
  BY DEF Fresh
<1>8. runs + Cardinality(ToRun) + Cardinality(OpenSet) + Fresh <= 1 + paid
  BY DEF GatewayInv, PaidFor
<1>9. runs' + Cardinality(ToRun') + Cardinality(OpenSet') + Fresh' <= 1 + paid'
  BY <1>2, <1>3, <1>4, <1>5, <1>6, <1>7, <1>8
<1> QED BY <1>9 DEF PaidFor

\* Whether a thread of an owner may run, by where it is.
LEMMA MayRun ==
    ASSUME NEW a \in Requests, NEW h \in Owners
    PROVE  <<a, h>> \in ToRun <=> exec[a][h].at \in {"gate", "ready"}
BY DEF ToRun

\* An owner stays steady when a thread of it that was not about to record ends.
LEMMA SteadyLess ==
    ASSUME NEW h \in Owners, OwnerSteady(h), records' = records, ran' = ran,
           \A b \in Requests : exec'[b][h].at \in {exec[b][h].at, "replied"},
           \A b \in Requests : exec[b][h].at = "ran" => exec'[b][h].at = "ran"
    PROVE  OwnerSteady(h)'
<1>1. \A b \in Requests : /\ exec'[b][h].at \in Working => exec[b][h].at \in Working
                          /\ exec'[b][h].at = "ready" => exec[b][h].at = "ready"
  BY DEF Working
<1>2. ran'[h] <= 1
  BY DEF OwnerSteady
<1>3. \A a, b \in Requests :
          exec'[a][h].at \in Working /\ exec'[b][h].at \in Working => a = b
  BY <1>1 DEF OwnerSteady
<1>4. ran'[h] # 0 => records'[h] # Nothing \/ \E a \in Requests : exec'[a][h].at = "ran"
  BY DEF OwnerSteady
<1>5. \A a \in Requests : exec'[a][h].at = "ready" => records'[h] = Nothing
  BY <1>1 DEF OwnerSteady
<1> QED BY <1>2, <1>3, <1>4, <1>5 DEF OwnerSteady

LEMMA ShedKeeps ==
    ASSUME GatewayInv, NEW a \in Requests, NEW h \in Owners, Shed(a, h)
    PROVE  GatewayInv'
<1> DEFINE e == [at |-> "replied", answer |-> [outcome |-> "error", from |-> h]]
<1>1. /\ exec[a][h].at \in Working /\ exec' = [exec EXCEPT ![a][h] = e]
      /\ ExecTyped(e)
  BY DEF Shed, OwnerReplies, Working, ExecTyped, ExecPlaces, Nothing
<1>2. OwnersTyped' /\ paid' = paid /\ faults' \in 0..MaxFaults /\ paid' \in 0..faults'
  BY GatewayConstants DEF GatewayInv, GatewayTyped, OwnersTyped, ClientTyped, Shed, handled, Fault
<1>3. /\ GatewayTyped' /\ InTurn' /\ LateInv'
      /\ \A b \in Requests, g \in Owners :
            exec'[b][g] = IF b = a /\ g = h THEN e ELSE exec[b][g]
      /\ OpenSet' \subseteq OpenSet \cup {a}
      /\ ToRun' \subseteq ToRun \cup {<<a, h>>}
      /\ Fresh' = Fresh
  <2> HIDE DEF e
  <2> QED BY <1>1, <1>2, ExecMoves DEF Shed
<1>4. <<a, h>> \in ToRun /\ <<a, h>> \notin ToRun'
  BY <1>3 DEF ToRun, Shed
<1>5. PaidFor'
  <2>1. runs' = runs /\ runs' \in Nat /\ paid' \in Nat
    BY <1>2 DEF GatewayInv, GatewayTyped, OwnersTyped, ClientTyped, Shed, handled
  <2> QED BY <1>2, <1>3, <1>4, <2>1, ExecPays
<1>6. (\A g \in Owners \ shaken : OwnerSteady(g))'
  <2> SUFFICES ASSUME NEW g \in Owners \ shaken PROVE OwnerSteady(g)'
    BY DEF Shed
  <2>1. OwnerSteady(g)
    BY DEF GatewayInv
  <2>2. records' = records /\ ran' = ran
    BY DEF Shed, handled
  <2>3. \A b \in Requests : exec'[b][g].at \in {exec[b][g].at, "replied"}
    BY <1>3
  <2>4. \A b \in Requests : exec[b][g].at = "ran" => exec'[b][g].at = "ran"
    BY <1>3 DEF Shed
  <2> QED BY <2>1, <2>2, <2>3, <2>4, SteadyLess
<1> QED BY <1>3, <1>5, <1>6 DEF GatewayInv

\* A thread of an owner that neither dies nor answers an error opens nothing.
LEMMA OpenKept ==
    ASSUME GatewayInv, NEW a \in Requests, NEW h \in Owners, NEW e,
           gw' = gw, cache' = cache,
           \A b \in Requests, g \in Owners :
               exec'[b][g] = IF b = a /\ g = h THEN e ELSE exec[b][g],
           ~(e.at = "dead" \/ (e.at = "replied" /\ e.answer.outcome = "error"))
    PROVE  a \in OpenSet' => a \in OpenSet
<1>1. gw[a].at = "calling" => Head(gw[a].todo) \in Owners
  BY DEF GatewayInv, GatewayTyped, ThreadsTyped, ThreadTyped
<1>2. Open(a)' => Open(a)
  <2> DEFINE g == Head(gw[a].todo)
  <2>1. gw[a].at = "calling" => exec'[a][g] = IF g = h THEN e ELSE exec[a][g]
    BY <1>1
  <2> QED BY <2>1 DEF Open
<1> QED BY <1>2 DEF OpenSet

\* Gate 0 of an owner, and the gates after it.
LEMMA OwnerGateKeeps ==
    ASSUME GatewayInv, NEW a \in Requests, NEW h \in Owners, OwnerGate(a, h)
    PROVE  GatewayInv'
<1>1. PICK e : /\ exec' = [exec EXCEPT ![a][h] = e]
               /\ e = [at |-> e.at, answer |-> e.answer]
               /\ e.at = "replied" => e.answer # Nothing
               /\ \/ e.at = "replied" /\ records' = records
                  \/ e.at = "ready" /\ records[h] = Nothing /\ records' = records
                  \/ /\ e.at = "replied"
                     /\ records' = [records EXCEPT ![h] = Answer(h, "denied")]
  <2>1. exec[a][h] = [at |-> exec[a][h].at, answer |-> exec[a][h].answer]
    BY DEF GatewayInv, GatewayTyped, ExecsTyped, ExecTyped
  <2>2. CASE records[h] # Nothing
    <3> DEFINE r == [at |-> "replied", answer |-> records[h]]
    <3>1. exec' = [exec EXCEPT ![a][h] = r] /\ records' = records
      BY <2>2 DEF OwnerGate, OwnerReplies
    <3>2. r = [at |-> r.at, answer |-> r.answer] /\ r.at = "replied" /\ r.answer # Nothing
      BY <2>2
    <3> HIDE DEF r
    <3> QED BY <3>1, <3>2
  <2>3. CASE records[h] = Nothing
    <3>1. CASE ExecAt(a, h, "ready") /\ records' = records
      <4> DEFINE r == [at |-> "ready", answer |-> exec[a][h].answer]
      <4>1. [exec[a][h] EXCEPT !.at = "ready"] = r
        BY <2>1
      <4>2. exec' = [exec EXCEPT ![a][h] = r]
        BY <3>1, <4>1 DEF ExecAt
      <4>3. r = [at |-> r.at, answer |-> r.answer] /\ r.at = "ready"
        OBVIOUS
      <4> HIDE DEF r
      <4> QED BY <2>3, <3>1, <4>2, <4>3
    <3>2. CASE /\ OwnerReplies(a, h, Answer(h, "denied"))
               /\ records' = [records EXCEPT ![h] = Answer(h, "denied")]
      <4> DEFINE r == [at |-> "replied", answer |-> Answer(h, "denied")]
      <4>1. exec' = [exec EXCEPT ![a][h] = r]
        BY <3>2 DEF OwnerReplies
      <4>2. r = [at |-> r.at, answer |-> r.answer] /\ r.at = "replied" /\ r.answer # Nothing
        BY DEF Answer, Nothing
      <4> HIDE DEF r
      <4> QED BY <3>2, <4>1, <4>2
    <3>3. CASE OwnerReplies(a, h, Answer(h, "unreachable")) /\ records' = records
      <4> DEFINE r == [at |-> "replied", answer |-> Answer(h, "unreachable")]
      <4>1. exec' = [exec EXCEPT ![a][h] = r]
        BY <3>3 DEF OwnerReplies
      <4>2. r = [at |-> r.at, answer |-> r.answer] /\ r.at = "replied" /\ r.answer # Nothing
        BY DEF Answer, Nothing
      <4> HIDE DEF r
      <4> QED BY <3>3, <4>1, <4>2
    <3> QED BY <2>3, <3>1, <3>2, <3>3 DEF OwnerGate
  <2> QED BY <2>2, <2>3
<1>2. /\ UNCHANGED <<client, gw, cache, handled, counts, shaken, late>>
      /\ exec[a][h].at = "gate"
  BY DEF OwnerGate
<1>3. ExecTyped(e) /\ exec[a][h].at \in Working
  BY <1>1, <1>2 DEF ExecTyped, ExecPlaces, Working, Nothing
<1>4. /\ OwnersTyped' /\ paid' = paid /\ runs' = runs
      /\ faults' \in 0..MaxFaults /\ paid' \in 0..faults'
  <2>1. OwnersTyped /\ ClientTyped
    BY DEF GatewayInv, GatewayTyped
  <2>2. records' = [g \in Owners |-> records'[g]]
    BY <1>1, <2>1 DEF OwnersTyped
  <2> QED BY <1>2, <2>1, <2>2 DEF OwnersTyped, ClientTyped, handled, counts
<1>5. /\ GatewayTyped' /\ InTurn' /\ LateInv'
      /\ \A b \in Requests, g \in Owners :
            exec'[b][g] = IF b = a /\ g = h THEN e ELSE exec[b][g]
      /\ OpenSet' \subseteq OpenSet \cup {a}
      /\ ToRun' \subseteq ToRun \cup {<<a, h>>}
      /\ Fresh' = Fresh
  BY <1>1, <1>2, <1>3, <1>4, ExecMoves
<1>6. PaidFor'
  <2>1. runs' \in Nat /\ paid' \in Nat
    BY <1>2 DEF GatewayInv, GatewayTyped, OwnersTyped, ClientTyped, handled, counts
  <2>2. <<a, h>> \in ToRun
    BY <1>2 DEF ToRun
  <2>3. CASE e.at = "replied"
    <3>1. <<a, h>> \notin ToRun'
      BY <1>5, <2>3 DEF ToRun
    <3> QED BY <1>4, <1>5, <2>1, <2>2, <3>1, ExecPays
  <2>4. CASE e.at = "ready"
    <3>1. a \in OpenSet' => a \in OpenSet
      <4>1. ~(e.at = "dead" \/ (e.at = "replied" /\ e.answer.outcome = "error"))
        BY <2>4
      <4> QED BY <1>2, <1>5, <4>1, OpenKept
    <3> QED BY <1>4, <1>5, <2>1, <2>2, <3>1, ExecPays
  <2> QED BY <1>1, <2>3, <2>4
<1>7. (\A g \in Owners \ shaken : OwnerSteady(g))'
  <2> SUFFICES ASSUME NEW g \in Owners \ shaken PROVE OwnerSteady(g)'
    BY <1>2
  <2>1. OwnerSteady(g) /\ ran' = ran
    BY <1>2 DEF GatewayInv, handled
  <2>2. CASE e.at = "replied" /\ records' = records
    <3>1. \A b \in Requests : exec'[b][g].at \in {exec[b][g].at, "replied"}
      BY <1>5, <2>2
    <3>2. \A b \in Requests : exec[b][g].at = "ran" => exec'[b][g].at = "ran"
      BY <1>2, <1>5
    <3> QED BY <2>1, <2>2, <3>1, <3>2, SteadyLess
  <2>3. CASE e.at = "ready" /\ records[h] = Nothing /\ records' = records
    <3>1. \A b \in Requests : /\ exec'[b][g].at \in Working => exec[b][g].at \in Working
                              /\ exec[b][g].at = "ran" => exec'[b][g].at = "ran"
                              /\ exec'[b][g].at = "ready" =>
                                    exec[b][g].at = "ready" \/ records[g] = Nothing
      BY <1>2, <1>5, <2>3 DEF Working
    <3> QED BY <2>1, <2>3, <3>1 DEF OwnerSteady
  <2>4. CASE e.at = "replied" /\ records' = [records EXCEPT ![h] = Answer(h, "denied")]
    <3>1. CASE g = h
      <4>1. records'[h] # Nothing
        BY <2>4 DEF GatewayInv, GatewayTyped, OwnersTyped, Answer, Nothing
      <4>2. \A b \in Requests : exec'[b][h].at \notin Working
        <5> SUFFICES ASSUME NEW b \in Requests, exec'[b][h].at \in Working PROVE FALSE
          OBVIOUS
        <5>1. b # a
          BY <1>5, <2>4 DEF Working
        <5>2. exec[b][h].at \in Working
          BY <1>5, <5>1
        <5> QED BY <1>3, <2>1, <3>1, <5>1, <5>2 DEF OwnerSteady
      <4> QED BY <2>1, <3>1, <4>1, <4>2 DEF OwnerSteady, Working
    <3>2. CASE g # h
      <4>1. records'[g] = records[g] /\ \A b \in Requests : exec'[b][g] = exec[b][g]
        BY <1>5, <2>4, <3>2 DEF GatewayInv, GatewayTyped, OwnersTyped
      <4> QED BY <2>1, <4>1 DEF OwnerSteady
    <3> QED BY <3>1, <3>2
  <2> QED BY <1>1, <2>2, <2>3, <2>4
<1> QED BY <1>5, <1>6, <1>7 DEF GatewayInv

LEMMA RunHandlerKeeps ==
    ASSUME GatewayInv, NEW a \in Requests, NEW h \in Owners, RunHandler(a, h)
    PROVE  GatewayInv'
<1>1. PICK e : /\ exec' = [exec EXCEPT ![a][h] = e]
               /\ e = [at |-> "ran", answer |-> e.answer]
               /\ e.answer.outcome = "success"
  <2> DEFINE r == [at |-> "ran", answer |-> [outcome |-> "success", from |-> h, run |-> ran[h] + 1]]
  <2>1. exec' = [exec EXCEPT ![a][h] = r]
    BY DEF RunHandler
  <2>2. r = [at |-> "ran", answer |-> r.answer] /\ r.answer.outcome = "success"
    OBVIOUS
  <2> HIDE DEF r
  <2> QED BY <2>1, <2>2
<1>2. /\ UNCHANGED <<client, gw, cache, records, counts, shaken, late>>
      /\ exec[a][h].at = "ready"
      /\ ran' = [ran EXCEPT ![h] = @ + 1] /\ runs' = runs + 1
  BY DEF RunHandler
<1>3. ExecTyped(e) /\ exec[a][h].at \in Working
  BY <1>1, <1>2 DEF ExecTyped, ExecPlaces, Working, Nothing
<1>4. OwnersTyped' /\ paid' = paid /\ faults' \in 0..MaxFaults /\ paid' \in 0..faults'
  BY <1>2 DEF GatewayInv, GatewayTyped, OwnersTyped, ClientTyped, counts
<1>5. /\ GatewayTyped' /\ InTurn' /\ LateInv'
      /\ \A b \in Requests, g \in Owners :
            exec'[b][g] = IF b = a /\ g = h THEN e ELSE exec[b][g]
      /\ OpenSet' \subseteq OpenSet \cup {a}
      /\ ToRun' \subseteq ToRun \cup {<<a, h>>}
      /\ Fresh' = Fresh
  BY <1>1, <1>2, <1>3, <1>4, ExecMoves
<1>6. PaidFor'
  <2>1. runs' \in Nat /\ paid' \in Nat
    BY <1>2 DEF GatewayInv, GatewayTyped, OwnersTyped, ClientTyped, counts
  <2>2. <<a, h>> \in ToRun /\ <<a, h>> \notin ToRun'
    BY <1>1, <1>2, <1>5 DEF ToRun
  <2>3. a \in OpenSet' => a \in OpenSet
    <3>1. ~(e.at = "dead" \/ (e.at = "replied" /\ e.answer.outcome = "error"))
      BY <1>1
    <3> QED BY <1>2, <1>5, <3>1, OpenKept
  <2> QED BY <1>2, <1>4, <1>5, <2>1, <2>2, <2>3, ExecPays
<1>7. (\A g \in Owners \ shaken : OwnerSteady(g))'
  <2> SUFFICES ASSUME NEW g \in Owners \ shaken PROVE OwnerSteady(g)'
    BY <1>2
  <2>1. OwnerSteady(g) /\ ran \in [Owners -> Nat]
    BY DEF GatewayInv, GatewayTyped, OwnersTyped
  <2>2. CASE g = h
    <3>1. records[h] = Nothing
      BY <1>2, <2>1, <2>2 DEF OwnerSteady
    <3>2. \A b \in Requests : exec[b][h].at \in Working => b = a
      BY <1>3, <2>1, <2>2 DEF OwnerSteady
    <3>3. ran[h] = 0
      <4>1. \A b \in Requests : exec[b][h].at # "ran"
        BY <1>2, <3>2 DEF Working
      <4> QED BY <2>1, <2>2, <3>1, <4>1 DEF OwnerSteady
    <3>4. ran'[h] = 1
      BY <1>2, <2>1, <3>3
    <3>5. exec'[a][h].at = "ran"
      BY <1>1, <1>5
    <3>6. \A b \in Requests : exec'[b][h].at \in Working => b = a
      BY <1>5, <3>2
    <3>7. \A b \in Requests : exec'[b][h].at # "ready"
      BY <3>5, <3>6 DEF Working
    <3> QED BY <2>2, <3>4, <3>5, <3>6, <3>7 DEF OwnerSteady
  <2>3. CASE g # h
    <3>1. /\ records'[g] = records[g] /\ ran'[g] = ran[g]
          /\ \A b \in Requests : exec'[b][g] = exec[b][g]
      BY <1>2, <1>5, <2>1, <2>3
    <3> QED BY <2>1, <3>1 DEF OwnerSteady
  <2> QED BY <2>2, <2>3
<1> QED BY <1>5, <1>6, <1>7 DEF GatewayInv

LEMMA OwnerReplyKeeps ==
    ASSUME GatewayInv, NEW a \in Requests, NEW h \in Owners, OwnerReply(a, h)
    PROVE  GatewayInv'
<1>1. PICK e : /\ exec' = [exec EXCEPT ![a][h] = e]
               /\ e = [at |-> "replied", answer |-> e.answer]
               /\ e.answer.outcome = "success"
               /\ e.answer = exec[a][h].answer
  <2>1. /\ exec[a][h] = [at |-> exec[a][h].at, answer |-> exec[a][h].answer]
        /\ exec[a][h].answer.outcome = "success"
    BY DEF GatewayInv, GatewayTyped, ExecsTyped, ExecTyped, OwnerReply
  <2> DEFINE r == [at |-> "replied", answer |-> exec[a][h].answer]
  <2>2. [exec[a][h] EXCEPT !.at = "replied"] = r
    BY <2>1
  <2>3. exec' = [exec EXCEPT ![a][h] = r]
    BY <2>2 DEF OwnerReply, ExecAt
  <2>4. r = [at |-> "replied", answer |-> r.answer] /\ r.answer = exec[a][h].answer
    OBVIOUS
  <2> HIDE DEF r
  <2> QED BY <2>1, <2>3, <2>4
<1>2. /\ UNCHANGED <<client, gw, cache, handled, counts, shaken, late>>
      /\ exec[a][h].at = "ran"
      /\ records' = IF records[h] = Nothing
                    THEN [records EXCEPT ![h] = e.answer] ELSE records
  BY <1>1 DEF OwnerReply
<1>3. ExecTyped(e) /\ exec[a][h].at \in Working
  BY <1>1, <1>2 DEF ExecTyped, ExecPlaces, Working, Nothing
<1>4. /\ OwnersTyped' /\ paid' = paid /\ runs' = runs
      /\ faults' \in 0..MaxFaults /\ paid' \in 0..faults'
  <2>1. OwnersTyped /\ ClientTyped
    BY DEF GatewayInv, GatewayTyped
  <2>2. records' = [g \in Owners |-> records'[g]]
    BY <1>2, <2>1 DEF OwnersTyped
  <2> QED BY <1>2, <2>1, <2>2 DEF OwnersTyped, ClientTyped, handled, counts
<1>5. /\ GatewayTyped' /\ InTurn' /\ LateInv'
      /\ \A b \in Requests, g \in Owners :
            exec'[b][g] = IF b = a /\ g = h THEN e ELSE exec[b][g]
      /\ OpenSet' \subseteq OpenSet \cup {a}
      /\ ToRun' \subseteq ToRun \cup {<<a, h>>}
      /\ Fresh' = Fresh
  BY <1>1, <1>2, <1>3, <1>4, ExecMoves
<1>6. PaidFor'
  <2>1. runs' \in Nat /\ paid' \in Nat
    BY <1>2 DEF GatewayInv, GatewayTyped, OwnersTyped, ClientTyped, handled, counts
  <2>2. <<a, h>> \notin ToRun'
    BY <1>1, <1>5 DEF ToRun
  <2>3. a \in OpenSet' => a \in OpenSet
    <3>1. ~(e.at = "dead" \/ (e.at = "replied" /\ e.answer.outcome = "error"))
      BY <1>1
    <3> QED BY <1>2, <1>5, <3>1, OpenKept
  <2> QED BY <1>2, <1>4, <1>5, <2>1, <2>2, <2>3, ExecPays
<1>7. (\A g \in Owners \ shaken : OwnerSteady(g))'
  <2> SUFFICES ASSUME NEW g \in Owners \ shaken PROVE OwnerSteady(g)'
    BY <1>2
  <2>1. OwnerSteady(g) /\ ran' = ran
    BY <1>2 DEF GatewayInv, handled
  <2>2. CASE g = h
    <3>1. records'[h] # Nothing
      BY <1>1, <1>2 DEF GatewayInv, GatewayTyped, OwnersTyped, Nothing
    <3>2. \A b \in Requests : exec'[b][h].at \notin Working
      <4> SUFFICES ASSUME NEW b \in Requests, exec'[b][h].at \in Working PROVE FALSE
        OBVIOUS
      <4>1. b # a
        BY <1>1, <1>5 DEF Working
      <4>2. exec[b][h].at \in Working
        BY <1>5, <4>1
      <4> QED BY <1>3, <2>1, <2>2, <4>1, <4>2 DEF OwnerSteady
    <3> QED BY <2>1, <2>2, <3>1, <3>2 DEF OwnerSteady, Working
  <2>3. CASE g # h
    <3>1. records'[g] = records[g] /\ \A b \in Requests : exec'[b][g] = exec[b][g]
      BY <1>2, <1>5, <2>3 DEF GatewayInv, GatewayTyped, OwnersTyped
    <3> QED BY <2>1, <3>1 DEF OwnerSteady
  <2> QED BY <2>2, <2>3
<1> QED BY <1>5, <1>6, <1>7 DEF GatewayInv

LEMMA OwnerDiesKeeps ==
    ASSUME GatewayInv, NEW a \in Requests, NEW h \in Owners, OwnerDies(a, h)
    PROVE  GatewayInv'
<1>1. PICK e : /\ exec' = [exec EXCEPT ![a][h] = e]
               /\ e = [at |-> "dead", answer |-> e.answer]
  <2>1. exec[a][h] = [at |-> exec[a][h].at, answer |-> exec[a][h].answer]
    BY DEF GatewayInv, GatewayTyped, ExecsTyped, ExecTyped
  <2> DEFINE r == [at |-> "dead", answer |-> exec[a][h].answer]
  <2>2. [exec[a][h] EXCEPT !.at = "dead"] = r
    BY <2>1
  <2>3. exec' = [exec EXCEPT ![a][h] = r]
    BY <2>2 DEF OwnerDies, ExecAt
  <2>4. r = [at |-> "dead", answer |-> r.answer] /\ r.answer = exec[a][h].answer
    OBVIOUS
  <2> HIDE DEF r
  <2> QED BY <2>3, <2>4
<1>2. /\ UNCHANGED <<client, gw, cache, records, handled, late>>
      /\ exec[a][h].at \in Working
      /\ shaken' = shaken \cup {h}
      /\ faults < MaxFaults /\ faults' = faults + 1 /\ paid' = paid + 1
  BY DEF OwnerDies, Fault
<1>3. ExecTyped(e)
  BY <1>1 DEF ExecTyped, ExecPlaces
<1>4. OwnersTyped' /\ runs' = runs /\ faults' \in 0..MaxFaults /\ paid' \in 0..faults'
  BY <1>2, GatewayConstants DEF GatewayInv, GatewayTyped, OwnersTyped, ClientTyped, handled
<1>5. /\ GatewayTyped' /\ InTurn' /\ LateInv'
      /\ \A b \in Requests, g \in Owners :
            exec'[b][g] = IF b = a /\ g = h THEN e ELSE exec[b][g]
      /\ OpenSet' \subseteq OpenSet \cup {a}
      /\ ToRun' \subseteq ToRun \cup {<<a, h>>}
      /\ Fresh' = Fresh
  BY <1>1, <1>2, <1>3, <1>4, ExecMoves
<1>6. PaidFor'
  <2>1. runs' \in Nat /\ paid' \in Nat
    BY <1>2 DEF GatewayInv, GatewayTyped, OwnersTyped, ClientTyped, handled
  <2>2. <<a, h>> \notin ToRun'
    BY <1>1, <1>5 DEF ToRun
  <2> QED BY <1>2, <1>4, <1>5, <2>1, <2>2, ExecPays
<1>7. (\A g \in Owners \ shaken : OwnerSteady(g))'
  <2> SUFFICES ASSUME NEW g \in Owners \ shaken, g # h PROVE OwnerSteady(g)'
    BY <1>2
  <2>1. OwnerSteady(g) /\ ran' = ran /\ records' = records
    BY <1>2 DEF GatewayInv, handled
  <2>2. \A b \in Requests : exec'[b][g] = exec[b][g]
    BY <1>5
  <2> QED BY <2>1, <2>2 DEF OwnerSteady
<1> QED BY <1>5, <1>6, <1>7 DEF GatewayInv

\* Two fields of a thread change.
LEMMA TodoSet ==
    ASSUME NEW q, ThreadTyped(q), NEW w, NEW x, NEW r, r = [q EXCEPT !.at = w, !.todo = x]
    PROVE  r = [at |-> w, todo |-> x, answer |-> q.answer]
<1>1. q = [at |-> q.at, todo |-> q.todo, answer |-> q.answer]
  BY DEF ThreadTyped
<1> QED BY <1>1

\* What a thread of the gateway is when its place alone changes.
LEMMA GwMoves ==
    ASSUME GatewayInv, NEW a \in Requests,
           NEW where \in GwPlaces \ {"calling", "record"}, GwAt(a, where)
    PROVE  \E t : /\ gw' = [gw EXCEPT ![a] = t]
                  /\ t = [at |-> where, todo |-> gw[a].todo, answer |-> gw[a].answer]
                  /\ ThreadTyped(t)
<1>1. ThreadTyped(gw[a])
  BY DEF GatewayInv, GatewayTyped, ThreadsTyped
<1> DEFINE r == [at |-> where, todo |-> gw[a].todo, answer |-> gw[a].answer]
<1>2. [gw[a] EXCEPT !.at = where] = r
  BY <1>1 DEF ThreadTyped
<1>3. gw' = [gw EXCEPT ![a] = r]
  BY <1>2 DEF GwAt
<1>4. r.at = where /\ r.todo = gw[a].todo /\ r = [at |-> r.at, todo |-> r.todo, answer |-> r.answer]
  OBVIOUS
<1>5. ThreadTyped(r) /\ r = [at |-> where, todo |-> gw[a].todo, answer |-> gw[a].answer]
  <2>1. r = [at |-> where, todo |-> gw[a].todo, answer |-> gw[a].answer]
    OBVIOUS
  <2> HIDE DEF r
  <2> QED BY <1>1, <1>4, <2>1 DEF ThreadTyped
<1> HIDE DEF r
<1> QED BY <1>3, <1>5

\* ... and when it turns to the next owner.
LEMMA GwTurns ==
    ASSUME GatewayInv, NEW a \in Requests, NextOwner(a), gw[a].todo # <<>>
    PROVE  \E t : /\ gw' = [gw EXCEPT ![a] = t]
                  /\ t.at = "routing"
                  /\ ThreadTyped(t)
<1>1. ThreadTyped(gw[a])
  BY DEF GatewayInv, GatewayTyped, ThreadsTyped
<1>2. PICK r : r = [gw[a] EXCEPT !.at = "routing", !.todo = Tail(gw[a].todo)]
  OBVIOUS
<1>3. gw' = [gw EXCEPT ![a] = r]
  BY <1>2 DEF NextOwner
<1>4. Tail(gw[a].todo) \in Seq(Owners)
  BY <1>1 DEF ThreadTyped
<1>5. r.at = "routing" /\ ThreadTyped(r)
  <2>1. r = [at |-> "routing", todo |-> Tail(gw[a].todo), answer |-> gw[a].answer]
    BY <1>1, <1>2, TodoSet
  <2> QED BY <1>4, <2>1 DEF ThreadTyped, GwPlaces
<1> QED BY <1>3, <1>5

\* A request is on its way once its thread is beyond gate 0.
LEMMA NotLate ==
    ASSUME GatewayInv, NEW a \in Requests, gw[a].at \in {"routing", "calling", "record"}
    PROVE  a \notin late
BY DEF GatewayInv, LateInv

LEMMA ClientStays ==
    ASSUME GatewayInv, UNCHANGED client
    PROVE  /\ client' \in [Requests -> Statuses]
           /\ \A b \in Requests :
                 client'[b] = client[b] \/ (client[b] = "waiting" /\ client'[b] = "answered")
BY DEF GatewayInv, GatewayTyped, ClientTyped

LEMMA CountsStay ==
    ASSUME GatewayInv, UNCHANGED counts
    PROVE  faults' \in 0..MaxFaults /\ paid' \in 0..faults' /\ paid' = paid /\ paid' \in Nat
           /\ paid' >= paid
BY DEF GatewayInv, GatewayTyped, ClientTyped, counts

LEMMA FaultCosts ==
    ASSUME GatewayInv, NEW cost \in {0, 1}, Fault(cost)
    PROVE  faults' \in 0..MaxFaults /\ paid' \in 0..faults' /\ paid' = paid + cost /\ paid' \in Nat
           /\ paid' >= paid
BY GatewayConstants DEF GatewayInv, GatewayTyped, ClientTyped, Fault

LEMMA LookUpKeeps ==
    ASSUME GatewayInv, NEW a \in Requests, LookUp(a)
    PROVE  GatewayInv'
<1>1. /\ UNCHANGED <<client, exec, cache, records, handled, counts, shaken, late>>
      /\ gw[a].at = "gate"
  BY DEF LookUp
<1>2. ThreadTyped(gw[a])
  BY DEF GatewayInv, GatewayTyped, ThreadsTyped
<1>3. PICK t : /\ gw' = [gw EXCEPT ![a] = t]
               /\ ThreadTyped(t)
               /\ \/ cache # Nothing /\ t.at = "answer" /\ t.answer = cache
                  \/ cache = Nothing /\ t.at = "routing"
  <2>1. CASE cache # Nothing
    <3>1. PICK r : r = [gw[a] EXCEPT !.at = "answer", !.answer = cache]
      OBVIOUS
    <3>2. gw' = [gw EXCEPT ![a] = r]
      BY <2>1, <3>1 DEF LookUp
    <3>3. r.at = "answer" /\ r.answer = cache /\ ThreadTyped(r)
      <4>1. gw[a] = [at |-> gw[a].at, todo |-> gw[a].todo, answer |-> gw[a].answer]
        BY <1>2 DEF ThreadTyped
      <4>2. r = [at |-> "answer", todo |-> gw[a].todo, answer |-> cache]
        BY <3>1, <4>1
      <4> QED BY <1>2, <4>2 DEF ThreadTyped, GwPlaces
    <3> QED BY <2>1, <3>2, <3>3
  <2>2. CASE cache = Nothing
    <3>1. PICK order \in Orders :
              gw' = [gw EXCEPT ![a] = [@ EXCEPT !.at = "routing", !.todo = order]]
      BY <2>2 DEF LookUp
    <3>2. PICK r : r = [gw[a] EXCEPT !.at = "routing", !.todo = order]
      OBVIOUS
    <3>3. gw' = [gw EXCEPT ![a] = r]
      BY <3>1, <3>2
    <3>4. order \in Seq(Owners)
      <4>1. Cardinality(Owners) \in Nat
        BY GatewayConstants, FS_CardinalityType
      <4>2. order \in [1..Cardinality(Owners) -> Owners]
        BY DEF Orders
      <4> QED BY <4>1, <4>2, SeqDef
    <3>5. r.at = "routing" /\ ThreadTyped(r)
      <4>1. r = [at |-> "routing", todo |-> order, answer |-> gw[a].answer]
        BY <1>2, <3>2, TodoSet
      <4> QED BY <3>4, <4>1 DEF ThreadTyped, GwPlaces
    <3> QED BY <2>2, <3>3, <3>5
  <2> QED BY <2>1, <2>2
<1>4. a \in late => cache # Nothing
  BY DEF GatewayInv, LateInv
<1>5. /\ GatewayTyped' /\ InTurn' /\ LateInv'
      /\ (\A h \in Owners \ shaken : OwnerSteady(h))'
      /\ ToRun' = ToRun
      /\ \A b \in Requests : gw'[b] = IF b = a THEN t ELSE gw[b]
      /\ \A b \in Requests \ {a} : b \in OpenSet' => b \in OpenSet
  BY <1>1, <1>3, <1>4, ClientStays, CountsStay, ThreadMoves
<1>6. PaidFor'
  <2>1. Fresh' = Fresh /\ Fresh' <= Fresh
    BY <1>1 DEF Fresh, Waiting
  <2>2. a \in OpenSet \/ a \notin OpenSet'
    BY <1>1, <1>3, <1>5 DEF OpenSet, Open
  <2> QED BY <1>1, <1>5, <2>1, <2>2, CountsStay, ThreadPays
<1> QED BY <1>5, <1>6 DEF GatewayInv

\* An owner that refuses, is lost or is dead: the next one is tried.
LEMMA RefusedKeeps ==
    ASSUME GatewayInv, NEW a \in Requests, Refused(a)
    PROVE  GatewayInv'
<1>1. /\ UNCHANGED <<client, exec, cache, records, handled, shaken, late>>
      /\ gw[a].at = "routing" /\ gw[a].todo # <<>> /\ NextOwner(a) /\ Fault(0)
  BY DEF Refused
<1>2. PICK t : gw' = [gw EXCEPT ![a] = t] /\ t.at = "routing" /\ ThreadTyped(t)
  BY <1>1, GwTurns
<1>3. /\ GatewayTyped' /\ InTurn' /\ LateInv'
      /\ (\A h \in Owners \ shaken : OwnerSteady(h))'
      /\ ToRun' = ToRun
      /\ \A b \in Requests : gw'[b] = IF b = a THEN t ELSE gw[b]
      /\ \A b \in Requests \ {a} : b \in OpenSet' => b \in OpenSet
  BY <1>1, <1>2, NotLate, ClientStays, FaultCosts, ThreadMoves
<1>4. PaidFor'
  <2>1. Fresh' = Fresh /\ Fresh' <= Fresh
    BY <1>1 DEF Fresh, Waiting
  <2>2. a \in OpenSet
    BY <1>1 DEF OpenSet, Open
  <2> QED BY <1>1, <1>3, <2>1, <2>2, FaultCosts, ThreadPays
<1> QED BY <1>3, <1>4 DEF GatewayInv

LEMMA BreakCallKeeps ==
    ASSUME GatewayInv, NEW a \in Requests, BreakCall(a)
    PROVE  GatewayInv'
<1>1. /\ UNCHANGED <<client, exec, cache, records, handled, shaken, late>>
      /\ gw[a].at = "calling" /\ NextOwner(a) /\ Fault(1)
  BY DEF BreakCall
<1>2. gw[a].todo # <<>>
  BY <1>1 DEF GatewayInv, GatewayTyped, ThreadsTyped, ThreadTyped
<1>3. PICK t : gw' = [gw EXCEPT ![a] = t] /\ t.at = "routing" /\ ThreadTyped(t)
  BY <1>1, <1>2, GwTurns
<1>4. /\ GatewayTyped' /\ InTurn' /\ LateInv'
      /\ (\A h \in Owners \ shaken : OwnerSteady(h))'
      /\ ToRun' = ToRun
      /\ \A b \in Requests : gw'[b] = IF b = a THEN t ELSE gw[b]
      /\ \A b \in Requests \ {a} : b \in OpenSet' => b \in OpenSet
  BY <1>1, <1>3, NotLate, ClientStays, FaultCosts, ThreadMoves
<1>5. PaidFor'
  <2>1. Fresh' = Fresh /\ Fresh' <= Fresh
    BY <1>1 DEF Fresh, Waiting
  <2> QED BY <1>1, <1>4, <2>1, FaultCosts, ThreadPays
<1> QED BY <1>4, <1>5 DEF GatewayInv

LEMMA FindDeadKeeps ==
    ASSUME GatewayInv, NEW a \in Requests, FindDead(a)
    PROVE  GatewayInv'
<1>1. /\ UNCHANGED <<client, exec, cache, records, handled, counts, shaken, late>>
      /\ gw[a].at = "calling" /\ exec[a][Head(gw[a].todo)].at = "dead" /\ NextOwner(a)
  BY DEF FindDead
<1>2. gw[a].todo # <<>>
  BY <1>1 DEF GatewayInv, GatewayTyped, ThreadsTyped, ThreadTyped
<1>3. PICK t : gw' = [gw EXCEPT ![a] = t] /\ t.at = "routing" /\ ThreadTyped(t)
  BY <1>1, <1>2, GwTurns
<1>4. /\ GatewayTyped' /\ InTurn' /\ LateInv'
      /\ (\A h \in Owners \ shaken : OwnerSteady(h))'
      /\ ToRun' = ToRun
      /\ \A b \in Requests : gw'[b] = IF b = a THEN t ELSE gw[b]
      /\ \A b \in Requests \ {a} : b \in OpenSet' => b \in OpenSet
  BY <1>1, <1>3, NotLate, ClientStays, CountsStay, ThreadMoves
<1>5. PaidFor'
  <2>1. Fresh' = Fresh /\ Fresh' <= Fresh
    BY <1>1 DEF Fresh, Waiting
  <2>2. a \in OpenSet
    BY <1>1 DEF OpenSet, Open
  <2> QED BY <1>1, <1>4, <2>1, <2>2, CountsStay, ThreadPays
<1> QED BY <1>4, <1>5 DEF GatewayInv

LEMMA TakeKeeps ==
    ASSUME GatewayInv, NEW a \in Requests, Take(a)
    PROVE  GatewayInv'
<1> DEFINE e == exec[a][Head(gw[a].todo)]
<1>1. /\ UNCHANGED <<client, exec, cache, records, handled, counts, shaken, late>>
      /\ gw[a].at = "calling" /\ e.at = "replied"
  BY DEF Take
<1>2. PICK t : /\ gw' = [gw EXCEPT ![a] = t] /\ ThreadTyped(t)
               /\ t.at = IF e.answer.outcome = "error" THEN "answer" ELSE "record"
  <2>1. ThreadTyped(gw[a])
    BY DEF GatewayInv, GatewayTyped, ThreadsTyped
  <2> DEFINE where == IF e.answer.outcome = "error" THEN "answer" ELSE "record"
  <2>2. PICK r : r = [gw[a] EXCEPT !.answer = e.answer, !.at = where]
    OBVIOUS
  <2>3. gw' = [gw EXCEPT ![a] = r]
    BY <2>2 DEF Take
  <2>4. e.answer # Nothing
    <3>1. Head(gw[a].todo) \in Owners
      BY <1>1, <2>1 DEF ThreadTyped
    <3> QED BY <1>1, <3>1 DEF GatewayInv, GatewayTyped, ExecsTyped, ExecTyped
  <2>5. r.at = where /\ ThreadTyped(r)
    <3> HIDE DEF where, e
    <3>1. gw[a] = [at |-> gw[a].at, todo |-> gw[a].todo, answer |-> gw[a].answer]
      BY <2>1 DEF ThreadTyped
    <3>2. r = [at |-> where, todo |-> gw[a].todo, answer |-> e.answer]
      BY <2>2, <3>1
    <3>3. where \in {"answer", "record"}
      BY DEF where
    <3> QED BY <2>1, <2>4, <3>2, <3>3 DEF ThreadTyped, GwPlaces
  <2> QED BY <2>3, <2>5
<1>3. /\ GatewayTyped' /\ InTurn' /\ LateInv'
      /\ (\A h \in Owners \ shaken : OwnerSteady(h))'
      /\ ToRun' = ToRun
      /\ \A b \in Requests : gw'[b] = IF b = a THEN t ELSE gw[b]
      /\ \A b \in Requests \ {a} : b \in OpenSet' => b \in OpenSet
  <2>1. t.at \notin {"none", "gate"} /\ a \notin late
    BY <1>1, <1>2, NotLate
  <2> HIDE DEF e
  <2> QED BY <1>1, <1>2, <2>1, ClientStays, CountsStay, ThreadMoves
<1>4. PaidFor'
  <2>1. Fresh' = Fresh /\ Fresh' <= Fresh
    BY <1>1 DEF Fresh, Waiting
  <2>2. CASE e.answer.outcome = "error"
    <3>1. a \in OpenSet
      BY <1>1, <2>2 DEF OpenSet, Open
    <3> QED BY <1>1, <1>3, <2>1, <3>1, CountsStay, ThreadPays
  <2>3. CASE e.answer.outcome # "error"
    <3>1. a \notin OpenSet'
      <4>1. gw'[a].at = "record"
        BY <1>2, <1>3, <2>3
      <4> QED BY <4>1 DEF OpenSet, Open
    <3> QED BY <1>1, <1>3, <2>1, <3>1, CountsStay, ThreadPays
  <2> QED BY <2>2, <2>3
<1> QED BY <1>3, <1>4 DEF GatewayInv

LEMMA RecordAnswerKeeps ==
    ASSUME GatewayInv, NEW a \in Requests, RecordAnswer(a)
    PROVE  GatewayInv'
<1>1. /\ UNCHANGED <<client, exec, records, handled, counts, shaken, late>>
      /\ gw[a].at = "record" /\ GwAt(a, "answer")
      /\ cache # Nothing => cache' = cache
  BY DEF RecordAnswer
<1>2. PICK t : /\ gw' = [gw EXCEPT ![a] = t]
               /\ t = [at |-> "answer", todo |-> gw[a].todo, answer |-> gw[a].answer]
               /\ ThreadTyped(t)
  BY <1>1, GwMoves DEF GwPlaces
<1>3. t.at = "answer" /\ t.answer = gw[a].answer
  BY <1>2
<1>4. /\ GatewayTyped' /\ InTurn' /\ LateInv'
      /\ (\A h \in Owners \ shaken : OwnerSteady(h))'
      /\ ToRun' = ToRun
      /\ \A b \in Requests : gw'[b] = IF b = a THEN t ELSE gw[b]
      /\ \A b \in Requests \ {a} : b \in OpenSet' => b \in OpenSet
  <2>1. t.at \notin {"none", "gate"} /\ a \notin late
    BY <1>1, <1>3, NotLate
  <2>2. gw' = [gw EXCEPT ![a] = t] /\ ThreadTyped(t)
    BY <1>2
  <2>3. UNCHANGED client /\ UNCHANGED counts /\ UNCHANGED <<exec, records, handled, shaken, late>>
        /\ (cache # Nothing => cache' = cache) /\ gw[a].at \notin {"none", "done", "gone"}
    BY <1>1
  <2> QED BY <2>1, <2>2, <2>3, ClientStays, CountsStay, ThreadMoves
<1>5. PaidFor'
  <2>1. Fresh' <= Fresh
    BY <1>1 DEF Fresh, Waiting
  <2>2. a \notin OpenSet'
    <3>1. gw[a].answer # Nothing
      BY <1>1 DEF GatewayInv, GatewayTyped, ThreadsTyped, ThreadTyped
    <3>2. cache' # Nothing
      BY <3>1 DEF RecordAnswer
    <3> QED BY <1>3, <1>4, <3>2 DEF OpenSet, Open
  <2> QED BY <1>1, <1>4, <2>1, <2>2, CountsStay, ThreadPays
<1> QED BY <1>4, <1>5 DEF GatewayInv

LEMMA UnplacedKeeps ==
    ASSUME GatewayInv, NEW a \in Requests, Unplaced(a)
    PROVE  GatewayInv'
<1>1. /\ UNCHANGED client /\ UNCHANGED counts
      /\ UNCHANGED <<exec, records, handled, shaken, late>> /\ cache' = cache
      /\ gw[a].at = "routing"
  BY DEF Unplaced
<1>2. PICK t : gw' = [gw EXCEPT ![a] = t] /\ t.at = "answer" /\ ThreadTyped(t)
  <2>1. ThreadTyped(gw[a])
    BY DEF GatewayInv, GatewayTyped, ThreadsTyped
  <2> DEFINE x == [outcome |-> "unreachable", from |-> "gateway"]
  <2>2. PICK r : r = [gw[a] EXCEPT !.at = "answer", !.answer = x]
    OBVIOUS
  <2>3. gw' = [gw EXCEPT ![a] = r]
    BY <2>2 DEF Unplaced
  <2>4. r.at = "answer" /\ ThreadTyped(r)
    <3> HIDE DEF x
    <3>1. gw[a] = [at |-> gw[a].at, todo |-> gw[a].todo, answer |-> gw[a].answer]
      BY <2>1 DEF ThreadTyped
    <3>2. r = [at |-> "answer", todo |-> gw[a].todo, answer |-> x]
      BY <2>2, <3>1
    <3> QED BY <2>1, <3>2 DEF ThreadTyped, GwPlaces
  <2> QED BY <2>3, <2>4
<1>3. /\ GatewayTyped' /\ InTurn' /\ LateInv'
      /\ (\A h \in Owners \ shaken : OwnerSteady(h))'
      /\ ToRun' = ToRun
      /\ \A b \in Requests : gw'[b] = IF b = a THEN t ELSE gw[b]
      /\ \A b \in Requests \ {a} : b \in OpenSet' => b \in OpenSet
  <2>1. a \notin late
    BY <1>1, NotLate
  <2> QED BY <1>1, <1>2, <2>1, ClientStays, CountsStay, ThreadMoves
<1>4. PaidFor'
  <2>1. Fresh' = Fresh /\ Fresh' <= Fresh
    BY <1>1 DEF Fresh, Waiting
  <2>2. a \in OpenSet
    BY <1>1 DEF OpenSet, Open
  <2> QED BY <1>1, <1>3, <2>1, <2>2, CountsStay, ThreadPays
<1> QED BY <1>3, <1>4 DEF GatewayInv

LEMMA ReplyKeeps ==
    ASSUME GatewayInv, NEW a \in Requests, Reply(a)
    PROVE  GatewayInv'
<1>1. /\ UNCHANGED counts /\ UNCHANGED <<exec, records, handled, shaken, late>> /\ cache' = cache
      /\ gw[a].at = "answer" /\ GwAt(a, "done")
      /\ client' = [client EXCEPT ![a] = IF @ = "waiting" THEN "answered" ELSE @]
  BY DEF Reply
<1>2. PICK t : /\ gw' = [gw EXCEPT ![a] = t]
               /\ t = [at |-> "done", todo |-> gw[a].todo, answer |-> gw[a].answer]
               /\ ThreadTyped(t)
  BY <1>1, GwMoves DEF GwPlaces
<1>3. t.at = "done" /\ t.answer = gw[a].answer
  BY <1>2
<1>4. /\ GatewayTyped' /\ InTurn' /\ LateInv'
      /\ (\A h \in Owners \ shaken : OwnerSteady(h))'
      /\ ToRun' = ToRun
      /\ \A b \in Requests : gw'[b] = IF b = a THEN t ELSE gw[b]
      /\ \A b \in Requests \ {a} : b \in OpenSet' => b \in OpenSet
  <2>1. gw' = [gw EXCEPT ![a] = t] /\ ThreadTyped(t)
    BY <1>2
  <2>2. a \in late => t.at \in {"answer", "done"} /\ t.answer \in {Nothing, cache}
    BY <1>3 DEF GatewayInv, LateInv
  <2>3. client \in [Requests -> Statuses]
    BY DEF GatewayInv, GatewayTyped, ClientTyped
  <2>4. /\ client' \in [Requests -> Statuses]
        /\ \A b \in Requests :
              client'[b] = client[b] \/ (client[b] = "waiting" /\ client'[b] = "answered")
    BY <1>1, <2>3 DEF Statuses
  <2>5. t.at \notin {"none", "gate"} /\ gw[a].at \notin {"none", "done", "gone"}
    BY <1>1, <1>3
  <2>6. UNCHANGED counts /\ UNCHANGED <<exec, records, handled, shaken, late>>
        /\ (cache # Nothing => cache' = cache)
    BY <1>1
  <2> QED BY <2>1, <2>2, <2>4, <2>5, <2>6, CountsStay, ThreadMoves
<1>5. PaidFor'
  <2>1. a \notin OpenSet'
    BY <1>3, <1>4 DEF OpenSet, Open
  <2>2. CASE cache = Nothing
    <3>1. a \in OpenSet
      BY <1>1, <2>2 DEF OpenSet, Open
    <3> QED BY <1>1, <1>4, <2>1, <3>1, CountsStay, ThreadPays
  <2>3. CASE cache # Nothing
    <3>1. Fresh' <= Fresh
      BY <1>1, <2>3 DEF Fresh
    <3> QED BY <1>1, <1>4, <2>1, <3>1, CountsStay, ThreadPays
  <2> QED BY <2>2, <2>3
<1> QED BY <1>4, <1>5 DEF GatewayInv

LEMMA SendKeeps ==
    ASSUME GatewayInv, NEW a \in Requests, Send(a)
    PROVE  GatewayInv'
<1>1. /\ client[a] = "unsent" /\ client' = [client EXCEPT ![a] = "waiting"]
      /\ \A b \in 1..a - 1 : client[b] \in {"answered", "broken"}
      /\ GwAt(a, "gate")
      /\ late' = IF cache = Nothing THEN late ELSE late \cup {a}
      /\ exec' = exec /\ cache' = cache /\ records' = records /\ shaken' = shaken
      /\ UNCHANGED handled /\ UNCHANGED counts
  BY DEF Send
<1>2. PICK t : /\ gw' = [gw EXCEPT ![a] = t]
               /\ t = [at |-> "gate", todo |-> gw[a].todo, answer |-> gw[a].answer]
               /\ ThreadTyped(t)
  BY <1>1, GwMoves DEF GwPlaces
<1>3. t.at = "gate" /\ t.answer = gw[a].answer
  BY <1>2
<1>4. \A b \in Requests : gw'[b] = IF b = a THEN t ELSE gw[b]
  BY <1>2 DEF GatewayInv, GatewayTyped, ThreadsTyped
<1>5. \A b \in Requests : client'[b] = IF b = a THEN "waiting" ELSE client[b]
  BY <1>1 DEF GatewayInv, GatewayTyped, ClientTyped
<1>6. gw[a].answer = Nothing /\ \A h \in Owners : exec[a][h] = NoExec
  BY <1>1 DEF GatewayInv, InTurn
<1>7. \A c \in Requests : client[c] # "unsent" => a \notin 1..c - 1
  BY <1>1 DEF GatewayInv, InTurn
<1>8. GatewayTyped'
  <2>1. ThreadsTyped'
    BY <1>2, <1>4 DEF GatewayInv, GatewayTyped, ThreadsTyped
  <2>2. ExecsTyped'
    BY <1>1 DEF GatewayInv, GatewayTyped, ExecsTyped
  <2>3. OwnersTyped'
    BY <1>1 DEF GatewayInv, GatewayTyped, OwnersTyped, handled
  <2>4. ClientTyped'
    BY <1>1 DEF GatewayInv, GatewayTyped, ClientTyped, counts, Statuses
  <2> QED BY <2>1, <2>2, <2>3, <2>4 DEF GatewayTyped
<1>9. InTurn'
  <2> SUFFICES ASSUME NEW c \in Requests
               PROVE  /\ gw'[c].at = "none" <=> client'[c] = "unsent"
                      /\ client'[c] # "unsent" =>
                            \A b \in 1..c - 1 : client'[b] \in {"answered", "broken"}
                      /\ gw'[c].at \in {"none", "gate"} =>
                            gw'[c].answer = Nothing /\ \A h \in Owners : exec'[c][h] = NoExec
    BY DEF InTurn
  <2>1. CASE c = a
    <3>1. gw'[c].at # "none" /\ client'[c] # "unsent"
      BY <1>3, <1>4, <1>5, <2>1
    <3>2. \A b \in 1..c - 1 : client'[b] = client[b]
      <4>1. \A b \in 1..c - 1 : b \in Requests /\ b # a
        BY <2>1, GatewayConstants DEF Requests
      <4> QED BY <1>5, <4>1
    <3> QED BY <1>1, <1>3, <1>4, <1>6, <2>1, <3>1, <3>2
  <2>2. CASE c # a
    <3>1. gw'[c] = gw[c] /\ client'[c] = client[c]
      BY <1>4, <1>5, <2>2
    <3>2. client[c] # "unsent" => \A b \in 1..c - 1 : client'[b] = client[b]
      <4>1. \A b \in 1..c - 1 : b \in Requests
        BY GatewayConstants DEF Requests
      <4> QED BY <1>5, <1>7, <4>1
    <3> QED BY <1>1, <3>1, <3>2 DEF GatewayInv, InTurn
  <2> QED BY <2>1, <2>2
<1>10. LateInv'
  <2> SUFFICES ASSUME NEW c \in late'
               PROVE  /\ cache # Nothing
                      /\ gw'[c].at \in {"gate", "answer", "done", "gone"}
                      /\ gw'[c].answer \in {Nothing, cache}
                      /\ \A h \in Owners : exec[c][h] = NoExec
    BY <1>1 DEF LateInv
  <2>1. CASE c = a
    <3>1. cache # Nothing
      BY <1>1, <2>1 DEF GatewayInv, LateInv
    <3> QED BY <1>3, <1>4, <1>6, <2>1, <3>1
  <2>2. CASE c # a
    <3>1. c \in late /\ c \in Requests
      BY <1>1, <2>2 DEF GatewayInv, GatewayTyped, ClientTyped
    <3> QED BY <1>4, <2>2, <3>1 DEF GatewayInv, LateInv
  <2> QED BY <2>1, <2>2
<1>11. (\A h \in Owners \ shaken : OwnerSteady(h))'
  BY <1>1 DEF GatewayInv, OwnerSteady, handled
<1>12. PaidFor'
  <2>1. ToRun' = ToRun
    BY <1>1 DEF ToRun
  <2>2. \A b \in Requests \ {a} : b \in OpenSet' => b \in OpenSet
    BY <1>1, <1>4 DEF OpenSet, Open
  <2>3. CASE cache = Nothing
    <3>1. ~Waiting
      <4> SUFFICES ASSUME NEW b \in Requests, client[b] = "waiting" PROVE FALSE
        BY DEF Waiting
      <4>1. a \notin 1..b - 1 /\ b # a
        BY <1>1, <1>7
      <4>2. b \in 1..a - 1
        BY <4>1, GatewayConstants DEF Requests
      <4> QED BY <1>1, <4>2
    <3>2. Waiting'
      BY <1>5 DEF Waiting
    <3>3. Fresh = 1 /\ Fresh' = 0
      BY <2>3, <3>1, <3>2 DEF Fresh
    <3> QED BY <1>1, <2>1, <2>2, <3>3, CountsStay, ThreadPays
  <2>4. CASE cache # Nothing
    <3>1. Fresh' <= Fresh
      BY <1>1, <2>4 DEF Fresh
    <3>2. a \notin OpenSet'
      BY <1>1, <1>3, <1>4, <2>4 DEF OpenSet, Open
    <3> QED BY <1>1, <2>1, <2>2, <3>1, <3>2, CountsStay, ThreadPays
  <2> QED BY <2>3, <2>4
<1> QED BY <1>8, <1>9, <1>10, <1>11, <1>12 DEF GatewayInv

LEMMA LoseClientKeeps ==
    ASSUME GatewayInv, NEW a \in Requests, LoseClient(a)
    PROVE  GatewayInv'
<1>1. /\ client[a] = "waiting" /\ client' = [client EXCEPT ![a] = "broken"] /\ Fault(1)
      /\ UNCHANGED <<gw, exec, cache, records, handled, shaken, late>>
  BY DEF LoseClient
<1>2. \A b \in Requests : client'[b] = IF b = a THEN "broken" ELSE client[b]
  BY <1>1 DEF GatewayInv, GatewayTyped, ClientTyped
<1>3. GatewayTyped'
  <2>1. ThreadsTyped' /\ ExecsTyped' /\ OwnersTyped'
    BY <1>1 DEF GatewayInv, GatewayTyped, ThreadsTyped, ExecsTyped, OwnersTyped, handled
  <2>2. ClientTyped'
    <3>1. client' \in [Requests -> Statuses]
      BY <1>1 DEF GatewayInv, GatewayTyped, ClientTyped, Statuses
    <3> QED BY <1>1, <3>1, FaultCosts DEF GatewayInv, GatewayTyped, ClientTyped
  <2> QED BY <2>1, <2>2 DEF GatewayTyped
<1>4. InTurn'
  <2>1. InTurn /\ gw' = gw /\ exec' = exec
    BY <1>1 DEF GatewayInv
  <2> SUFFICES ASSUME NEW c \in Requests
               PROVE  /\ gw[c].at = "none" <=> client'[c] = "unsent"
                      /\ client'[c] # "unsent" =>
                            \A b \in 1..c - 1 : client'[b] \in {"answered", "broken"}
    BY <2>1 DEF InTurn
  <2>2. \A b \in 1..c - 1 : b \in Requests
    BY GatewayConstants DEF Requests
  <2> QED BY <1>1, <1>2, <2>1, <2>2 DEF InTurn
<1>5. LateInv' /\ (\A h \in Owners \ shaken : OwnerSteady(h))'
  BY <1>1 DEF GatewayInv, LateInv, OwnerSteady, handled
<1>6. PaidFor'
  <2>1. ToRun' = ToRun /\ OpenSet' = OpenSet
    BY <1>1 DEF ToRun, OpenSet, Open
  <2> QED BY <1>1, <2>1, FaultCosts, ThreadPays
<1> QED BY <1>3, <1>4, <1>5, <1>6 DEF GatewayInv

\* A call: the owner has a new thread, at its gate 0.
LEMMA CallKeeps ==
    ASSUME GatewayInv, NEW a \in Requests, Call(a)
    PROVE  GatewayInv'
<1>1. PICK h : h = Head(gw[a].todo)
  OBVIOUS
<1>2. /\ UNCHANGED <<client, cache, records, handled, late>> /\ UNCHANGED counts
      /\ gw[a].at = "routing" /\ gw[a].todo # <<>>
      /\ exec' = [exec EXCEPT ![a][h].at = "gate"]
      /\ shaken' = IF \E b \in Requests : exec[b][h].at \in Working
                   THEN shaken \cup {h} ELSE shaken
      /\ GwAt(a, "calling")
  BY <1>1 DEF Call
<1>3. ThreadTyped(gw[a]) /\ h \in Owners
  BY <1>1, <1>2 DEF GatewayInv, GatewayTyped, ThreadsTyped, ThreadTyped
<1>4. PICK t : /\ gw' = [gw EXCEPT ![a] = t]
               /\ t.at = "calling" /\ t.todo = gw[a].todo /\ ThreadTyped(t)
  <2>1. PICK r : r = [gw[a] EXCEPT !.at = "calling"]
    OBVIOUS
  <2>2. r = [at |-> "calling", todo |-> gw[a].todo, answer |-> gw[a].answer]
    BY <1>3, <2>1 DEF ThreadTyped
  <2>3. gw' = [gw EXCEPT ![a] = r]
    BY <1>2, <2>1 DEF GwAt
  <2>4. r.at = "calling" /\ r.todo = gw[a].todo /\ ThreadTyped(r)
    BY <1>2, <1>3, <2>2 DEF ThreadTyped, GwPlaces
  <2> QED BY <2>3, <2>4
<1>5. PICK e : /\ exec' = [exec EXCEPT ![a][h] = e]
               /\ e.at = "gate" /\ ExecTyped(e)
  <2>1. exec[a][h] = [at |-> exec[a][h].at, answer |-> exec[a][h].answer]
    BY <1>3 DEF GatewayInv, GatewayTyped, ExecsTyped, ExecTyped
  <2>2. PICK r : r = [exec[a][h] EXCEPT !.at = "gate"]
    OBVIOUS
  <2>3. r = [at |-> "gate", answer |-> exec[a][h].answer]
    BY <2>1, <2>2
  <2>4. exec' = [exec EXCEPT ![a][h] = r]
    BY <1>2, <2>2
  <2>5. r.at = "gate" /\ ExecTyped(r)
    BY <2>3 DEF ExecTyped, ExecPlaces, Working
  <2> QED BY <2>4, <2>5
<1>6. /\ \A b \in Requests : gw'[b] = IF b = a THEN t ELSE gw[b]
      /\ \A b \in Requests, g \in Owners :
            exec'[b][g] = IF b = a /\ g = h THEN e ELSE exec[b][g]
  BY <1>4, <1>5 DEF GatewayInv, GatewayTyped, ThreadsTyped, ExecsTyped
<1>7. GatewayTyped'
  <2>1. ThreadsTyped'
    BY <1>4, <1>6 DEF GatewayInv, GatewayTyped, ThreadsTyped
  <2>2. ExecsTyped'
    <3>1. ExecsTyped
      BY DEF GatewayInv, GatewayTyped
    <3>2. exec' = [b \in Requests |-> exec'[b]]
      BY <1>5, <3>1 DEF ExecsTyped
    <3>3. \A b \in Requests : exec'[b] = [g \in Owners |-> exec'[b][g]]
      BY <1>5, <3>1 DEF ExecsTyped
    <3>4. \A b \in Requests, g \in Owners : ExecTyped(exec'[b][g])
      BY <1>5, <1>6, <3>1 DEF ExecsTyped
    <3> QED BY <3>2, <3>3, <3>4 DEF ExecsTyped
  <2>3. OwnersTyped'
    BY <1>2, <1>3 DEF GatewayInv, GatewayTyped, OwnersTyped, handled
  <2>4. ClientTyped'
    BY <1>2 DEF GatewayInv, GatewayTyped, ClientTyped, counts
  <2> QED BY <2>1, <2>2, <2>3, <2>4 DEF GatewayTyped
<1>8. InTurn'
  <2>1. InTurn /\ client' = client
    BY <1>2 DEF GatewayInv
  <2> SUFFICES ASSUME NEW c \in Requests
               PROVE  /\ gw'[c].at = "none" <=> client[c] = "unsent"
                      /\ gw'[c].at \in {"none", "gate"} =>
                            gw'[c].answer = Nothing /\ \A g \in Owners : exec'[c][g] = NoExec
    BY <2>1 DEF InTurn
  <2>2. CASE c = a
    <3>1. gw'[c].at = "calling"
      BY <1>4, <1>6, <2>2
    <3> QED BY <1>2, <2>1, <2>2, <3>1 DEF InTurn
  <2>3. CASE c # a
    BY <1>6, <2>1, <2>3 DEF InTurn
  <2> QED BY <2>2, <2>3
<1>9. LateInv'
  <2>1. a \notin late
    BY <1>2, NotLate
  <2>2. \A c \in late : c \in Requests
    BY DEF GatewayInv, GatewayTyped, ClientTyped
  <2> QED BY <1>2, <1>6, <2>1, <2>2 DEF GatewayInv, LateInv
<1>10. (\A g \in Owners \ shaken : OwnerSteady(g))'
  <2> SUFFICES ASSUME NEW g \in Owners, g \notin shaken' PROVE OwnerSteady(g)'
    OBVIOUS
  <2>1. g \notin shaken
    BY <1>2
  <2>2. OwnerSteady(g) /\ records' = records /\ ran' = ran
    BY <1>2, <2>1 DEF GatewayInv, handled
  <2>3. CASE g = h
    <3>1. \A b \in Requests : exec[b][h].at \notin Working
      BY <1>2, <2>3
    <3>2. \A b \in Requests : exec'[b][h].at \in Working => b = a
      BY <1>3, <1>6, <3>1
    <3>3. \A b \in Requests : exec'[b][h].at # "ready"
      BY <1>3, <1>5, <1>6, <3>1 DEF Working
    <3>4. \A b \in Requests : exec[b][h].at # "ran"
      BY <3>1 DEF Working
    <3> QED BY <2>2, <2>3, <3>2, <3>3, <3>4 DEF OwnerSteady
  <2>4. CASE g # h
    <3>1. \A b \in Requests : exec'[b][g] = exec[b][g]
      BY <1>6, <2>4
    <3> QED BY <2>2, <3>1 DEF OwnerSteady
  <2> QED BY <2>3, <2>4
<1>11. PaidFor'
  <2>1. OpenSet' \subseteq OpenSet \ {a} /\ a \in OpenSet
    <3>1. a \in OpenSet
      BY <1>2 DEF OpenSet, Open
    <3>2. a \notin OpenSet'
      <4>1. gw'[a].at = "calling" /\ gw'[a].todo = gw[a].todo /\ exec'[a][h].at = "gate"
        BY <1>3, <1>4, <1>5, <1>6
      <4> QED BY <1>1, <4>1 DEF OpenSet, Open
    <3>3. \A b \in Requests \ {a} : b \in OpenSet' => b \in OpenSet
      <4> SUFFICES ASSUME NEW b \in Requests \ {a}, Open(b)' PROVE Open(b)
        BY DEF OpenSet
      <4>1. gw'[b] = gw[b] /\ cache' = cache
        BY <1>2, <1>6
      <4>2. gw[b].at = "calling" => Head(gw[b].todo) \in Owners
        BY DEF GatewayInv, GatewayTyped, ThreadsTyped, ThreadTyped
      <4>3. gw[b].at = "calling" => exec'[b][Head(gw[b].todo)] = exec[b][Head(gw[b].todo)]
        BY <1>6, <4>2
      <4> QED BY <4>1, <4>3 DEF Open
    <3> QED BY <3>1, <3>2, <3>3 DEF OpenSet
  <2>2. ToRun' \subseteq ToRun \cup {<<a, h>>}
    <3> SUFFICES ASSUME NEW p \in Requests \X Owners,
                        exec'[p[1]][p[2]].at \in {"gate", "ready"}, p # <<a, h>>
                 PROVE  exec[p[1]][p[2]].at \in {"gate", "ready"}
      BY DEF ToRun
    <3> QED BY <1>6
  <2>3. /\ Cardinality(OpenSet) \in Nat /\ Cardinality(OpenSet') \in Nat
        /\ Cardinality(OpenSet') + 1 <= Cardinality(OpenSet)
    BY <2>1, GatewayFinite, CountDown
  <2>4. /\ Cardinality(ToRun) \in Nat /\ Cardinality(ToRun') \in Nat
        /\ Cardinality(ToRun') <= Cardinality(ToRun) + 1
    BY <2>2, GatewayFinite, CountUp
  <2>5. Fresh' = Fresh /\ Fresh \in {0, 1}
    BY <1>2 DEF Fresh, Waiting
  <2>6. runs \in Nat /\ paid \in Nat /\ runs' = runs /\ paid' = paid
    BY <1>2 DEF GatewayInv, GatewayTyped, OwnersTyped, ClientTyped, handled, counts
  <2>7. runs + Cardinality(ToRun) + Cardinality(OpenSet) + Fresh <= 1 + paid
    BY DEF GatewayInv, PaidFor
  <2>8. runs' + Cardinality(ToRun') + Cardinality(OpenSet') + Fresh' <= 1 + paid'
    BY <2>3, <2>4, <2>5, <2>6, <2>7
  <2> QED BY <2>8 DEF PaidFor
<1> QED BY <1>7, <1>8, <1>9, <1>10, <1>11 DEF GatewayInv

LEMMA RestartKeeps ==
    ASSUME GatewayInv, RestartGateway
    PROVE  GatewayInv'
<1>1. /\ UNCHANGED <<exec, cache, records, handled, shaken, late>> /\ Fault(1)
      /\ gw' = [a \in Requests |->
                   IF gw[a].at \in {"none", "done"} THEN gw[a]
                   ELSE [NoThread EXCEPT !.at = "gone"]]
      /\ client' = [a \in Requests |-> IF client[a] = "waiting" THEN "broken" ELSE client[a]]
  BY DEF RestartGateway
<1>2. PICK t : t = [at |-> "gone", todo |-> <<>>, answer |-> Nothing]
  OBVIOUS
<1>3. [NoThread EXCEPT !.at = "gone"] = t
  BY <1>2 DEF NoThread
<1>4. t.at = "gone" /\ t.answer = Nothing /\ ThreadTyped(t)
  BY <1>2 DEF ThreadTyped, GwPlaces
<1>5. \A a \in Requests : gw'[a] = IF gw[a].at \in {"none", "done"} THEN gw[a] ELSE t
  BY <1>1, <1>3
<1>6. \A a \in Requests : client'[a] = IF client[a] = "waiting" THEN "broken" ELSE client[a]
  BY <1>1
<1>7. GatewayTyped'
  <2>1. ThreadsTyped'
    BY <1>1, <1>4, <1>5 DEF GatewayInv, GatewayTyped, ThreadsTyped
  <2>2. ExecsTyped' /\ OwnersTyped'
    BY <1>1 DEF GatewayInv, GatewayTyped, ExecsTyped, OwnersTyped, handled
  <2>3. ClientTyped'
    <3>1. client' \in [Requests -> Statuses]
      BY <1>1 DEF GatewayInv, GatewayTyped, ClientTyped, Statuses
    <3> QED BY <1>1, <3>1, FaultCosts DEF GatewayInv, GatewayTyped, ClientTyped
  <2> QED BY <2>1, <2>2, <2>3 DEF GatewayTyped
<1>8. InTurn'
  <2>1. InTurn /\ exec' = exec
    BY <1>1 DEF GatewayInv
  <2> SUFFICES ASSUME NEW c \in Requests
               PROVE  /\ gw'[c].at = "none" <=> client'[c] = "unsent"
                      /\ client'[c] # "unsent" =>
                            \A b \in 1..c - 1 : client'[b] \in {"answered", "broken"}
                      /\ gw'[c].at \in {"none", "gate"} =>
                            gw'[c].answer = Nothing /\ \A h \in Owners : exec[c][h] = NoExec
    BY <2>1 DEF InTurn
  <2>2. \A b \in 1..c - 1 : b \in Requests
    BY GatewayConstants DEF Requests
  <2>3. gw'[c].at \in {"none", "gate"} => gw'[c] = gw[c]
    BY <1>4, <1>5
  <2>4. gw'[c].at = "none" <=> gw[c].at = "none"
    BY <1>4, <1>5
  <2>5. client'[c] = "unsent" <=> client[c] = "unsent"
    BY <1>6
  <2> QED BY <1>6, <2>1, <2>2, <2>3, <2>4, <2>5 DEF InTurn
<1>9. LateInv'
  <2>1. \A c \in late : c \in Requests
    BY DEF GatewayInv, GatewayTyped, ClientTyped
  <2> QED BY <1>1, <1>4, <1>5, <2>1 DEF GatewayInv, LateInv
<1>10. (\A h \in Owners \ shaken : OwnerSteady(h))'
  BY <1>1 DEF GatewayInv, OwnerSteady, handled
<1>11. PaidFor'
  <2>1. ToRun' = ToRun
    BY <1>1 DEF ToRun
  <2>2. OpenSet' = {}
    BY <1>4, <1>5 DEF OpenSet, Open
  <2>3. Cardinality(OpenSet') = 0
    BY <2>2, FS_EmptySet
  <2>4. Cardinality(OpenSet) \in Nat /\ Cardinality(ToRun) \in Nat
    BY GatewayFinite, FS_CardinalityType
  <2>5. Fresh' \in {0, 1} /\ Fresh \in {0, 1}
    BY DEF Fresh
  <2>6. runs \in Nat /\ paid \in Nat /\ runs' = runs /\ paid' = paid + 1
    BY <1>1 DEF GatewayInv, GatewayTyped, OwnersTyped, ClientTyped, handled, Fault
  <2>7. runs + Cardinality(ToRun) + Cardinality(OpenSet) + Fresh <= 1 + paid
    BY DEF GatewayInv, PaidFor
  <2>8. runs' + Cardinality(ToRun') + Cardinality(OpenSet') + Fresh' <= 1 + paid'
    BY <2>1, <2>3, <2>4, <2>5, <2>6, <2>7
  <2> QED BY <2>8 DEF PaidFor
<1> QED BY <1>7, <1>8, <1>9, <1>10, <1>11 DEF GatewayInv

LEMMA GatewayStep == GatewayInv /\ [GatewayNext]_gatewayVars => GatewayInv'
<1> SUFFICES ASSUME GatewayInv, [GatewayNext]_gatewayVars PROVE GatewayInv'
  OBVIOUS
<1>1. ASSUME NEW a \in Requests, Send(a) \/ GatewayThread(a) PROVE GatewayInv'
  BY <1>1, SendKeeps, LookUpKeeps, CallKeeps, FindDeadKeeps, TakeKeeps, RecordAnswerKeeps,
     UnplacedKeeps, ReplyKeeps DEF GatewayThread
<1>2. ASSUME NEW a \in Requests, NEW h \in Owners, OwnerThread(a, h) PROVE GatewayInv'
  BY <1>2, OwnerGateKeeps, RunHandlerKeeps, OwnerReplyKeeps DEF OwnerThread
<1>3. CASE GatewayFaults
  BY <1>3, RestartKeeps, LoseClientKeeps, RefusedKeeps, BreakCallKeeps, ShedKeeps, OwnerDiesKeeps
     DEF GatewayFaults
<1>4. CASE UNCHANGED gatewayVars
  <2>1. UNCHANGED <<client, gw, exec, cache, records, ran, runs, faults, paid, shaken, late>>
    BY <1>4 DEF gatewayVars
  <2>2. GatewayTyped'
    BY <2>1 DEF GatewayInv, GatewayTyped, ThreadsTyped, ExecsTyped, OwnersTyped, ClientTyped
  <2>3. InTurn' /\ LateInv' /\ (\A h \in Owners \ shaken : OwnerSteady(h))'
    BY <2>1 DEF GatewayInv, InTurn, LateInv, OwnerSteady
  <2>4. PaidFor'
    BY <2>1 DEF GatewayInv, PaidFor, ToRun, OpenSet, Open, Fresh, Waiting
  <2> QED BY <2>2, <2>3, <2>4 DEF GatewayInv
<1> QED BY <1>1, <1>2, <1>3, <1>4 DEF GatewayNext

\* What the gateway promises follows from the state.
LEMMA GatewayInvSafe == GatewayInv => GatewaySafe
<1> SUFFICES ASSUME GatewayInv PROVE GatewaySafe
  OBVIOUS
<1>1. GatewayTypeOK
  BY DEF GatewayInv, GatewayTyped, ThreadsTyped, ThreadTyped, ExecsTyped, ExecTyped, OwnersTyped,
     ClientTyped, GatewayTypeOK, GwPlaces, ExecPlaces, Statuses
<1>2. RunsPaid
  <2>1. Cardinality(OpenSet) \in Nat /\ Cardinality(ToRun) \in Nat
    BY GatewayFinite, FS_CardinalityType
  <2>2. Fresh \in {0, 1}
    BY DEF Fresh
  <2>3. runs \in Nat /\ paid \in Nat
    BY DEF GatewayInv, GatewayTyped, OwnersTyped, ClientTyped
  <2>4. runs + Cardinality(ToRun) + Cardinality(OpenSet) + Fresh <= 1 + paid
    BY DEF GatewayInv, PaidFor
  <2>5. runs <= 1 + paid
    BY <2>1, <2>2, <2>3, <2>4
  <2> QED BY <2>5 DEF RunsPaid
<1>3. OwnerReplays
  <2> SUFFICES ASSUME NEW h \in Owners, h \notin shaken PROVE ~(ran[h] > 1)
    BY DEF OwnerReplays
  <2>1. ran[h] <= 1 /\ ran[h] \in Nat
    BY DEF GatewayInv, OwnerSteady, GatewayTyped, OwnersTyped
  <2> QED BY <2>1
<1>4. LateRequestsReplay
  BY DEF GatewayInv, LateInv, LateRequestsReplay
<1> QED BY <1>1, <1>2, <1>3, <1>4 DEF GatewaySafe

\* However many requests, owners and faults: an identifier is executed once, and
\* once more for each broken exchange, death or restart at most; an owner that
\* neither overlapped nor died replays; and what comes after the gateway has a
\* result gets that result (router.py ainvoke, http.py ainvoke, host.py gate 0).
THEOREM GatewayStaysSafe == GatewaySpec => []GatewaySafe
<1>1. GatewaySpec => []GatewayInv
  BY GatewayStarts, GatewayStep, PTL DEF GatewaySpec
<1> QED BY <1>1, GatewayInvSafe, PTL

-----------------------------------------------------------------------------
(***************************************************************************)
(* Steps of the stream                                                     *)
(***************************************************************************)
LEMMA BoundStep ==
    ASSUME NEW n \in Nat
    PROVE  /\ Bound(n) \in Int /\ Bound(n) >= -1
           /\ Bound(n + 1) \in Int /\ Bound(n + 1) = Bound(n) + MaxDeltas
<1>1. MaxDeltas \in Nat
  BY StreamsConstants
<1>2. n * MaxDeltas \in Nat
  BY <1>1
<1>3. (n + 1) * MaxDeltas = n * MaxDeltas + MaxDeltas
  BY <1>1
<1> QED BY <1>1, <1>2, <1>3 DEF Bound

LEMMA DeltasGrow ==
    ASSUME NEW n \in Nat
    PROVE  Append(Deltas(1, n), <<1, n>>) = Deltas(1, n + 1)
<1>1. Deltas(1, n) \in Seq(Nat \X Nat) /\ Len(Deltas(1, n)) = n
  BY DEF Deltas
<1>2. Append(Deltas(1, n), <<1, n>>) \in Seq(Nat \X Nat)
      /\ Len(Append(Deltas(1, n), <<1, n>>)) = n + 1
  BY <1>1
<1>3. Deltas(1, n + 1) \in Seq(Nat \X Nat) /\ Len(Deltas(1, n + 1)) = n + 1
  BY DEF Deltas
<1>4. ASSUME NEW i \in 1..n + 1
      PROVE  Append(Deltas(1, n), <<1, n>>)[i] = Deltas(1, n + 1)[i]
  <2>1. CASE i = n + 1
    BY <1>1, <2>1 DEF Deltas
  <2>2. CASE i # n + 1
    <3>1. i \in 1..n
      BY <2>2
    <3>2. Append(Deltas(1, n), <<1, n>>)[i] = Deltas(1, n)[i]
      BY <1>1, <3>1
    <3> QED BY <3>1, <3>2 DEF Deltas
  <2> QED BY <2>1, <2>2
<1> QED BY <1>2, <1>3, <1>4, SeqEqual

LEMMA TriesFinite ==
    /\ IsFiniteSet(Tries) /\ Cardinality(Tries) = MaxReconnects + 1
    /\ IsFiniteSet(Beyond) /\ Cardinality(Beyond) \in Nat
    /\ Cardinality(Beyond) <= MaxReconnects + 1
<1>1. IsFiniteSet(Tries) /\ Cardinality(Tries) = MaxReconnects + 1
  BY StreamsConstants, FS_Interval DEF Tries
<1>2. Beyond \subseteq Tries
  BY DEF Beyond
<1> QED BY <1>1, <1>2, CountSame, FS_Subset

LEMMA BeyondKept ==
    ASSUME Beyond \subseteq Beyond'
    PROVE  Cardinality(Beyond) <= Cardinality(Beyond') /\ Cardinality(Beyond') \in Nat
<1>1. Beyond' \subseteq Tries /\ IsFiniteSet(Tries)
  BY TriesFinite DEF Beyond
<1>2. IsFiniteSet(Beyond')
  BY <1>1, FS_Subset
<1> QED BY <1>2, CountSame, FS_CardinalityType

LEMMA StreamStarts == StreamInit => StreamInv
<1> SUFFICES ASSUME StreamInit PROVE StreamInv
  OBVIOUS
<1>1. MaxReconnects \in Nat /\ 0 \in Tries /\ \A a \in Tries : a \in Nat
  BY StreamsConstants DEF Tries
<1>2. StreamTyped
  <2>1. reader \in Readers
    BY <1>1 DEF StreamInit, Readers, NoRow
  <2>2. wire \in [up : BOOLEAN, frames : Seq(Frames)]
    BY DEF StreamInit
  <2>3. ServingsTyped
    BY DEF StreamInit, ServingsTyped, ServingTyped, Silent
  <2>4. begun \in Seq(0..MaxDeltas)
    BY DEF StreamInit
  <2> QED BY <2>1, <2>2, <2>3, <2>4 DEF StreamInit, StreamTyped
<1>3. CurrentInv
  BY DEF StreamInit, CurrentInv
<1>4. NumbersInv
  <2>1. Bound(0) >= -1 /\ Bound(1) >= -1
    <3>1. 0 + 1 = 1
      OBVIOUS
    <3> QED BY <3>1, BoundStep, StreamsConstants
  <2>2. Len(begun) = 0
    BY DEF StreamInit
  <2> QED BY <1>1, <2>1, <2>2, TriesFinite DEF StreamInit, NumbersInv, Silent
<1>5. RecordInv
  BY <1>1 DEF StreamInit, RecordInv, Silent
<1>6. OnceInv
  <2>1. Deltas(1, 0) = <<>>
    BY DEF Deltas
  <2> QED BY <2>1 DEF StreamInit, OnceInv, Yielded, Silent
<1> QED BY <1>2, <1>3, <1>4, <1>5, <1>6 DEF StreamInv

-----------------------------------------------------------------------------
\* The client's steps.
LEMMA InvokeStreamKeeps ==
    ASSUME StreamInv, InvokeStream
    PROVE  StreamInv'
<1>1. /\ reader.at = "idle" /\ UNCHANGED <<wire, serving, recorded, begun>>
      /\ reader' = [reader EXCEPT !.at = "calling"]
  BY DEF InvokeStream
<1>2. reader \in Readers
  BY DEF StreamInv, StreamTyped
<1>3. /\ reader' \in Readers /\ reader'.at = "calling" /\ reader'.attempt = reader.attempt
      /\ reader'.last_id = reader.last_id /\ reader'.got = reader.got
  BY <1>1, <1>2 DEF Readers
<1>4. StreamTyped'
  BY <1>1, <1>3 DEF StreamInv, StreamTyped, ServingsTyped, ServingTyped
<1>5. CurrentInv'
  BY <1>1, <1>3 DEF StreamInv, CurrentInv
<1>6. NumbersInv'
  BY <1>1, <1>3 DEF StreamInv, NumbersInv, Beyond
<1>7. RecordInv'
  BY <1>1, <1>3 DEF StreamInv, RecordInv, RowOf
<1>8. Len(begun') <= 1 => OnceInv'
  <2>1. wire.frames = <<>>
    BY <1>1 DEF StreamInv, CurrentInv
  <2> QED BY <1>1, <1>3, <2>1 DEF StreamInv, OnceInv, Yielded
<1> QED BY <1>4, <1>5, <1>6, <1>7, <1>8 DEF StreamInv

LEMMA RequestKeeps ==
    ASSUME StreamInv, Request
    PROVE  StreamInv'
<1> DEFINE t == [at |-> "gate", resume |-> reader.last_id]
<1>1. /\ reader.at = "calling" /\ UNCHANGED <<recorded, begun>>
      /\ ServingAt(reader.attempt, t)
      /\ wire' = [up |-> TRUE, frames |-> <<>>]
      /\ reader' = [reader EXCEPT !.at = "reading"]
  BY DEF Request
<1>2. /\ reader \in Readers /\ ServingsTyped /\ reader.attempt \in Tries
      /\ reader.last_id \in Int /\ reader.last_id >= -1
  BY DEF StreamInv, StreamTyped, Readers
<1>3. /\ reader' \in Readers /\ reader'.at = "reading" /\ reader'.attempt = reader.attempt
      /\ reader'.last_id = reader.last_id /\ reader'.got = reader.got
  BY <1>1, <1>2 DEF Readers
<1>4. /\ serving' = [b \in Tries |-> serving'[b]]
      /\ \A b \in Tries : serving'[b] = IF b = reader.attempt THEN t ELSE serving[b]
  BY <1>1, <1>2 DEF ServingsTyped, ServingAt
<1>5. t.at = "gate" /\ t.resume = reader.last_id /\ ServingTyped(t)
  BY <1>2 DEF ServingTyped
<1>6. wire'.up = TRUE /\ wire'.frames = <<>> /\ wire' \in [up : BOOLEAN, frames : Seq(Frames)]
  BY <1>1
<1>7. serving[reader.attempt] = Silent
  BY <1>1, <1>2 DEF StreamInv, CurrentInv
<1> HIDE DEF t
<1>8. StreamTyped'
  <2>1. ServingsTyped'
    BY <1>1, <1>2, <1>4, <1>5 DEF ServingsTyped, ServingTyped
  <2> QED BY <1>1, <1>3, <1>6, <2>1 DEF StreamInv, StreamTyped
<1>9. CurrentInv'
  BY <1>1, <1>2, <1>3, <1>4, <1>5, <1>6 DEF StreamInv, CurrentInv, Tries
<1>10. NumbersInv'
  <2>1. Beyond' = Beyond
    BY <1>2, <1>4, <1>5, <1>7 DEF Beyond, Silent
  <2> QED BY <1>1, <1>2, <1>3, <1>4, <1>5, <1>6, <2>1 DEF StreamInv, NumbersInv
<1>11. RecordInv'
  BY <1>1, <1>2, <1>3, <1>4, <1>5, <1>7 DEF StreamInv, RecordInv, RowOf, Silent
<1>12. Len(begun') <= 1 => OnceInv'
  <2> SUFFICES ASSUME Len(begun) <= 1 PROVE OnceInv'
    BY <1>1
  <2>1. OnceInv
    BY DEF StreamInv
  <2>2. Yielded' = Yielded
    BY <1>1 DEF Yielded
  <2>3. begun = <<>> => reader.last_id = -1
    BY <1>2, <2>1 DEF OnceInv, Yielded
  <2>4. InFlight(serving[reader.attempt], Len(wire.frames))'
    BY <1>2, <1>3, <1>4, <1>5 DEF InFlight
  <2> QED BY <1>1, <1>2, <1>3, <1>4, <1>5, <1>6, <2>1, <2>2, <2>3, <2>4 DEF OnceInv
<1> QED BY <1>8, <1>9, <1>10, <1>11, <1>12 DEF StreamInv

\* A retry: the next attempt, or none.
LEMMA RetryFacts ==
    ASSUME StreamInv, reader' = Retry(reader)
    PROVE  /\ reader' \in Readers
           /\ reader'.last_id = reader.last_id /\ reader'.got = reader.got
           /\ \/ reader'.at = "raised" /\ reader'.attempt = reader.attempt
              \/ reader'.at = "calling" /\ reader'.attempt = reader.attempt + 1
<1>1. reader \in Readers
  BY DEF StreamInv, StreamTyped
<1>2. CASE reader.attempt = MaxReconnects
  <2>1. reader' = [reader EXCEPT !.at = "raised"]
    BY <1>2 DEF Retry
  <2> QED BY <1>1, <2>1 DEF Readers
<1>3. CASE reader.attempt # MaxReconnects
  <2>1. PICK n : n = reader.attempt + 1
    OBVIOUS
  <2>2. n \in Tries
    BY <1>1, <1>3, <2>1, StreamsConstants DEF Readers, Tries
  <2>3. PICK r : r = [reader EXCEPT !.at = "calling", !.attempt = n]
    OBVIOUS
  <2>4. reader' = r
    BY <1>1, <1>3, <2>1, <2>3 DEF Retry, Readers
  <2>5. /\ r \in Readers /\ r.at = "calling" /\ r.attempt = n
        /\ r.last_id = reader.last_id /\ r.got = reader.got
    BY <1>1, <2>2, <2>3 DEF Readers
  <2> QED BY <2>1, <2>4, <2>5
<1> QED BY <1>2, <1>3

\* A connection that breaks, or a server that falls: no frame is left, and the
\* threads go on or are dead.
LEMMA Breaks ==
    ASSUME StreamInv,
           \/ reader.at \in {"calling", "reading"} /\ reader' = Retry(reader)
           \/ reader.at # "reading" /\ reader' = reader,
           wire' = [up |-> FALSE, frames |-> <<>>], UNCHANGED <<recorded, begun>>,
           serving' = [a \in Tries |-> serving'[a]],
           \A a \in Tries : \/ serving'[a] = serving[a]
                            \/ serving[a].at \in Live /\ serving'[a] = [at |-> "dead"]
    PROVE  StreamInv'
<1>1. /\ reader \in Readers /\ reader' \in Readers
      /\ reader'.last_id = reader.last_id /\ reader'.got = reader.got
      /\ reader'.at # "reading"
      /\ \/ reader'.at = "raised" /\ reader'.attempt = reader.attempt
         \/ reader'.at = "calling" /\ reader'.attempt = reader.attempt + 1
         \/ reader' = reader
  BY RetryFacts DEF StreamInv, StreamTyped
<1>2. /\ \A a \in Tries : a \in Nat
      /\ reader.attempt \in Tries /\ reader'.attempt \in Tries
      /\ reader.last_id \in Int
  BY <1>1, StreamsConstants DEF Readers, Tries
<1>3. wire'.up = FALSE /\ wire'.frames = <<>> /\ wire' \in [up : BOOLEAN, frames : Seq(Frames)]
  OBVIOUS
<1>4. \A a \in Tries : serving'[a] = serving[a] \/ serving'[a].at = "dead"
  OBVIOUS
<1>5. \A a \in Tries : serving[a] = Silent => serving'[a] = Silent
  BY DEF Silent, Live
<1>6. StreamTyped'
  <2>1. ServingsTyped'
    <3>1. \A a \in Tries : ServingTyped(serving'[a])
      <4> SUFFICES ASSUME NEW a \in Tries PROVE ServingTyped(serving'[a])
        OBVIOUS
      <4>1. ServingTyped(serving[a])
        BY DEF StreamInv, StreamTyped, ServingsTyped
      <4>2. serving'[a] = serving[a] \/ serving'[a] = [at |-> "dead"]
        OBVIOUS
      <4> QED BY <4>1, <4>2 DEF ServingTyped
    <3> QED BY <3>1 DEF ServingsTyped, ServingTyped
  <2> QED BY <1>1, <1>3, <2>1 DEF StreamInv, StreamTyped
<1>7. CurrentInv'
  <2>1. \A a \in Tries :
           a > reader'.attempt \/ (a = reader'.attempt /\ reader'.at \in {"idle", "calling"})
               => serving[a] = Silent
    <3>1. CurrentInv
      BY DEF StreamInv
    <3>2. CASE reader'.at = "raised" /\ reader'.attempt = reader.attempt
      BY <3>1, <3>2 DEF CurrentInv
    <3>3. CASE reader'.at = "calling" /\ reader'.attempt = reader.attempt + 1
      <4>1. \A a \in Tries : a > reader'.attempt \/ a = reader'.attempt => a > reader.attempt
        BY <1>2, <3>3
      <4> QED BY <3>1, <4>1 DEF CurrentInv
    <3>4. CASE reader' = reader
      BY <3>1, <3>4 DEF CurrentInv
    <3> QED BY <1>1, <3>2, <3>3, <3>4
  <2> QED BY <1>1, <1>3, <1>5, <2>1 DEF CurrentInv
<1>8. NumbersInv'
  <2>1. Beyond \subseteq Beyond'
    <3> SUFFICES ASSUME NEW a \in Tries, serving[a].at \notin {"none", "gate"}
                 PROVE  serving'[a].at \notin {"none", "gate"}
      BY DEF Beyond
    <3> QED BY <1>4
  <2>2. /\ Bound(reader.attempt + 1) \in Int /\ Bound(reader.attempt + 1 + 1) \in Int
        /\ Bound(reader.attempt + 1 + 1) = Bound(reader.attempt + 1) + MaxDeltas
    <3>1. reader.attempt + 1 \in Nat
      BY <1>2
    <3> QED BY <3>1, BoundStep
  <2>3. Len(begun) \in Nat /\ Len(begun) <= Cardinality(Beyond)
    BY DEF StreamInv, StreamTyped, NumbersInv
  <2>4. Len(begun') <= Cardinality(Beyond')
    BY <2>1, <2>3, BeyondKept, TriesFinite
  <2>5. reader'.last_id <= Bound(reader'.attempt + 1)
    <3>1. reader.last_id <= Bound(reader.attempt + 1)
      BY DEF StreamInv, NumbersInv
    <3>2. MaxDeltas \in Nat
      BY StreamsConstants
    <3>3. reader'.attempt + 1 \in {reader.attempt + 1, reader.attempt + 1 + 1}
      BY <1>1
    <3> QED BY <1>1, <1>2, <2>2, <3>1, <3>2, <3>3
  <2>6. reader'.at \in {"idle", "calling"} => reader'.last_id <= Bound(reader'.attempt)
    <3>1. NumbersInv
      BY DEF StreamInv
    <3> QED BY <1>1, <3>1 DEF NumbersInv
  <2>7. \A a \in Tries : serving'[a].at \in {"gate", "running"} =>
            serving'[a].resume >= -1 /\ serving'[a].resume <= Bound(a)
    BY <1>4 DEF StreamInv, NumbersInv
  <2> QED BY <1>3, <2>4, <2>5, <2>6, <2>7 DEF NumbersInv
<1>9. RecordInv'
  <2>1. RecordInv
    BY DEF StreamInv
  <2>2. \A a \in Tries : serving'[a].at # "dead" => serving'[a] = serving[a]
    BY <1>4
  <2>3. reader'.attempt = 0 => reader.attempt = 0
    BY <1>1, <1>2
  <2>4. 0 \in Tries
    BY StreamsConstants DEF Tries
  <2>5. \A a, b \in Tries :
           a # b /\ serving'[a].at = "running" /\ serving'[b].at = "running" =>
               serving'[a].run # serving'[b].run
    BY <2>1, <2>2 DEF RecordInv
  <2>6. recorded # NoRow =>
           /\ recorded.run \in DOMAIN begun
           /\ recorded = RowOf(recorded.run, recorded.outcome)
           /\ \A a \in Tries : serving'[a].at = "running" => serving'[a].run # recorded.run
    BY <2>1, <2>2 DEF RecordInv
  <2>7. \A a \in Tries : serving'[a].at \in {"replaying", "ending", "ended"} => recorded # NoRow
    BY <2>1, <2>2 DEF RecordInv
  <2>8. reader'.attempt = 0 =>
           /\ serving'[0].at \in {"none", "gate"} => begun = <<>>
           /\ serving'[0].at # "replaying"
    BY <2>1, <2>2, <2>3, <2>4 DEF RecordInv
  <2> QED BY <2>5, <2>6, <2>7, <2>8 DEF RecordInv, RowOf
<1>10. Len(begun') <= 1 => OnceInv'
  <2> SUFFICES ASSUME Len(begun) <= 1 PROVE OnceInv'
    OBVIOUS
  <2>1. OnceInv
    BY DEF StreamInv
  <2>2. Yielded' = Yielded
    BY DEF Yielded
  <2>3. reader'.at = "returned" => reader' = reader
    BY <1>1
  <2>4. \A a \in Tries : serving'[a].at = "running"
            \/ (serving'[a].at = "gate" /\ begun = <<>>) => serving'[a].resume = -1
    BY <1>4, <2>1 DEF OnceInv
  <2>5. reader'.at = "returned" =>
            recorded # NoRow /\ (Whole(reader.result.outcome) => Yielded = reader.last_id + 1)
    BY <2>1, <2>3 DEF OnceInv
  <2>6. reader'.at = "returned" /\ Whole(reader.result.outcome)' => Whole(reader.result.outcome)
    BY <2>2, <2>3 DEF Whole
  <2>7. DOMAIN wire'.frames = {}
    BY <1>3
  <2> QED BY <1>1, <2>1, <2>2, <2>3, <2>4, <2>5, <2>6, <2>7 DEF OnceInv
<1> QED BY <1>6, <1>7, <1>8, <1>9, <1>10 DEF StreamInv

LEMMA DisconnectKeeps ==
    ASSUME StreamInv, Disconnect
    PROVE  StreamInv'
<1>1. serving' = serving /\ serving = [a \in Tries |-> serving[a]]
  BY DEF Disconnect, StreamInv, StreamTyped, ServingsTyped
<1>2. serving' = [a \in Tries |-> serving'[a]]
  BY <1>1
<1> QED BY <1>1, <1>2, Breaks DEF Disconnect

LEMMA ServerFallsKeeps ==
    ASSUME StreamInv, ServerFalls
    PROVE  StreamInv'
<1>1. serving' = [a \in Tries |-> IF serving[a].at \in Live THEN [at |-> "dead"] ELSE serving[a]]
  BY DEF ServerFalls
<1>2. serving' = [a \in Tries |-> serving'[a]]
  BY <1>1
<1>3. \A a \in Tries : \/ serving'[a] = serving[a]
                       \/ serving[a].at \in Live /\ serving'[a] = [at |-> "dead"]
  BY <1>1
<1>4. \/ reader.at \in {"calling", "reading"} /\ reader' = Retry(reader)
      \/ reader.at # "reading" /\ reader' = reader
  BY DEF ServerFalls
<1> QED BY <1>2, <1>3, <1>4, Breaks DEF ServerFalls

LEMMA YieldedType == StreamInv => Yielded \in 0..MaxDeltas
<1> SUFFICES ASSUME StreamInv PROVE Yielded \in 0..MaxDeltas
  OBVIOUS
<1>1. begun \in Seq(0..MaxDeltas) /\ MaxDeltas \in Nat
  BY StreamsConstants DEF StreamInv, StreamTyped
<1>2. begun # <<>> => begun[1] \in 0..MaxDeltas
  BY <1>1
<1> QED BY <1>1, <1>2 DEF Yielded

\* The client takes a frame off the connection.
LEMMA FramesTail ==
    ASSUME StreamInv, wire.frames # <<>>, wire' = [wire EXCEPT !.frames = Tail(@)]
    PROVE  /\ wire' \in [up : BOOLEAN, frames : Seq(Frames)]
           /\ wire'.up = wire.up /\ Head(wire.frames) = wire.frames[1]
           /\ Len(wire.frames) \in Nat \ {0} /\ DOMAIN wire.frames = 1..Len(wire.frames)
           /\ Len(wire'.frames) = Len(wire.frames) - 1
           /\ DOMAIN wire'.frames = 1..Len(wire.frames) - 1
           /\ \A n \in DOMAIN wire'.frames :
                 n + 1 \in DOMAIN wire.frames /\ wire'.frames[n] = wire.frames[n + 1]
           /\ Head(wire.frames) \in Frames
<1>1. wire \in [up : BOOLEAN, frames : Seq(Frames)]
  BY DEF StreamInv, StreamTyped
<1>2. wire'.frames = Tail(wire.frames) /\ wire'.up = wire.up
  BY <1>1
<1>3. /\ Tail(wire.frames) \in Seq(Frames) /\ Head(wire.frames) \in Frames
      /\ Len(Tail(wire.frames)) = Len(wire.frames) - 1
      /\ \A n \in 1..Len(Tail(wire.frames)) : Tail(wire.frames)[n] = wire.frames[n + 1]
      /\ Head(wire.frames) = wire.frames[1]
      /\ Len(wire.frames) \in Nat \ {0} /\ DOMAIN wire.frames = 1..Len(wire.frames)
  <2>1. wire.frames \in Seq(Frames)
    BY <1>1
  <2> QED BY <2>1, HeadTailProperties
<1>4. wire' \in [up : BOOLEAN, frames : Seq(Frames)]
  BY <1>1, <1>3
<1>5. DOMAIN wire'.frames = 1..Len(wire'.frames)
  BY <1>2, <1>3
<1> QED BY <1>2, <1>3, <1>4, <1>5

LEMMA ReadChunkKeeps ==
    ASSUME StreamInv, ReadChunk
    PROVE  StreamInv'
<1>1. PICK f : f = Head(wire.frames)
  OBVIOUS
<1>2. /\ reader.at = "reading" /\ wire.frames # <<>> /\ f.event = "chunk"
      /\ reader' = IF f.id <= reader.last_id THEN reader
                   ELSE [reader EXCEPT !.last_id = f.id, !.got = Append(@, <<f.run, f.index>>)]
      /\ wire' = [wire EXCEPT !.frames = Tail(@)]
      /\ UNCHANGED <<serving, recorded, begun>>
  BY <1>1 DEF ReadChunk
<1>3. /\ wire' \in [up : BOOLEAN, frames : Seq(Frames)]
      /\ wire'.up = wire.up /\ f = wire.frames[1]
      /\ Len(wire.frames) \in Nat \ {0} /\ DOMAIN wire.frames = 1..Len(wire.frames)
      /\ Len(wire'.frames) = Len(wire.frames) - 1
      /\ DOMAIN wire'.frames = 1..Len(wire.frames) - 1
      /\ \A n \in DOMAIN wire'.frames :
            n + 1 \in DOMAIN wire.frames /\ wire'.frames[n] = wire.frames[n + 1]
      /\ f \in Frames
  BY <1>1, <1>2, FramesTail
<1>4. f.id \in Nat /\ f.run \in Nat /\ f.index \in Nat
  BY <1>2, <1>3 DEF Frames
<1>5. reader \in Readers
  BY DEF StreamInv, StreamTyped
<1>6. /\ reader' \in Readers /\ reader'.at = "reading" /\ reader'.attempt = reader.attempt
      /\ reader'.last_id = IF f.id <= reader.last_id THEN reader.last_id ELSE f.id
      /\ reader'.got = IF f.id <= reader.last_id THEN reader.got
                       ELSE Append(reader.got, <<f.run, f.index>>)
  <2>1. CASE f.id <= reader.last_id
    BY <1>2, <1>5, <2>1
  <2>2. CASE ~(f.id <= reader.last_id)
    <3>1. PICK g : g = Append(reader.got, <<f.run, f.index>>)
      OBVIOUS
    <3>2. g \in Seq(Nat \X Nat)
      BY <1>4, <1>5, <3>1 DEF Readers
    <3>3. PICK r : r = [reader EXCEPT !.last_id = f.id, !.got = g]
      OBVIOUS
    <3>4. reader' = r
      BY <1>2, <1>5, <2>2, <3>1, <3>3 DEF Readers
    <3>5. /\ r \in Readers /\ r.at = reader.at /\ r.attempt = reader.attempt
          /\ r.last_id = f.id /\ r.got = g
      BY <1>4, <1>5, <3>2, <3>3 DEF Readers
    <3> QED BY <1>2, <2>2, <3>1, <3>4, <3>5
  <2> QED BY <2>1, <2>2
<1>7. StreamTyped'
  BY <1>2, <1>3, <1>6 DEF StreamInv, StreamTyped, ServingsTyped, ServingTyped
<1>8. CurrentInv'
  <2>1. serving[reader.attempt].at # "gate"
    BY <1>2 DEF StreamInv, CurrentInv
  <2> QED BY <1>2, <1>3, <1>6, <2>1 DEF StreamInv, CurrentInv
<1>9. NumbersInv'
  <2>1. NumbersInv
    BY DEF StreamInv
  <2>2. f.id <= Bound(reader.attempt + 1)
    BY <1>2, <1>3, <2>1 DEF NumbersInv
  <2>3. reader'.last_id <= Bound(reader'.attempt + 1)
    BY <1>6, <2>1, <2>2 DEF NumbersInv
  <2>4. \A n \in DOMAIN wire'.frames :
           wire'.frames[n].event = "chunk" => wire'.frames[n].id <= Bound(reader'.attempt + 1)
    BY <1>3, <1>6, <2>1 DEF NumbersInv
  <2> QED BY <1>2, <1>6, <2>1, <2>3, <2>4 DEF NumbersInv, Beyond
<1>10. RecordInv'
  BY <1>2, <1>6 DEF StreamInv, RecordInv, RowOf
<1>11. Len(begun') <= 1 => OnceInv'
  <2> SUFFICES ASSUME Len(begun) <= 1 PROVE OnceInv'
    BY <1>2
  <2>1. OnceInv /\ CurrentInv
    BY DEF StreamInv
  <2>2. Yielded' = Yielded
    BY <1>2 DEF Yielded
  <2>3. PICK k : k = reader.last_id + 1
    OBVIOUS
  <2>4. k \in Nat /\ reader.last_id = k - 1
    BY <1>5, <2>3 DEF Readers
  <2>5. f = Chunk(k, 1, k)
    <3>1. \/ f = Chunk(reader.last_id + 1, 1, reader.last_id + 1)
          \/ f.event = "result"
      BY <1>3, <2>1 DEF OnceInv
    <3> QED BY <1>2, <2>3, <3>1
  <2>6. f.id = k /\ f.run = 1 /\ f.index = k
    BY <2>5 DEF Chunk
  <2>7. reader'.last_id = k /\ reader'.got = Append(reader.got, <<1, k>>)
    BY <1>6, <2>4, <2>6
  <2>8. reader'.got = Deltas(1, reader'.last_id + 1)
    <3>1. reader.got = Deltas(1, k)
      BY <2>1, <2>3 DEF OnceInv
    <3> QED BY <2>4, <2>7, <3>1, DeltasGrow
  <2>9. PICK t : t = serving[reader.attempt]
    OBVIOUS
  <2>10. InFlight(t, Len(wire.frames))
    BY <1>2, <2>1, <2>9 DEF OnceInv
  <2>11. PICK l : l = Len(wire.frames)
    OBVIOUS
  <2>12. l \in Nat \ {0} /\ Len(wire'.frames) = l - 1 /\ DOMAIN wire'.frames = 1..l - 1
    BY <1>3, <2>11
  <2>13. t.at = "ended" => l # 1
    <3> SUFFICES ASSUME t.at = "ended", l = 1 PROVE FALSE
      OBVIOUS
    <3>1. wire.frames[1].event = "result"
      BY <2>10, <2>11 DEF InFlight
    <3> QED BY <1>2, <1>3, <3>1
  <2>14. Yielded \in Int
    BY YieldedType, StreamsConstants
  <2>15. /\ t.at \in {"running", "ending"} => Yielded = k + l
         /\ t.at = "replaying" => t.next = k + l /\ t.next <= Yielded
         /\ t.at = "ended" =>
               /\ wire.frames[l].event = "result"
               /\ k - 1 + l <= Yielded
               /\ Whole(wire.frames[l].outcome) => Yielded = k - 1 + l
    BY <2>3, <2>4, <2>10, <2>11 DEF InFlight
  <2>16. l \in Nat /\ l # 0
    BY <1>3, <2>11
  <2>17. t.at \in {"running", "replaying", "ending", "ended"}
    BY <1>2, <2>1, <2>9 DEF CurrentInv
  <2>18. reader'.last_id + 1 <= Yielded'
    BY <2>2, <2>4, <2>7, <2>13, <2>14, <2>15, <2>16, <2>17
  <2>19. l # 1 => wire'.frames[l - 1] = wire.frames[l]
    <3>1. l # 1 => l - 1 \in 1..l - 1 /\ l - 1 + 1 = l
      BY <2>16
    <3>2. l # 1 => wire'.frames[l - 1] = wire.frames[l - 1 + 1]
      BY <1>3, <2>12, <3>1
    <3> QED BY <3>1, <3>2
  <2>20. \A o : Whole(o)' = Whole(o)
    BY <1>6, <2>2 DEF Whole
  <2>21. InFlight(serving[reader.attempt], Len(wire.frames))'
    <3>1. (t.at \in {"running", "ending"} => Yielded' = reader'.last_id + 1 + (l - 1))
          /\ (t.at = "replaying" => t.next = reader'.last_id + 1 + (l - 1) /\ t.next <= Yielded')
      BY <2>2, <2>4, <2>7, <2>14, <2>15, <2>16
    <3>2. PICK o : o = wire.frames[l].outcome
      OBVIOUS
    <3>3. t.at = "ended" =>
              /\ l - 1 # 0
              /\ wire'.frames[l - 1].event = "result"
              /\ reader'.last_id + (l - 1) <= Yielded'
              /\ Whole(o)' => Yielded' = reader'.last_id + (l - 1)
      BY <2>2, <2>4, <2>7, <2>13, <2>14, <2>15, <2>16, <2>19, <2>20, <3>2
    <3>4. serving'[reader'.attempt] = t /\ Len(wire'.frames) = l - 1
      BY <1>2, <1>3, <1>6, <2>9, <2>11
    <3>5. t.at = "ended" => wire'.frames[l - 1].outcome = o
      BY <2>13, <2>19, <3>2
    <3> QED BY <3>1, <3>3, <3>4, <3>5 DEF InFlight, Whole
  <2>22. \A n \in DOMAIN wire'.frames :
             \/ wire'.frames[n] = Chunk(reader'.last_id + n, 1, reader'.last_id + n)
             \/ /\ wire'.frames[n].event = "result"
                /\ n = Len(wire'.frames)
                /\ t.at = "ended"
    <3> SUFFICES ASSUME NEW n \in 1..l - 1
                 PROVE  \/ wire'.frames[n] = Chunk(k + n, 1, k + n)
                        \/ /\ wire'.frames[n].event = "result"
                           /\ n = l - 1
                           /\ t.at = "ended"
      BY <2>7, <2>12
    <3>1. n + 1 \in DOMAIN wire.frames /\ wire'.frames[n] = wire.frames[n + 1]
      BY <1>3, <2>12
    <3>2. \/ wire.frames[n + 1] = Chunk(k - 1 + (n + 1), 1, k - 1 + (n + 1))
          \/ wire.frames[n + 1].event = "result" /\ n + 1 = l /\ t.at = "ended"
      BY <2>1, <2>4, <2>9, <2>11, <3>1 DEF OnceInv
    <3>3. k - 1 + (n + 1) = k + n /\ (n + 1 = l => n = l - 1)
      BY <2>4, <2>12
    <3> QED BY <3>1, <3>2, <3>3
  <2>23. \A a \in Tries : serving'[a].at = "running"
            \/ (serving'[a].at = "gate" /\ begun' = <<>>) => serving'[a].resume = -1
    BY <1>2, <2>1 DEF OnceInv
  <2>24. serving'[reader'.attempt] = t
    BY <1>2, <1>6, <2>9
  <2> QED BY <1>6, <2>8, <2>18, <2>21, <2>22, <2>23, <2>24 DEF OnceInv
<1> QED BY <1>7, <1>8, <1>9, <1>10, <1>11 DEF StreamInv

LEMMA ReadResultKeeps ==
    ASSUME StreamInv, ReadResult
    PROVE  StreamInv'
<1>1. PICK f : f = Head(wire.frames)
  OBVIOUS
<1>2. PICK r : r = [run |-> f.run, outcome |-> f.outcome]
  OBVIOUS
<1>3. /\ reader.at = "reading" /\ wire.frames # <<>> /\ f.event = "result"
      /\ reader' = [reader EXCEPT !.at = "returned", !.result = r]
      /\ wire' = [up |-> FALSE, frames |-> <<>>]
      /\ UNCHANGED <<serving, recorded, begun>>
  BY <1>1, <1>2 DEF ReadResult
<1>4. /\ f = wire.frames[1] /\ f \in Frames /\ Len(wire.frames) \in Nat \ {0}
      /\ DOMAIN wire.frames = 1..Len(wire.frames)
  <2>1. wire.frames \in Seq(Frames)
    BY DEF StreamInv, StreamTyped
  <2> QED BY <1>1, <1>3, <2>1, HeadTailProperties
<1>5. r \in [run : Nat, outcome : Outcomes] /\ r.outcome = f.outcome
  BY <1>2, <1>3, <1>4 DEF Frames
<1>6. /\ reader' \in Readers /\ reader'.at = "returned" /\ reader'.attempt = reader.attempt
      /\ reader'.last_id = reader.last_id /\ reader'.got = reader.got /\ reader'.result = r
  <2>1. reader \in Readers
    BY DEF StreamInv, StreamTyped
  <2> QED BY <1>3, <1>5, <2>1 DEF Readers
<1>7. wire'.up = FALSE /\ wire'.frames = <<>> /\ wire' \in [up : BOOLEAN, frames : Seq(Frames)]
  BY <1>3
<1>8. StreamTyped'
  BY <1>3, <1>6, <1>7 DEF StreamInv, StreamTyped, ServingsTyped, ServingTyped
<1>9. CurrentInv'
  BY <1>3, <1>6, <1>7 DEF StreamInv, CurrentInv
<1>10. NumbersInv'
  BY <1>3, <1>6, <1>7 DEF StreamInv, NumbersInv, Beyond
<1>11. RecordInv'
  BY <1>3, <1>6 DEF StreamInv, RecordInv, RowOf
<1>12. Len(begun') <= 1 => OnceInv'
  <2> SUFFICES ASSUME Len(begun) <= 1 PROVE OnceInv'
    BY <1>3
  <2>1. OnceInv
    BY DEF StreamInv
  <2>2. Yielded' = Yielded
    BY <1>3 DEF Yielded
  <2>3. 1 = Len(wire.frames) /\ serving[reader.attempt].at = "ended"
    <3>1. 1 \in DOMAIN wire.frames /\ wire.frames[1].event = "result"
      BY <1>3, <1>4
    <3>2. wire.frames[1] # Chunk(reader.last_id + 1, 1, reader.last_id + 1)
      BY <3>1 DEF Chunk
    <3> QED BY <2>1, <3>1, <3>2 DEF OnceInv
  <2>4. InFlight(serving[reader.attempt], 1)
    BY <1>3, <2>1, <2>3 DEF OnceInv
  <2>5. Whole(r.outcome) => Yielded = reader.last_id + 1
    BY <1>4, <1>5, <2>3, <2>4 DEF InFlight
  <2>6. recorded # NoRow
    <3>1. reader.attempt \in Tries
      BY DEF StreamInv, StreamTyped, Readers
    <3> QED BY <2>3, <3>1 DEF StreamInv, RecordInv
  <2>7. \A o : Whole(o)' = Whole(o)
    BY <1>6, <2>2 DEF Whole
  <2>8. Whole(reader.result.outcome)' => Yielded = reader.last_id + 1
    <3>1. PICK o : o = r.outcome
      OBVIOUS
    <3>2. Whole(o)' => Yielded = reader.last_id + 1
      BY <2>5, <2>7, <3>1
    <3>3. reader'.result.outcome = o
      BY <1>6, <3>1
    <3> QED BY <3>2, <3>3 DEF Whole
  <2>9. \A a \in Tries : serving'[a].at = "running"
            \/ (serving'[a].at = "gate" /\ begun' = <<>>) => serving'[a].resume = -1
    BY <1>3, <2>1 DEF OnceInv
  <2> QED BY <1>3, <1>6, <1>7, <2>1, <2>2, <2>6, <2>8, <2>9 DEF OnceInv
<1> QED BY <1>8, <1>9, <1>10, <1>11, <1>12 DEF StreamInv

-----------------------------------------------------------------------------
(***************************************************************************)
(* The steps of a thread of the server                                     *)
(***************************************************************************)
\* A frame that is written is appended, if the client still hears the thread.
LEMMA WriteFacts ==
    ASSUME StreamInv, NEW a \in Tries, NEW f \in Frames, Write(a, f)
    PROVE  /\ wire' \in [up : BOOLEAN, frames : Seq(Frames)] /\ wire'.up = wire.up
           /\ ~Heard(a) => wire' = wire
           /\ Heard(a) =>
                 /\ reader.at = "reading" /\ a = reader.attempt
                 /\ Len(wire.frames) \in Nat /\ Len(wire'.frames) = Len(wire.frames) + 1
                 /\ DOMAIN wire.frames = 1..Len(wire.frames)
                 /\ DOMAIN wire'.frames = 1..Len(wire.frames) + 1
                 /\ wire'.frames[Len(wire.frames) + 1] = f
                 /\ \A n \in DOMAIN wire.frames : wire'.frames[n] = wire.frames[n]
<1>1. wire \in [up : BOOLEAN, frames : Seq(Frames)] /\ (wire.up <=> reader.at = "reading")
  BY DEF StreamInv, StreamTyped, CurrentInv
<1>2. CASE ~Heard(a)
  BY <1>1, <1>2 DEF Write
<1>3. CASE Heard(a)
  <2>1. wire' = [wire EXCEPT !.frames = Append(@, f)]
    BY <1>3 DEF Write
  <2>2. wire'.frames = Append(wire.frames, f) /\ wire'.up = wire.up
    BY <1>1, <2>1
  <2>3. wire.frames \in Seq(Frames)
    BY <1>1
  <2>4. /\ Append(wire.frames, f) \in Seq(Frames) /\ Len(wire.frames) \in Nat
        /\ Len(Append(wire.frames, f)) = Len(wire.frames) + 1
        /\ DOMAIN wire.frames = 1..Len(wire.frames)
        /\ DOMAIN Append(wire.frames, f) = 1..Len(wire.frames) + 1
        /\ Append(wire.frames, f)[Len(wire.frames) + 1] = f
        /\ \A n \in 1..Len(wire.frames) : Append(wire.frames, f)[n] = wire.frames[n]
    BY <2>3, AppendProperties
  <2>5. wire' \in [up : BOOLEAN, frames : Seq(Frames)]
    BY <1>1, <2>1, <2>4
  <2> QED BY <1>1, <1>3, <2>2, <2>4, <2>5 DEF Heard
<1> QED BY <1>2, <1>3

\* The chunks in flight are numbered within their attempt's bound, if the frame
\* that is written is.
LEMMA WriteNumbers ==
    ASSUME StreamInv, NEW a \in Tries, NEW f \in Frames, Write(a, f),
           Heard(a) /\ f.event = "chunk" => f.id <= Bound(reader.attempt + 1)
    PROVE  \A n \in DOMAIN wire'.frames :
              wire'.frames[n].event = "chunk" => wire'.frames[n].id <= Bound(reader.attempt + 1)
<1>1. NumbersInv
  BY DEF StreamInv
<1>2. CASE ~Heard(a)
  BY <1>1, <1>2, WriteFacts DEF NumbersInv
<1>3. CASE Heard(a)
  <2>1. PICK l : l = Len(wire.frames)
    OBVIOUS
  <2>2. /\ l \in Nat /\ DOMAIN wire.frames = 1..l /\ DOMAIN wire'.frames = 1..l + 1
        /\ wire'.frames[l + 1] = f
        /\ \A n \in 1..l : wire'.frames[n] = wire.frames[n]
    BY <1>3, <2>1, WriteFacts
  <2> SUFFICES ASSUME NEW n \in 1..l + 1, wire'.frames[n].event = "chunk"
               PROVE  wire'.frames[n].id <= Bound(reader.attempt + 1)
    BY <2>2
  <2>3. CASE n = l + 1
    BY <1>3, <2>2, <2>3
  <2>4. CASE n # l + 1
    <3>1. n \in 1..l
      BY <2>2, <2>4
    <3> QED BY <1>1, <2>2, <3>1 DEF NumbersInv
  <2> QED BY <2>3, <2>4
<1> QED BY <1>2, <1>3

\* What is in flight continues what the client has, if the frame that is written
\* does.
LEMMA WriteOnce ==
    ASSUME StreamInv, OnceInv, NEW a \in Tries, NEW f \in Frames, Write(a, f),
           NEW t, ServingAt(a, t), reader' = reader,
           serving[a].at \in {"running", "replaying", "ending"},
           Heard(a) =>
              \/ f = Chunk(reader.last_id + (Len(wire.frames) + 1), 1,
                           reader.last_id + (Len(wire.frames) + 1))
              \/ f.event = "result" /\ t.at = "ended"
    PROVE  \A n \in DOMAIN wire'.frames :
              \/ wire'.frames[n] = Chunk(reader.last_id + n, 1, reader.last_id + n)
              \/ /\ wire'.frames[n].event = "result"
                 /\ n = Len(wire'.frames)
                 /\ serving'[reader'.attempt].at = "ended"
<1>1. /\ reader \in Readers /\ ServingsTyped /\ wire.frames \in Seq(Frames)
      /\ reader.attempt \in Tries /\ reader'.attempt = reader.attempt
  BY DEF StreamInv, StreamTyped, Readers
<1>2. /\ serving'[a] = t
      /\ \A b \in Tries : b # a => serving'[b] = serving[b]
  BY <1>1 DEF ServingAt, ServingsTyped
<1>3. CASE ~Heard(a)
  <2>1. wire' = wire
    BY <1>3, WriteFacts
  <2>2. CASE a = reader.attempt
    <3>1. wire.frames = <<>>
      BY <1>3, <2>2 DEF Heard, StreamInv, CurrentInv
    <3> QED BY <2>1, <3>1
  <2>3. CASE a # reader.attempt
    <3>1. serving'[reader'.attempt] = serving[reader.attempt]
      BY <1>1, <1>2, <2>3
    <3> QED BY <2>1, <3>1 DEF OnceInv
  <2> QED BY <2>2, <2>3
<1>4. CASE Heard(a)
  <2>1. PICK l : l = Len(wire.frames)
    OBVIOUS
  <2>2. /\ l \in Nat /\ DOMAIN wire.frames = 1..l /\ DOMAIN wire'.frames = 1..l + 1
        /\ Len(wire'.frames) = l + 1 /\ a = reader.attempt
        /\ wire'.frames[l + 1] = f
        /\ \A n \in 1..l : wire'.frames[n] = wire.frames[n]
    BY <1>4, <2>1, WriteFacts
  <2>3. /\ \A n \in 1..l : wire.frames[n] = Chunk(reader.last_id + n, 1, reader.last_id + n)
        /\ serving'[reader'.attempt] = t
    BY <1>1, <1>2, <2>2 DEF OnceInv
  <2> SUFFICES ASSUME NEW n \in 1..l + 1
               PROVE  \/ wire'.frames[n] = Chunk(reader.last_id + n, 1, reader.last_id + n)
                      \/ /\ wire'.frames[n].event = "result"
                         /\ n = l + 1
                         /\ t.at = "ended"
    BY <2>2, <2>3
  <2>4. CASE n = l + 1
    BY <1>4, <2>1, <2>2, <2>4
  <2>5. CASE n # l + 1
    <3>1. n \in 1..l
      BY <2>2, <2>5
    <3> QED BY <2>2, <2>3, <3>1
  <2> QED BY <2>4, <2>5
<1> QED BY <1>3, <1>4

\* A thread of the server goes on: the client still hears its current attempt.
LEMMA ServingMoves ==
    ASSUME StreamInv, NEW a \in Tries, NEW t, ServingAt(a, t), reader' = reader,
           serving[a].at # "none",
           t.at \in {"running", "replaying", "ending", "ended", "closed"},
           wire'.up = wire.up, ~Heard(a) => wire' = wire,
           Heard(a) => t.at # "closed"
    PROVE  /\ serving' = [b \in Tries |-> serving'[b]]
           /\ serving'[a] = t
           /\ \A b \in Tries : b # a => serving'[b] = serving[b]
           /\ CurrentInv'
           /\ Beyond' = Beyond \cup {a}
           /\ Cardinality(Beyond) \in Nat
           /\ Cardinality(Beyond') \in Nat
           /\ Cardinality(Beyond) <= Cardinality(Beyond')
           /\ a \in Nat
           /\ reader.attempt \in Tries
           /\ reader.attempt \in Nat
           /\ a <= reader.attempt
<1>1. /\ reader \in Readers /\ ServingsTyped /\ reader.attempt \in Tries
  BY DEF StreamInv, StreamTyped, Readers
<1>2. CurrentInv
  BY DEF StreamInv
<1>3. /\ serving' = [b \in Tries |-> serving'[b]]
      /\ serving'[a] = t
      /\ \A b \in Tries : b # a => serving'[b] = serving[b]
  BY <1>1 DEF ServingAt, ServingsTyped
<1>4. a \in Nat /\ reader.attempt \in Nat
  BY <1>1, StreamsConstants DEF Tries
<1>5. serving[a] # Silent
  BY DEF Silent
<1>6. a <= reader.attempt
  BY <1>2, <1>4, <1>5 DEF CurrentInv
<1>7. CurrentInv'
  <2>1. (wire'.up <=> reader'.at = "reading") /\ (~wire'.up => wire'.frames = <<>>)
    BY <1>2 DEF CurrentInv, Heard
  <2>2. \A b \in Tries :
           b > reader'.attempt \/ (b = reader'.attempt /\ reader'.at \in {"idle", "calling"})
               => serving'[b] = Silent
    BY <1>2, <1>3, <1>5 DEF CurrentInv
  <2>3. CASE reader.attempt = a
    <3>1. reader.at = "reading" => Heard(a)
      BY <1>2, <2>3 DEF CurrentInv, Heard
    <3> QED BY <1>3, <2>1, <2>2, <2>3, <3>1 DEF CurrentInv
  <2>4. CASE reader.attempt # a
    <3>1. serving'[reader'.attempt] = serving[reader.attempt] /\ wire' = wire
      BY <1>1, <1>3, <2>4 DEF Heard
    <3> QED BY <1>2, <2>1, <2>2, <3>1 DEF CurrentInv
  <2> QED BY <2>3, <2>4
<1>8. Beyond' = Beyond \cup {a}
  BY <1>3 DEF Beyond
<1>9. Beyond \subseteq Beyond'
  BY <1>8
<1>10. /\ Cardinality(Beyond) \in Nat /\ Cardinality(Beyond') \in Nat
       /\ Cardinality(Beyond) <= Cardinality(Beyond')
  BY <1>9, BeyondKept, TriesFinite
<1>11. serving' = [b \in Tries |-> serving'[b]]
  BY <1>3
<1>12. serving'[a] = t /\ (\A b \in Tries : b # a => serving'[b] = serving[b])
  BY <1>3
<1>13. CurrentInv'
  BY <1>7
<1> QED BY <1>1, <1>4, <1>6, <1>8, <1>10, <1>11, <1>12, <1>13

LEMMA ExecuteKeeps ==
    ASSUME StreamInv, NEW a \in Tries, Execute(a)
    PROVE  StreamInv'
<1>1. PICK n : n = Len(begun)
  OBVIOUS
<1>2. PICK q : q = serving[a].resume
  OBVIOUS
<1>3. PICK t : t = [at |-> "running", resume |-> q, run |-> n + 1, sse |-> FALSE]
  OBVIOUS
<1>4. /\ serving[a].at = "gate" /\ recorded = NoRow /\ begun' = Append(begun, 0)
      /\ ServingAt(a, t) /\ UNCHANGED <<reader, wire, recorded>>
  BY <1>1, <1>2, <1>3 DEF Execute
<1>5. t.at = "running" /\ t.resume = q /\ t.run = n + 1 /\ t.sse = FALSE
  BY <1>3
<1>6. /\ serving' = [b \in Tries |-> serving'[b]]
      /\ serving'[a] = t
      /\ \A b \in Tries : b # a => serving'[b] = serving[b]
      /\ CurrentInv'
      /\ Beyond' = Beyond \cup {a}
      /\ a \in Nat /\ reader.attempt \in Nat /\ a <= reader.attempt
  BY <1>4, <1>5, ServingMoves
<1>7. q \in Int /\ q >= -1 /\ q <= Bound(a)
  <2>1. ServingTyped(serving[a])
    BY DEF StreamInv, StreamTyped, ServingsTyped
  <2>2. q \in Int
    BY <1>2, <1>4, <2>1 DEF ServingTyped
  <2> QED BY <1>2, <1>4, <2>2 DEF StreamInv, NumbersInv
<1>8. /\ begun \in Seq(0..MaxDeltas) /\ n \in Nat /\ DOMAIN begun = 1..n
      /\ begun' \in Seq(0..MaxDeltas) /\ Len(begun') = n + 1 /\ DOMAIN begun' = 1..n + 1
      /\ begun'[n + 1] = 0
  <2>1. begun \in Seq(0..MaxDeltas) /\ 0 \in 0..MaxDeltas
    BY StreamsConstants DEF StreamInv, StreamTyped
  <2> QED BY <1>1, <1>4, <2>1, AppendProperties
<1>9. StreamTyped'
  <2>1. ServingTyped(t)'
    BY <1>3, <1>7, <1>8 DEF ServingTyped
  <2>2. \A b \in Tries : b # a => ServingTyped(serving[b])'
    <3> SUFFICES ASSUME NEW b \in Tries, b # a PROVE ServingTyped(serving[b])'
      OBVIOUS
    <3>1. PICK u : u = serving[b]
      OBVIOUS
    <3>2. ServingTyped(u)
      BY <3>1 DEF StreamInv, StreamTyped, ServingsTyped
    <3>3. ServingTyped(u)'
      BY <1>8, <3>2 DEF ServingTyped
    <3>4. serving'[b] = u
      BY <1>6, <3>1
    <3> QED BY <3>3, <3>4 DEF ServingTyped
  <2>3. ServingTyped(serving[a])'
    BY <1>6, <2>1 DEF ServingTyped
  <2>4. ServingsTyped'
    BY <1>6, <2>2, <2>3 DEF ServingsTyped
  <2> QED BY <1>4, <1>8, <2>4 DEF StreamInv, StreamTyped
<1>10. NumbersInv'
  <2>1. Len(begun') <= Cardinality(Beyond')
    <3>1. a \notin Beyond /\ n <= Cardinality(Beyond)
      BY <1>1, <1>4 DEF Beyond, StreamInv, NumbersInv
    <3>2. IsFiniteSet(Beyond) /\ Cardinality(Beyond) \in Nat
      BY TriesFinite
    <3>3. Cardinality(Beyond \cup {a}) = Cardinality(Beyond) + 1
      BY <3>1, <3>2, FS_AddElement
    <3> QED BY <1>6, <1>8, <3>1, <3>2, <3>3
  <2>2. \A b \in Tries : serving'[b].at \in {"gate", "running"} =>
            serving'[b].resume >= -1 /\ serving'[b].resume <= Bound(b)
    BY <1>5, <1>6, <1>7 DEF StreamInv, NumbersInv
  <2> QED BY <1>4, <2>1, <2>2 DEF StreamInv, NumbersInv
<1>11. RecordInv'
  <2>1. RecordInv
    BY DEF StreamInv
  <2>2. \A b \in Tries : serving[b].at = "running" => serving[b].run \in 1..n
    BY <1>8 DEF StreamInv, StreamTyped, ServingsTyped, ServingTyped
  <2>3. \A b, c \in Tries :
           b # c /\ serving'[b].at = "running" /\ serving'[c].at = "running" =>
               serving'[b].run # serving'[c].run
    BY <1>5, <1>6, <1>8, <2>1, <2>2 DEF RecordInv
  <2>4. \A b \in Tries : serving'[b].at \in {"replaying", "ending", "ended"} => recorded # NoRow
    BY <1>5, <1>6, <2>1 DEF RecordInv
  <2>5. reader.attempt = 0 => serving'[0].at = "running"
    BY <1>5, <1>6
  <2> QED BY <1>4, <2>3, <2>4, <2>5 DEF RecordInv
<1>12. Len(begun') <= 1 => OnceInv'
  <2> SUFFICES ASSUME Len(begun') <= 1 PROVE OnceInv'
    OBVIOUS
  <2>1. n = 0 /\ begun = <<>>
    BY <1>1, <1>8
  <2>2. OnceInv /\ CurrentInv /\ RecordInv
    BY <1>1, <2>1 DEF StreamInv
  <2>3. Yielded = 0 /\ Yielded' = 0
    BY <1>8, <2>1 DEF Yielded
  <2>4. q = -1
    BY <1>2, <1>4, <2>1, <2>2 DEF OnceInv
  <2>5. \A b \in Tries : serving'[b].at = "running"
            \/ (serving'[b].at = "gate" /\ begun' = <<>>) => serving'[b].resume = -1
    BY <1>5, <1>6, <2>1, <2>2, <2>4 DEF OnceInv
  <2>6. reader.at # "returned"
    BY <1>4, <2>2 DEF OnceInv
  <2>7. CASE a = reader.attempt
    <3>1. wire.frames = <<>>
      BY <1>4, <2>2, <2>7 DEF CurrentInv
    <3>2. reader.at = "reading" => reader.last_id = -1
      BY <1>2, <1>4, <2>2, <2>4, <2>7 DEF CurrentInv
    <3>3. Len(wire'.frames) = 0 /\ serving'[reader'.attempt] = t
      BY <1>4, <1>6, <2>7, <3>1
    <3>4. reader'.at = "reading" => InFlight(serving[reader.attempt], Len(wire.frames))'
      BY <1>4, <1>5, <2>3, <3>2, <3>3 DEF InFlight
    <3> QED BY <1>4, <2>2, <2>3, <2>5, <2>6, <3>1, <3>4 DEF OnceInv
  <2>8. CASE a # reader.attempt
    <3>1. reader.attempt \in Tries
      BY DEF StreamInv, StreamTyped, Readers
    <3>2. serving'[reader'.attempt] = serving[reader.attempt]
      BY <1>4, <1>6, <2>8, <3>1
    <3>3. reader'.at = "reading" => InFlight(serving[reader.attempt], Len(wire.frames))'
      BY <1>4, <2>2, <2>3, <3>2 DEF OnceInv, InFlight, Whole
    <3> QED BY <1>4, <2>2, <2>3, <2>5, <2>6, <3>2, <3>3 DEF OnceInv
  <2> QED BY <2>7, <2>8
<1> QED BY <1>6, <1>9, <1>10, <1>11, <1>12 DEF StreamInv

LEMMA ReplayKeeps ==
    ASSUME StreamInv, NEW a \in Tries, Replay(a)
    PROVE  StreamInv'
<1>1. PICK q : q = serving[a].resume
  OBVIOUS
<1>2. PICK t : t = [at |-> "replaying", resume |-> q, run |-> recorded.run, next |-> q + 1,
                    sse |-> FALSE]
  OBVIOUS
<1>3. /\ serving[a].at = "gate" /\ recorded # NoRow
      /\ ServingAt(a, t) /\ UNCHANGED <<reader, wire, recorded, begun>>
  BY <1>1, <1>2 DEF Replay
<1>4. t.at = "replaying" /\ t.next = q + 1
  BY <1>2
<1>5. /\ serving' = [b \in Tries |-> serving'[b]]
      /\ serving'[a] = t
      /\ \A b \in Tries : b # a => serving'[b] = serving[b]
      /\ CurrentInv'
      /\ Cardinality(Beyond) \in Nat /\ Cardinality(Beyond') \in Nat
      /\ Cardinality(Beyond) <= Cardinality(Beyond')
      /\ a \in Nat /\ reader.attempt \in Tries /\ reader.attempt \in Nat /\ a <= reader.attempt
  BY <1>3, <1>4, ServingMoves
<1>6. q \in Int /\ q >= -1
  <2>1. ServingTyped(serving[a])
    BY DEF StreamInv, StreamTyped, ServingsTyped
  <2>2. q \in Int
    BY <1>1, <1>3, <2>1 DEF ServingTyped
  <2> QED BY <1>1, <1>3, <2>2 DEF StreamInv, NumbersInv
<1>7. StreamTyped'
  <2>1. recorded.run \in Nat
    BY <1>3 DEF StreamInv, StreamTyped, Rows
  <2>2. ServingTyped(t)
    BY <1>2, <1>6, <2>1 DEF ServingTyped
  <2>3. ServingsTyped'
    BY <1>3, <1>5, <2>2 DEF StreamInv, StreamTyped, ServingsTyped, ServingTyped
  <2> QED BY <1>3, <2>3 DEF StreamInv, StreamTyped
<1>8. NumbersInv'
  <2>1. Len(begun') <= Cardinality(Beyond')
    <3>1. Len(begun) \in Nat /\ Len(begun) <= Cardinality(Beyond)
      BY DEF StreamInv, StreamTyped, NumbersInv
    <3> QED BY <1>3, <1>5, <3>1
  <2>2. \A b \in Tries : serving'[b].at \in {"gate", "running"} =>
            serving'[b].resume >= -1 /\ serving'[b].resume <= Bound(b)
    BY <1>4, <1>5 DEF StreamInv, NumbersInv
  <2> QED BY <1>3, <2>1, <2>2 DEF StreamInv, NumbersInv
<1>9. RecordInv'
  <2>1. RecordInv
    BY DEF StreamInv
  <2>2. begun # <<>>
    BY <1>3, <2>1 DEF RecordInv
  <2>3. reader.attempt # 0
    BY <1>3, <1>5, <2>1, <2>2 DEF RecordInv
  <2>4. \A b, c \in Tries :
           b # c /\ serving'[b].at = "running" /\ serving'[c].at = "running" =>
               serving'[b].run # serving'[c].run
    BY <1>4, <1>5, <2>1 DEF RecordInv
  <2>5. /\ recorded.run \in DOMAIN begun
        /\ recorded = RowOf(recorded.run, recorded.outcome)
        /\ \A b \in Tries : serving'[b].at = "running" => serving'[b].run # recorded.run
    BY <1>3, <1>4, <1>5, <2>1 DEF RecordInv
  <2> QED BY <1>3, <2>3, <2>4, <2>5 DEF RecordInv, RowOf
<1>10. Len(begun') <= 1 => OnceInv'
  <2> SUFFICES ASSUME Len(begun) <= 1 PROVE OnceInv'
    BY <1>3
  <2>1. OnceInv /\ CurrentInv
    BY DEF StreamInv
  <2>2. Yielded' = Yielded
    BY <1>3 DEF Yielded
  <2>3. \A b \in Tries : serving'[b].at = "running"
            \/ (serving'[b].at = "gate" /\ begun' = <<>>) => serving'[b].resume = -1
    BY <1>3, <1>4, <1>5, <2>1 DEF OnceInv
  <2>4. CASE a = reader.attempt
    <3>1. wire.frames = <<>>
      BY <1>3, <2>1, <2>4 DEF CurrentInv
    <3>2. reader.at = "reading" => q = reader.last_id
      BY <1>1, <1>3, <2>1, <2>4 DEF CurrentInv
    <3>3. Len(wire'.frames) = 0 /\ serving'[reader'.attempt] = t
      BY <1>3, <1>5, <2>4, <3>1
    <3>4. reader'.at = "reading" => InFlight(serving[reader.attempt], Len(wire.frames))'
      BY <1>3, <1>4, <1>6, <2>1, <2>2, <3>2, <3>3 DEF InFlight, OnceInv
    <3> QED BY <1>3, <2>1, <2>2, <2>3, <3>1, <3>4 DEF OnceInv, Whole
  <2>5. CASE a # reader.attempt
    <3>1. serving'[reader'.attempt] = serving[reader.attempt]
      BY <1>3, <1>5, <2>5
    <3>2. reader'.at = "reading" => InFlight(serving[reader.attempt], Len(wire.frames))'
      BY <1>3, <2>1, <2>2, <3>1 DEF OnceInv, InFlight, Whole
    <3> QED BY <1>3, <2>1, <2>2, <2>3, <3>1, <3>2 DEF OnceInv, Whole
  <2> QED BY <2>4, <2>5
<1> QED BY <1>5, <1>7, <1>8, <1>9, <1>10 DEF StreamInv

\* An execution yields one delta more.
LEMMA BegunMore ==
    ASSUME StreamInv, NEW run \in DOMAIN begun, begun[run] < MaxDeltas,
           begun' = [begun EXCEPT ![run] = @ + 1]
    PROVE  /\ begun \in Seq(0..MaxDeltas) /\ begun[run] \in Nat
           /\ begun' \in Seq(0..MaxDeltas) /\ Len(begun') = Len(begun)
           /\ DOMAIN begun' = DOMAIN begun
           /\ \A r \in DOMAIN begun : r # run => begun'[r] = begun[r]
           /\ Len(begun) <= 1 =>
                 run = 1 /\ Yielded = begun[run] /\ Yielded' = begun[run] + 1
<1>1. begun \in Seq(0..MaxDeltas) /\ MaxDeltas \in Nat
  BY StreamsConstants DEF StreamInv, StreamTyped
<1>2. PICK k : k = begun[run] + 1
  OBVIOUS
<1>3. begun[run] \in Nat /\ k \in 0..MaxDeltas
  BY <1>1, <1>2
<1>4. begun' = [begun EXCEPT ![run] = k]
  BY <1>2
<1>5. begun' \in Seq(0..MaxDeltas) /\ Len(begun') = Len(begun)
      /\ begun'[run] = k /\ \A r \in 1..Len(begun) : r # run => begun'[r] = begun[r]
  BY <1>1, <1>3, <1>4, ExceptSeq
<1>6. DOMAIN begun = 1..Len(begun) /\ DOMAIN begun' = 1..Len(begun) /\ Len(begun) \in Nat
  BY <1>1, <1>5
<1>7. Len(begun) <= 1 => run = 1 /\ begun # <<>> /\ begun' # <<>>
  <2>1. run \in 1..Len(begun)
    BY <1>6
  <2>2. Len(begun) <= 1 => run = 1
    BY <1>6, <2>1
  <2>3. Len(begun) # 0 /\ Len(begun') # 0
    BY <1>5, <1>6, <2>1
  <2> QED BY <2>2, <2>3
<1>8. Len(begun) <= 1 => run = 1 /\ Yielded = begun[run] /\ Yielded' = k
  BY <1>5, <1>7 DEF Yielded
<1> QED BY <1>1, <1>2, <1>3, <1>5, <1>6, <1>8

\* Of an identifier executed once, while that execution runs, no other thread
\* has anything to send and nothing is recorded.
LEMMA RunsAlone ==
    ASSUME StreamInv, Len(begun) <= 1, NEW a \in Tries, serving[a].at = "running"
    PROVE  /\ serving[a].resume = -1 /\ serving[a].run = 1 /\ 1 \in DOMAIN begun
           /\ recorded = NoRow /\ reader.at # "returned"
           /\ \A b \in Tries : b # a =>
                 serving[b].at \notin {"running", "replaying", "ending", "ended"}
<1>1. OnceInv /\ RecordInv
  BY DEF StreamInv
<1>2. \A b \in Tries : serving[b].at = "running" => serving[b].run \in DOMAIN begun
  BY DEF StreamInv, StreamTyped, ServingsTyped, ServingTyped
<1>3. \A r \in DOMAIN begun : r = 1
  <2>1. begun \in Seq(0..MaxDeltas)
    BY DEF StreamInv, StreamTyped
  <2> QED BY <2>1
<1>4. serving[a].run = 1 /\ 1 \in DOMAIN begun
  BY <1>2, <1>3
<1>5. recorded = NoRow
  BY <1>1, <1>3, <1>4 DEF RecordInv
<1>6. \A b \in Tries : b # a => serving[b].at # "running"
  BY <1>1, <1>2, <1>3, <1>4 DEF RecordInv
<1>7. \A b \in Tries : serving[b].at \notin {"replaying", "ending", "ended"}
  BY <1>1, <1>5 DEF RecordInv
<1> QED BY <1>1, <1>4, <1>5, <1>6, <1>7 DEF OnceInv

\* What a thread of the server sends or skips leaves the record as it is.
LEMMA RecordStays ==
    ASSUME StreamInv, NEW a \in Tries, NEW t, ServingAt(a, t), reader' = reader,
           serving[a].at \in {"running", "replaying", "ending"},
           \/ t.at \in {"running", "replaying"} /\ t.at = serving[a].at
              /\ (t.at = "running" => t.run = serving[a].run)
           \/ t.at = "ended" /\ serving[a].at \in {"replaying", "ending"}
           \/ t.at = "closed",
           recorded' = recorded, DOMAIN begun' = DOMAIN begun,
           recorded # NoRow => begun'[recorded.run] = begun[recorded.run]
    PROVE  RecordInv'
<1>1. RecordInv /\ CurrentInv
  BY DEF StreamInv
<1>2. /\ serving'[a] = t
      /\ \A b \in Tries : b # a => serving'[b] = serving[b]
  BY DEF ServingAt, StreamInv, StreamTyped, ServingsTyped
<1>3. \A b, c \in Tries :
         b # c /\ serving'[b].at = "running" /\ serving'[c].at = "running" =>
             serving'[b].run # serving'[c].run
  BY <1>1, <1>2 DEF RecordInv
<1>4. recorded # NoRow =>
         /\ recorded.run \in DOMAIN begun
         /\ recorded = RowOf(recorded.run, recorded.outcome)
         /\ \A b \in Tries : serving'[b].at = "running" => serving'[b].run # recorded.run
  BY <1>1, <1>2 DEF RecordInv
<1>5. \A b \in Tries : serving'[b].at \in {"replaying", "ending", "ended"} => recorded # NoRow
  BY <1>1, <1>2 DEF RecordInv
<1>6. reader.attempt = 0 =>
         /\ serving'[0].at \in {"none", "gate"} => begun' = <<>>
         /\ serving'[0].at # "replaying"
  <2> SUFFICES ASSUME reader.attempt = 0
               PROVE  serving'[0].at \notin {"none", "gate", "replaying"}
    OBVIOUS
  <2>1. serving[a] # Silent
    BY DEF Silent
  <2>2. a = 0
    <3>1. a \in Nat
      BY StreamsConstants DEF Tries
    <3> QED BY <1>1, <2>1, <3>1 DEF CurrentInv
  <2>3. serving[0].at # "replaying"
    BY <1>1 DEF RecordInv
  <2> QED BY <1>2, <2>2, <2>3
<1> QED BY <1>3, <1>4, <1>5, <1>6 DEF RecordInv, RowOf

LEMMA YieldKeeps ==
    ASSUME StreamInv, NEW a \in Tries, Yield(a)
    PROVE  StreamInv'
<1>1. PICK run : run = serving[a].run
  OBVIOUS
<1>2. PICK q : q = serving[a].resume
  OBVIOUS
<1>3. PICK index : index = begun[run]
  OBVIOUS
<1>4. PICK f : f = Chunk(q + 1 + index, run, index)
  OBVIOUS
<1>5. PICK t : t = [serving[a] EXCEPT !.sse = TRUE]
  OBVIOUS
<1>6. /\ serving[a].at = "running" /\ index < MaxDeltas
      /\ begun' = [begun EXCEPT ![run] = @ + 1]
      /\ Write(a, f) /\ ServingAt(a, t)
      /\ UNCHANGED <<reader, recorded>>
  BY <1>1, <1>2, <1>3, <1>4, <1>5 DEF Yield
<1>7. /\ q \in Int /\ run \in DOMAIN begun
      /\ t = [at |-> "running", resume |-> q, run |-> run, sse |-> TRUE]
  <2>1. ServingTyped(serving[a])
    BY DEF StreamInv, StreamTyped, ServingsTyped
  <2>2. serving[a] \in [at : {"running"}, resume : Int, run : DOMAIN begun, sse : BOOLEAN]
    BY <1>6, <2>1 DEF ServingTyped
  <2> QED BY <1>1, <1>2, <1>5, <2>2
<1>8. t.at = "running" /\ t.resume = q /\ t.run = run
  BY <1>7
<1>9. /\ begun \in Seq(0..MaxDeltas) /\ index \in Nat
      /\ begun' \in Seq(0..MaxDeltas) /\ Len(begun') = Len(begun)
      /\ DOMAIN begun' = DOMAIN begun
      /\ \A r \in DOMAIN begun : r # run => begun'[r] = begun[r]
      /\ Len(begun) <= 1 => run = 1 /\ Yielded = index /\ Yielded' = index + 1
  BY <1>3, <1>6, <1>7, BegunMore
<1>10. q >= -1 /\ q <= Bound(a)
  BY <1>2, <1>6 DEF StreamInv, NumbersInv
<1>11. f \in Frames /\ f.event = "chunk" /\ f.id = q + 1 + index
  <2>1. run \in Nat /\ q + 1 + index \in Nat
    BY <1>7, <1>9, <1>10
  <2> QED BY <1>4, <1>9, <2>1 DEF Chunk, Frames
<1>12. /\ wire' \in [up : BOOLEAN, frames : Seq(Frames)] /\ wire'.up = wire.up
       /\ ~Heard(a) => wire' = wire
  BY <1>6, <1>11, WriteFacts
<1>13. /\ serving' = [b \in Tries |-> serving'[b]]
       /\ serving'[a] = t
       /\ \A b \in Tries : b # a => serving'[b] = serving[b]
       /\ CurrentInv'
       /\ Cardinality(Beyond) \in Nat
       /\ Cardinality(Beyond') \in Nat
       /\ Cardinality(Beyond) <= Cardinality(Beyond')
       /\ a \in Nat
       /\ reader.attempt \in Tries
  BY <1>6, <1>8, <1>12, ServingMoves
<1>14. StreamTyped'
  <2>1. ServingTyped(t)
    BY <1>7 DEF ServingTyped
  <2>2. ServingsTyped'
    BY <1>9, <1>13, <2>1 DEF StreamInv, StreamTyped, ServingsTyped, ServingTyped
  <2> QED BY <1>6, <1>9, <1>12, <2>2 DEF StreamInv, StreamTyped
<1>15. NumbersInv'
  <2>1. Len(begun') <= Cardinality(Beyond')
    <3>1. Len(begun) \in Nat /\ Len(begun) <= Cardinality(Beyond)
      BY DEF StreamInv, StreamTyped, NumbersInv
    <3> QED BY <1>9, <1>13, <3>1
  <2>2. \A b \in Tries : serving'[b].at \in {"gate", "running"} =>
            serving'[b].resume >= -1 /\ serving'[b].resume <= Bound(b)
    BY <1>7, <1>8, <1>10, <1>13 DEF StreamInv, NumbersInv
  <2>3. Heard(a) => f.id <= Bound(reader.attempt + 1)
    <3>1. Bound(a) \in Int /\ Bound(a + 1) \in Int /\ Bound(a + 1) = Bound(a) + MaxDeltas
      BY <1>13, BoundStep
    <3>2. MaxDeltas \in Nat
      BY StreamsConstants
    <3>3. f.id <= Bound(a + 1)
      BY <1>6, <1>7, <1>9, <1>10, <1>11, <3>1, <3>2
    <3> QED BY <3>3 DEF Heard
  <2>4. \A n \in DOMAIN wire'.frames :
           wire'.frames[n].event = "chunk" => wire'.frames[n].id <= Bound(reader.attempt + 1)
    BY <1>6, <1>11, <2>3, WriteNumbers
  <2> QED BY <1>6, <2>1, <2>2, <2>4 DEF StreamInv, NumbersInv
<1>16. RecordInv'
  <2>1. recorded # NoRow => begun'[recorded.run] = begun[recorded.run]
    BY <1>1, <1>6, <1>9 DEF StreamInv, RecordInv
  <2> QED BY <1>1, <1>6, <1>8, <1>9, <2>1, RecordStays
<1>17. Len(begun') <= 1 => OnceInv'
  <2> SUFFICES ASSUME Len(begun) <= 1 PROVE OnceInv'
    BY <1>9
  <2>1. OnceInv
    BY DEF StreamInv
  <2>2. run = 1 /\ Yielded = index /\ Yielded' = index + 1
    BY <1>9
  <2>3. /\ q = -1 /\ reader.at # "returned"
        /\ \A b \in Tries : b # a =>
              serving[b].at \notin {"running", "replaying", "ending", "ended"}
    BY <1>2, <1>6, RunsAlone
  <2>4. PICK l : l = Len(wire.frames)
    OBVIOUS
  <2>5. reader.last_id \in Int
    BY DEF StreamInv, StreamTyped, Readers
  <2>6. Heard(a) =>
            /\ reader.at = "reading" /\ a = reader.attempt /\ l \in Nat
            /\ Len(wire'.frames) = l + 1 /\ index = reader.last_id + 1 + l
    <3>1. Heard(a) => /\ reader.at = "reading" /\ a = reader.attempt /\ l \in Nat
                      /\ Len(wire'.frames) = l + 1
      BY <1>6, <1>11, <2>4, WriteFacts
    <3>2. Heard(a) => Yielded = reader.last_id + 1 + l
      BY <1>6, <2>1, <2>4, <3>1 DEF OnceInv, InFlight
    <3> QED BY <2>2, <3>1, <3>2
  <2>7. \A n \in DOMAIN wire'.frames :
           \/ wire'.frames[n] = Chunk(reader.last_id + n, 1, reader.last_id + n)
           \/ /\ wire'.frames[n].event = "result"
              /\ n = Len(wire'.frames)
              /\ serving'[reader'.attempt].at = "ended"
    <3>1. Heard(a) => f = Chunk(reader.last_id + (Len(wire.frames) + 1), 1,
                                reader.last_id + (Len(wire.frames) + 1))
      <4>1. Heard(a) => index = reader.last_id + (Len(wire.frames) + 1)
        BY <2>4, <2>5, <2>6
      <4>2. q + 1 + index = index
        BY <1>9, <2>3
      <4> QED BY <1>4, <2>2, <4>1, <4>2
    <3> QED BY <1>6, <1>11, <2>1, <3>1, WriteOnce
  <2>8. reader.at = "reading" => InFlight(serving[reader.attempt], Len(wire.frames))'
    <3> SUFFICES ASSUME reader.at = "reading"
                 PROVE  InFlight(serving[reader.attempt], Len(wire.frames))'
      OBVIOUS
    <3>1. CASE a = reader.attempt
      <4>1. Heard(a)
        BY <3>1 DEF Heard, StreamInv, CurrentInv
      <4>2. serving'[reader'.attempt] = t /\ Len(wire'.frames) = l + 1
        BY <1>6, <1>13, <2>6, <3>1, <4>1
      <4>3. Yielded' = reader'.last_id + 1 + (l + 1)
        BY <1>6, <1>9, <2>2, <2>5, <2>6, <4>1
      <4> QED BY <1>8, <4>2, <4>3 DEF InFlight
    <3>2. CASE a # reader.attempt
      <4>1. serving'[reader'.attempt] = serving[reader.attempt]
        BY <1>6, <1>13, <3>2
      <4>2. serving'[reader'.attempt].at \notin {"running", "replaying", "ending", "ended"}
        BY <1>13, <2>3, <3>2, <4>1
      <4> QED BY <4>2 DEF InFlight
    <3> QED BY <3>1, <3>2
  <2>9. reader.last_id + 1 <= Yielded'
    BY <1>9, <2>1, <2>2, <2>5 DEF OnceInv
  <2>10. \A b \in Tries : serving'[b].at = "running"
            \/ (serving'[b].at = "gate" /\ begun' = <<>>) => serving'[b].resume = -1
    <3>1. begun # <<>> /\ begun' # <<>>
      BY <1>7, <1>9
    <3> QED BY <1>8, <1>13, <2>3, <3>1
  <2> QED BY <1>6, <2>1, <2>3, <2>7, <2>8, <2>9, <2>10 DEF OnceInv
<1> QED BY <1>13, <1>14, <1>15, <1>16, <1>17 DEF StreamInv

\* Of an identifier executed once, what is recorded is that execution: all of
\* its deltas or none.
LEMMA RecordedOnce ==
    ASSUME StreamInv, Len(begun) <= 1, recorded # NoRow
    PROVE  /\ recorded.run = 1 /\ recorded.chunks \in Int /\ Yielded \in Int
           /\ recorded.chunks <= Yielded
           /\ recorded.outcome = "success" /\ Yielded <= ChunkCap => recorded.chunks = Yielded
<1>1. /\ recorded.run \in DOMAIN begun
      /\ recorded = RowOf(recorded.run, recorded.outcome)
  BY DEF StreamInv, RecordInv
<1>2. begun \in Seq(0..MaxDeltas) /\ MaxDeltas \in Nat /\ ChunkCap \in Nat
  BY StreamsConstants DEF StreamInv, StreamTyped
<1>3. recorded.run = 1 /\ begun # <<>> /\ begun[1] \in 0..MaxDeltas
  BY <1>1, <1>2
<1>4. Yielded = begun[1]
  BY <1>3 DEF Yielded
<1>5. PICK o : o = recorded.outcome
  OBVIOUS
<1>6. recorded = RowOf(1, o)
  BY <1>1, <1>3, <1>5
<1>7. recorded.chunks = IF o = "success" /\ begun[1] <= ChunkCap THEN begun[1] ELSE 0
  BY <1>6 DEF RowOf
<1> QED BY <1>2, <1>3, <1>4, <1>5, <1>7

LEMMA HeadersFailKeeps ==
    ASSUME StreamInv, NEW a \in Tries, HeadersFail(a)
    PROVE  StreamInv'
<1>1. PICK t : t = [at |-> "closed"]
  OBVIOUS
<1>2. PICK run : run = serving[a].run
  OBVIOUS
<1>3. /\ serving[a].at \in {"running", "replaying"} /\ ~Heard(a)
      /\ \/ /\ serving[a].at = "running" /\ begun[run] < MaxDeltas
            /\ begun' = [begun EXCEPT ![run] = @ + 1]
         \/ serving[a].at = "replaying" /\ begun' = begun
      /\ ServingAt(a, t) /\ UNCHANGED <<reader, wire, recorded>>
  BY <1>1, <1>2 DEF HeadersFail
<1>4. t.at = "closed"
  BY <1>1
<1>5. /\ serving' = [b \in Tries |-> serving'[b]]
      /\ serving'[a] = t
      /\ \A b \in Tries : b # a => serving'[b] = serving[b]
      /\ CurrentInv'
      /\ Cardinality(Beyond) \in Nat
      /\ Cardinality(Beyond') \in Nat
      /\ Cardinality(Beyond) <= Cardinality(Beyond')
      /\ reader.attempt \in Tries
  BY <1>3, <1>4, ServingMoves
<1>6. serving[a].at = "running" => run \in DOMAIN begun
  BY <1>2 DEF StreamInv, StreamTyped, ServingsTyped, ServingTyped
<1>7. /\ begun \in Seq(0..MaxDeltas)
      /\ begun' \in Seq(0..MaxDeltas) /\ Len(begun') = Len(begun)
      /\ DOMAIN begun' = DOMAIN begun
      /\ \A r \in DOMAIN begun : serving[a].at # "running" \/ r # run => begun'[r] = begun[r]
      /\ Len(begun) <= 1 =>
            Yielded' = Yielded \/ (serving[a].at = "running" /\ Yielded' = Yielded + 1)
  <2>1. CASE serving[a].at = "running"
    BY <1>3, <1>6, <2>1, BegunMore
  <2>2. CASE serving[a].at # "running"
    BY <1>3, <2>2 DEF StreamInv, StreamTyped, Yielded
  <2> QED BY <2>1, <2>2
<1>8. StreamTyped'
  <2>1. ServingTyped(t)
    BY <1>1 DEF ServingTyped
  <2>2. ServingsTyped'
    BY <1>5, <1>7, <2>1 DEF StreamInv, StreamTyped, ServingsTyped, ServingTyped
  <2> QED BY <1>3, <1>7, <2>2 DEF StreamInv, StreamTyped
<1>9. NumbersInv'
  <2>1. Len(begun') <= Cardinality(Beyond')
    <3>1. Len(begun) \in Nat /\ Len(begun) <= Cardinality(Beyond)
      BY DEF StreamInv, StreamTyped, NumbersInv
    <3> QED BY <1>5, <1>7, <3>1
  <2>2. \A b \in Tries : serving'[b].at \in {"gate", "running"} =>
            serving'[b].resume >= -1 /\ serving'[b].resume <= Bound(b)
    BY <1>4, <1>5 DEF StreamInv, NumbersInv
  <2> QED BY <1>3, <2>1, <2>2 DEF StreamInv, NumbersInv
<1>10. RecordInv'
  <2>1. recorded # NoRow => begun'[recorded.run] = begun[recorded.run]
    <3>1. recorded # NoRow => recorded.run \in DOMAIN begun
      BY DEF StreamInv, RecordInv
    <3>2. recorded # NoRow /\ serving[a].at = "running" => recorded.run # run
      BY <1>2 DEF StreamInv, RecordInv
    <3> QED BY <1>7, <3>1, <3>2
  <2> QED BY <1>3, <1>4, <1>7, <2>1, RecordStays
<1>11. Len(begun') <= 1 => OnceInv'
  <2> SUFFICES ASSUME Len(begun) <= 1 PROVE OnceInv'
    BY <1>7
  <2>1. OnceInv
    BY DEF StreamInv
  <2>2. \A b \in Tries : serving'[b].at = "running"
            \/ (serving'[b].at = "gate" /\ begun' = <<>>) => serving'[b].resume = -1
    <3>1. begun' = <<>> => begun = <<>>
      BY <1>7
    <3> QED BY <1>4, <1>5, <2>1, <3>1 DEF OnceInv
  <2>3. Yielded \in Int /\ Yielded' \in Int /\ Yielded <= Yielded' /\ reader.last_id \in Int
    <3>1. Yielded \in Int
      BY YieldedType, StreamsConstants
    <3> QED BY <1>7, <3>1 DEF StreamInv, StreamTyped, Readers
  <2>4. reader.last_id + 1 <= Yielded'
    BY <2>1, <2>3 DEF OnceInv
  <2>5. reader.at = "returned" => Yielded' = Yielded
    BY <1>7, RunsAlone
  <2>6. reader.at = "returned" /\ Whole(reader.result.outcome)' => Yielded' = reader.last_id + 1
    <3>1. reader.at = "returned" /\ Whole(reader.result.outcome)' => Whole(reader.result.outcome)
      BY <1>3, <2>5 DEF Whole
    <3> QED BY <2>1, <2>5, <3>1 DEF OnceInv
  <2>7. CASE a = reader.attempt
    <3>1. reader.at # "reading" /\ wire.frames = <<>>
      BY <1>3, <2>7 DEF Heard, StreamInv, CurrentInv
    <3> QED BY <1>3, <2>1, <2>2, <2>4, <2>6, <3>1 DEF OnceInv
  <2>8. CASE a # reader.attempt
    <3>1. serving'[reader'.attempt] = serving[reader.attempt]
      BY <1>3, <1>5, <2>8
    <3>2. reader.at = "reading" => InFlight(serving[reader.attempt], Len(wire.frames))'
      <4>1. CASE serving[a].at = "running"
        <5>1. serving[reader.attempt].at \notin {"running", "replaying", "ending", "ended"}
          BY <1>5, <2>8, <4>1, RunsAlone
        <5> QED BY <3>1, <5>1 DEF InFlight
      <4>2. CASE serving[a].at # "running"
        <5>1. Yielded' = Yielded
          BY <1>7, <4>2
        <5> QED BY <1>3, <2>1, <3>1, <5>1 DEF OnceInv, InFlight, Whole
      <4> QED BY <4>1, <4>2
    <3> QED BY <1>3, <2>1, <2>2, <2>4, <2>6, <3>1, <3>2 DEF OnceInv
  <2> QED BY <2>7, <2>8
<1> QED BY <1>5, <1>8, <1>9, <1>10, <1>11 DEF StreamInv

LEMMA ReplayChunkKeeps ==
    ASSUME StreamInv, NEW a \in Tries, ReplayChunk(a)
    PROVE  StreamInv'
<1>1. PICK k : k = serving[a].next
  OBVIOUS
<1>2. PICK f : f = Chunk(k, recorded.run, k)
  OBVIOUS
<1>3. PICK t : t = [serving[a] EXCEPT !.next = k + 1, !.sse = TRUE]
  OBVIOUS
<1>4. /\ k \in Nat
      /\ t \in [at : {"replaying"}, resume : Int, run : Nat, next : Nat, sse : BOOLEAN]
      /\ t.next = k + 1
      /\ t = [serving[a] EXCEPT !.next = @ + 1, !.sse = TRUE]
  <2>1. ServingTyped(serving[a]) /\ serving[a].at = "replaying"
    BY DEF ReplayChunk, StreamInv, StreamTyped, ServingsTyped
  <2>2. serving[a] \in [at : {"replaying"}, resume : Int, run : Nat, next : Nat, sse : BOOLEAN]
    BY <2>1 DEF ServingTyped
  <2>3. k \in Nat /\ k + 1 \in Nat
    BY <1>1, <2>2
  <2>4. t \in [at : {"replaying"}, resume : Int, run : Nat, next : Nat, sse : BOOLEAN]
        /\ t.next = k + 1
    BY <1>3, <2>2, <2>3
  <2>5. t = [serving[a] EXCEPT !.next = @ + 1, !.sse = TRUE]
    BY <1>1, <1>3
  <2> QED BY <2>3, <2>4, <2>5
<1>5. /\ serving[a].at = "replaying" /\ k < recorded.chunks
      /\ Write(a, f) /\ ServingAt(a, t)
      /\ UNCHANGED <<reader, recorded, begun>>
  BY <1>1, <1>2, <1>4 DEF ReplayChunk
<1>6. t.at = "replaying"
  BY <1>4
<1>7. recorded # NoRow
  BY <1>5 DEF StreamInv, RecordInv
<1>8. recorded \in Rows
  BY <1>7 DEF StreamInv, StreamTyped
<1>9. f \in Frames /\ f.event = "chunk" /\ f.id = k
  <2>1. recorded.run \in Nat
    BY <1>8 DEF Rows
  <2> QED BY <1>2, <1>4, <2>1 DEF Chunk, Frames
<1>10. /\ wire' \in [up : BOOLEAN, frames : Seq(Frames)] /\ wire'.up = wire.up
       /\ ~Heard(a) => wire' = wire
  BY <1>5, <1>9, WriteFacts
<1>11. /\ serving' = [b \in Tries |-> serving'[b]]
       /\ serving'[a] = t
       /\ \A b \in Tries : b # a => serving'[b] = serving[b]
       /\ CurrentInv'
       /\ Cardinality(Beyond) \in Nat
       /\ Cardinality(Beyond') \in Nat
       /\ Cardinality(Beyond) <= Cardinality(Beyond')
       /\ reader.attempt \in Tries
       /\ reader.attempt \in Nat
  BY <1>5, <1>6, <1>10, ServingMoves
<1>12. StreamTyped'
  <2>1. ServingTyped(t)
    BY <1>4 DEF ServingTyped
  <2>2. ServingsTyped'
    BY <1>5, <1>11, <2>1 DEF StreamInv, StreamTyped, ServingsTyped, ServingTyped
  <2> QED BY <1>5, <1>10, <2>2 DEF StreamInv, StreamTyped
<1>13. NumbersInv'
  <2>1. Len(begun') <= Cardinality(Beyond')
    <3>1. Len(begun) \in Nat /\ Len(begun) <= Cardinality(Beyond)
      BY DEF StreamInv, StreamTyped, NumbersInv
    <3> QED BY <1>5, <1>11, <3>1
  <2>2. \A b \in Tries : serving'[b].at \in {"gate", "running"} =>
            serving'[b].resume >= -1 /\ serving'[b].resume <= Bound(b)
    BY <1>6, <1>11 DEF StreamInv, NumbersInv
  <2>3. f.id <= Bound(reader.attempt + 1)
    <3>1. PICK m : m = reader.attempt
      OBVIOUS
    <3>2. m \in Nat
      BY <1>11, <3>1
    <3>3. Bound(m) \in Int /\ Bound(m) >= -1 /\ Bound(m + 1) = Bound(m) + MaxDeltas
      BY <3>2, BoundStep
    <3>4. recorded.chunks \in Int /\ recorded.chunks <= MaxDeltas /\ MaxDeltas \in Nat
      BY <1>8, StreamsConstants DEF Rows
    <3>5. f.id <= Bound(m + 1)
      BY <1>4, <1>5, <1>9, <3>3, <3>4
    <3> QED BY <3>1, <3>5
  <2>4. \A n \in DOMAIN wire'.frames :
           wire'.frames[n].event = "chunk" => wire'.frames[n].id <= Bound(reader.attempt + 1)
    BY <1>5, <1>9, <2>3, WriteNumbers
  <2> QED BY <1>5, <2>1, <2>2, <2>4 DEF StreamInv, NumbersInv
<1>14. RecordInv'
  BY <1>5, <1>6, RecordStays
<1>15. Len(begun') <= 1 => OnceInv'
  <2> SUFFICES ASSUME Len(begun) <= 1 PROVE OnceInv'
    BY <1>5
  <2>1. OnceInv
    BY DEF StreamInv
  <2>2. Yielded' = Yielded
    BY <1>5 DEF Yielded
  <2>3. recorded.run = 1 /\ recorded.chunks <= Yielded /\ Yielded \in Int /\ recorded.chunks \in Int
    BY <1>7, RecordedOnce
  <2>4. PICK l : l = Len(wire.frames)
    OBVIOUS
  <2>5. reader.last_id \in Int
    BY DEF StreamInv, StreamTyped, Readers
  <2>6. Heard(a) =>
            /\ reader.at = "reading" /\ a = reader.attempt /\ l \in Nat
            /\ Len(wire'.frames) = l + 1 /\ k = reader.last_id + 1 + l
    <3>1. Heard(a) => /\ reader.at = "reading" /\ a = reader.attempt /\ l \in Nat
                      /\ Len(wire'.frames) = l + 1
      BY <1>5, <1>9, <2>4, WriteFacts
    <3>2. Heard(a) => k = reader.last_id + 1 + l
      BY <1>1, <1>5, <2>1, <2>4, <3>1 DEF OnceInv, InFlight
    <3> QED BY <3>1, <3>2
  <2>7. \A n \in DOMAIN wire'.frames :
           \/ wire'.frames[n] = Chunk(reader.last_id + n, 1, reader.last_id + n)
           \/ /\ wire'.frames[n].event = "result"
              /\ n = Len(wire'.frames)
              /\ serving'[reader'.attempt].at = "ended"
    <3>1. Heard(a) => f = Chunk(reader.last_id + (Len(wire.frames) + 1), 1,
                                reader.last_id + (Len(wire.frames) + 1))
      <4>1. Heard(a) => k = reader.last_id + (Len(wire.frames) + 1)
        BY <2>4, <2>5, <2>6
      <4> QED BY <1>2, <2>3, <4>1
    <3> QED BY <1>5, <1>9, <2>1, <3>1, WriteOnce
  <2>8. reader.at = "reading" => InFlight(serving[reader.attempt], Len(wire.frames))'
    <3> SUFFICES ASSUME reader.at = "reading"
                 PROVE  InFlight(serving[reader.attempt], Len(wire.frames))'
      OBVIOUS
    <3>1. CASE a = reader.attempt
      <4>1. Heard(a)
        BY <3>1 DEF Heard, StreamInv, CurrentInv
      <4>2. serving'[reader'.attempt] = t /\ Len(wire'.frames) = l + 1
        BY <1>5, <1>11, <2>6, <3>1, <4>1
      <4>3. PICK c : c = recorded.chunks
        OBVIOUS
      <4>4. c \in Int /\ k < c /\ c <= Yielded
        BY <1>5, <2>3, <4>3
      <4>5. k + 1 <= Yielded
        BY <1>4, <2>3, <4>4
      <4>6. k + 1 = reader.last_id + 1 + (l + 1)
        <5>1. PICK m : m = reader.last_id
          OBVIOUS
        <5>2. m \in Int /\ l \in Nat /\ k = m + 1 + l
          BY <2>5, <2>6, <4>1, <5>1
        <5>3. k + 1 = m + 1 + (l + 1)
          BY <5>2
        <5> QED BY <5>1, <5>3
      <4>7. t.next = reader'.last_id + 1 + (l + 1) /\ t.next <= Yielded'
        BY <1>4, <1>5, <2>2, <4>5, <4>6
      <4> QED BY <1>6, <4>2, <4>7 DEF InFlight
    <3>2. CASE a # reader.attempt
      <4>1. serving'[reader'.attempt] = serving[reader.attempt] /\ wire' = wire
        BY <1>5, <1>10, <1>11, <3>2 DEF Heard
      <4> QED BY <1>5, <2>1, <2>2, <4>1 DEF OnceInv, InFlight, Whole
    <3> QED BY <3>1, <3>2
  <2>9. \A b \in Tries : serving'[b].at = "running"
            \/ (serving'[b].at = "gate" /\ begun' = <<>>) => serving'[b].resume = -1
    BY <1>5, <1>6, <1>11, <2>1 DEF OnceInv
  <2> QED BY <1>5, <2>1, <2>2, <2>7, <2>8, <2>9 DEF OnceInv, Whole
<1> QED BY <1>11, <1>12, <1>13, <1>14, <1>15 DEF StreamInv

\* The terminal frame, which the client takes for the whole answer only if what
\* it has and what is in flight before it is all there is.
LEMMA LastFrameKeeps ==
    ASSUME StreamInv, NEW a \in Tries, NEW f \in Frames, f.event = "result",
           NEW t, t.at = "ended", ServingTyped(t),
           serving[a].at \in {"replaying", "ending"},
           Write(a, f), ServingAt(a, t), UNCHANGED <<reader, recorded, begun>>,
           Len(begun) <= 1 /\ Heard(a) =>
               /\ reader.last_id + 1 + Len(wire.frames) <= Yielded
               /\ Whole(f.outcome) => Yielded = reader.last_id + 1 + Len(wire.frames)
    PROVE  StreamInv'
<1>1. /\ wire' \in [up : BOOLEAN, frames : Seq(Frames)] /\ wire'.up = wire.up
      /\ ~Heard(a) => wire' = wire
  BY WriteFacts
<1>2. /\ serving' = [b \in Tries |-> serving'[b]]
      /\ serving'[a] = t
      /\ \A b \in Tries : b # a => serving'[b] = serving[b]
      /\ CurrentInv'
      /\ Cardinality(Beyond) \in Nat
      /\ Cardinality(Beyond') \in Nat
      /\ Cardinality(Beyond) <= Cardinality(Beyond')
      /\ reader.attempt \in Tries
  BY <1>1, ServingMoves
<1>3. StreamTyped'
  <2>1. ServingsTyped'
    BY <1>2 DEF StreamInv, StreamTyped, ServingsTyped, ServingTyped
  <2> QED BY <1>1, <2>1 DEF StreamInv, StreamTyped
<1>4. NumbersInv'
  <2>1. Len(begun') <= Cardinality(Beyond')
    <3>1. Len(begun) \in Nat /\ Len(begun) <= Cardinality(Beyond)
      BY DEF StreamInv, StreamTyped, NumbersInv
    <3> QED BY <1>2, <3>1
  <2>2. \A b \in Tries : serving'[b].at \in {"gate", "running"} =>
            serving'[b].resume >= -1 /\ serving'[b].resume <= Bound(b)
    BY <1>2 DEF StreamInv, NumbersInv
  <2>3. \A n \in DOMAIN wire'.frames :
           wire'.frames[n].event = "chunk" => wire'.frames[n].id <= Bound(reader.attempt + 1)
    BY WriteNumbers
  <2> QED BY <2>1, <2>2, <2>3 DEF StreamInv, NumbersInv
<1>5. RecordInv'
  BY RecordStays
<1>6. Len(begun') <= 1 => OnceInv'
  <2> SUFFICES ASSUME Len(begun) <= 1 PROVE OnceInv'
    OBVIOUS
  <2>1. OnceInv
    BY DEF StreamInv
  <2>2. Yielded' = Yielded
    BY DEF Yielded
  <2>3. PICK l : l = Len(wire.frames)
    OBVIOUS
  <2>4. reader.last_id \in Int /\ Yielded \in Int
    <3>1. Yielded \in Int
      BY YieldedType, StreamsConstants
    <3> QED BY <3>1 DEF StreamInv, StreamTyped, Readers
  <2>5. \A n \in DOMAIN wire'.frames :
           \/ wire'.frames[n] = Chunk(reader.last_id + n, 1, reader.last_id + n)
           \/ /\ wire'.frames[n].event = "result"
              /\ n = Len(wire'.frames)
              /\ serving'[reader'.attempt].at = "ended"
    BY <2>1, WriteOnce
  <2>6. reader.at = "reading" => InFlight(serving[reader.attempt], Len(wire.frames))'
    <3> SUFFICES ASSUME reader.at = "reading"
                 PROVE  InFlight(serving[reader.attempt], Len(wire.frames))'
      OBVIOUS
    <3>1. CASE a = reader.attempt
      <4>1. Heard(a)
        BY <3>1 DEF Heard, StreamInv, CurrentInv
      <4>2. l \in Nat /\ Len(wire'.frames) = l + 1 /\ wire'.frames[l + 1] = f
        BY <2>3, <4>1, WriteFacts
      <4>3. serving'[reader'.attempt] = t
        BY <1>2, <3>1
      <4>4. PICK o : o = f.outcome
        OBVIOUS
      <4>5. /\ reader.last_id + 1 + l <= Yielded
            /\ Whole(o) => Yielded = reader.last_id + 1 + l
        BY <2>3, <4>1, <4>4
      <4>6. Whole(o)' => Whole(o)
        BY <2>2 DEF Whole
      <4>7. /\ l + 1 # 0 /\ reader'.last_id + (l + 1) <= Yielded'
            /\ Whole(o)' => Yielded' = reader'.last_id + (l + 1)
        BY <2>2, <2>4, <4>2, <4>5, <4>6
      <4>8. wire'.frames[l + 1].event = "result" /\ wire'.frames[l + 1].outcome = o
        BY <4>2, <4>4
      <4> QED BY <4>2, <4>3, <4>7, <4>8 DEF InFlight, Whole
    <3>2. CASE a # reader.attempt
      <4>1. serving'[reader'.attempt] = serving[reader.attempt] /\ wire' = wire
        BY <1>1, <1>2, <3>2 DEF Heard
      <4> QED BY <2>1, <2>2, <4>1 DEF OnceInv, InFlight, Whole
    <3> QED BY <3>1, <3>2
  <2>7. \A b \in Tries : serving'[b].at = "running"
            \/ (serving'[b].at = "gate" /\ begun' = <<>>) => serving'[b].resume = -1
    BY <1>2, <2>1 DEF OnceInv
  <2> QED BY <2>1, <2>2, <2>5, <2>6, <2>7 DEF OnceInv, Whole
<1> QED BY <1>2, <1>3, <1>4, <1>5, <1>6 DEF StreamInv

LEMMA ReplayResultKeeps ==
    ASSUME StreamInv, NEW a \in Tries, ReplayResult(a)
    PROVE  StreamInv'
<1>1. PICK o : o = recorded.outcome
  OBVIOUS
<1>2. PICK f : f = Result(recorded.run, o)
  OBVIOUS
<1>3. PICK t : t = [at |-> "ended"]
  OBVIOUS
<1>4. /\ serving[a].at = "replaying" /\ serving[a].next >= recorded.chunks
      /\ Write(a, f) /\ ServingAt(a, t)
      /\ UNCHANGED <<reader, recorded, begun>>
  BY <1>1, <1>2, <1>3 DEF ReplayResult
<1>5. t.at = "ended" /\ ServingTyped(t)
  BY <1>3 DEF ServingTyped
<1>6. recorded # NoRow
  BY <1>4 DEF StreamInv, RecordInv
<1>7. f \in Frames /\ f.event = "result" /\ f.outcome = o
  <2>1. recorded \in Rows
    BY <1>6 DEF StreamInv, StreamTyped
  <2>2. recorded.run \in Nat /\ o \in Outcomes
    BY <1>1, <2>1 DEF Rows
  <2> QED BY <1>2, <2>2 DEF Result, Frames
<1>8. (Len(begun) <= 1 /\ Heard(a) =>
           /\ reader.last_id + 1 + Len(wire.frames) <= Yielded
           /\ Whole(o) => Yielded = reader.last_id + 1 + Len(wire.frames))
  <2> SUFFICES ASSUME Len(begun) <= 1, Heard(a)
               PROVE  /\ reader.last_id + 1 + Len(wire.frames) <= Yielded
                      /\ Whole(o) => Yielded = reader.last_id + 1 + Len(wire.frames)
    OBVIOUS
  <2>1. PICK k : k = serving[a].next
    OBVIOUS
  <2>2. PICK c : c = recorded.chunks
    OBVIOUS
  <2>3. /\ c \in Int /\ Yielded \in Int
        /\ o = "success" /\ Yielded <= ChunkCap => c = Yielded
    BY <1>1, <1>6, <2>2, RecordedOnce
  <2>4. k >= c
    BY <1>4, <2>1, <2>2
  <2>5. k \in Int
    BY <1>4, <2>1 DEF StreamInv, StreamTyped, ServingsTyped, ServingTyped
  <2>6. k = reader.last_id + 1 + Len(wire.frames) /\ k <= Yielded
    <3>1. reader.at = "reading" /\ a = reader.attempt
      BY DEF Heard, StreamInv, CurrentInv
    <3> QED BY <1>4, <2>1, <3>1 DEF StreamInv, OnceInv, InFlight
  <2>7. Whole(o) => o = "success" /\ Yielded <= ChunkCap
    <3>1. reader.attempt \in Nat /\ a = reader.attempt
      BY StreamsConstants DEF Heard, StreamInv, StreamTyped, Readers, Tries
    <3>2. reader.attempt # 0
      BY <1>4, <3>1 DEF StreamInv, RecordInv
    <3> QED BY <3>1, <3>2 DEF Whole
  <2> QED BY <2>3, <2>4, <2>5, <2>6, <2>7
<1> QED BY <1>4, <1>5, <1>7, <1>8, LastFrameKeeps

LEMMA SendResultKeeps ==
    ASSUME StreamInv, NEW a \in Tries, SendResult(a)
    PROVE  StreamInv'
<1>1. PICK o : o = serving[a].outcome
  OBVIOUS
<1>2. PICK f : f = Result(serving[a].run, o)
  OBVIOUS
<1>3. PICK t : t = [at |-> "ended"]
  OBVIOUS
<1>4. /\ serving[a].at = "ending"
      /\ Write(a, f) /\ ServingAt(a, t)
      /\ UNCHANGED <<reader, recorded, begun>>
  BY <1>1, <1>2, <1>3 DEF SendResult
<1>5. t.at = "ended" /\ ServingTyped(t)
  BY <1>3 DEF ServingTyped
<1>6. f \in Frames /\ f.event = "result" /\ f.outcome = o
  <2>1. ServingTyped(serving[a])
    BY DEF StreamInv, StreamTyped, ServingsTyped
  <2>2. serving[a].run \in Nat /\ o \in Outcomes
    BY <1>1, <1>4, <2>1 DEF ServingTyped
  <2> QED BY <1>2, <2>2 DEF Result, Frames
<1>7. (Len(begun) <= 1 /\ Heard(a) =>
           /\ reader.last_id + 1 + Len(wire.frames) <= Yielded
           /\ Whole(o) => Yielded = reader.last_id + 1 + Len(wire.frames))
  <2> SUFFICES ASSUME Len(begun) <= 1, Heard(a)
               PROVE  /\ reader.last_id + 1 + Len(wire.frames) <= Yielded
                      /\ Whole(o) => Yielded = reader.last_id + 1 + Len(wire.frames)
    OBVIOUS
  <2>1. reader.at = "reading" /\ a = reader.attempt
    BY DEF Heard, StreamInv, CurrentInv
  <2>2. Yielded = reader.last_id + 1 + Len(wire.frames)
    BY <1>4, <2>1 DEF StreamInv, OnceInv, InFlight
  <2>3. Yielded \in Int
    BY YieldedType, StreamsConstants
  <2> QED BY <2>2, <2>3
<1> QED BY <1>4, <1>5, <1>6, <1>7, LastFrameKeeps

LEMMA EndExecutionKeeps ==
    ASSUME StreamInv, NEW a \in Tries, NEW outcome \in Outcomes, EndExecution(a, outcome)
    PROVE  StreamInv'
<1>1. PICK run : run = serving[a].run
  OBVIOUS
<1>2. PICK t : t = [at |-> "ending", run |-> run, outcome |-> outcome]
  OBVIOUS
<1>3. PICK row : row = RowOf(run, outcome)
  OBVIOUS
<1>4. /\ serving[a].at = "running"
      /\ recorded' = IF recorded = NoRow THEN row ELSE recorded
      /\ ServingAt(a, t) /\ UNCHANGED <<reader, wire, begun>>
  BY <1>1, <1>2, <1>3 DEF EndExecution
<1>5. t.at = "ending" /\ t.run = run
  BY <1>2
<1>6. /\ serving' = [b \in Tries |-> serving'[b]]
      /\ serving'[a] = t
      /\ \A b \in Tries : b # a => serving'[b] = serving[b]
      /\ CurrentInv'
      /\ Cardinality(Beyond) \in Nat
      /\ Cardinality(Beyond') \in Nat
      /\ Cardinality(Beyond) <= Cardinality(Beyond')
      /\ a \in Nat
      /\ reader.attempt \in Tries
      /\ a <= reader.attempt
      /\ reader.attempt \in Nat
  BY <1>4, <1>5, ServingMoves
<1>7. run \in DOMAIN begun
  BY <1>1, <1>4 DEF StreamInv, StreamTyped, ServingsTyped, ServingTyped
<1>8. begun \in Seq(0..MaxDeltas) /\ MaxDeltas \in Nat
  BY StreamsConstants DEF StreamInv, StreamTyped
<1>9. run \in Nat \ {0} /\ begun[run] \in 0..MaxDeltas
  BY <1>7, <1>8
<1>10. /\ row \in Rows /\ row # NoRow /\ row.run = run /\ row.outcome = outcome
  <2>1. row = [run |-> run, outcome |-> outcome,
               chunks |-> IF outcome = "success" /\ begun[run] <= ChunkCap THEN begun[run] ELSE 0]
    BY <1>3 DEF RowOf
  <2>2. row.run = run /\ row.outcome = outcome /\ row \in Rows
    BY <1>8, <1>9, <2>1 DEF Rows
  <2>3. row # NoRow
    BY <1>9, <2>2 DEF NoRow
  <2> QED BY <2>2, <2>3
<1>11. recorded' # NoRow /\ recorded' \in Rows
  BY <1>4, <1>10 DEF StreamInv, StreamTyped
<1>12. StreamTyped'
  <2>1. ServingTyped(t)
    BY <1>2, <1>9 DEF ServingTyped
  <2>2. ServingsTyped'
    BY <1>4, <1>6, <2>1 DEF StreamInv, StreamTyped, ServingsTyped, ServingTyped
  <2> QED BY <1>4, <1>11, <2>2 DEF StreamInv, StreamTyped
<1>13. NumbersInv'
  <2>1. Len(begun') <= Cardinality(Beyond')
    <3>1. Len(begun) \in Nat /\ Len(begun) <= Cardinality(Beyond)
      BY DEF StreamInv, StreamTyped, NumbersInv
    <3> QED BY <1>4, <1>6, <3>1
  <2>2. \A b \in Tries : serving'[b].at \in {"gate", "running"} =>
            serving'[b].resume >= -1 /\ serving'[b].resume <= Bound(b)
    BY <1>5, <1>6 DEF StreamInv, NumbersInv
  <2> QED BY <1>4, <2>1, <2>2 DEF StreamInv, NumbersInv
<1>14. RecordInv'
  <2>1. RecordInv
    BY DEF StreamInv
  <2>2. \A b, c \in Tries :
           b # c /\ serving'[b].at = "running" /\ serving'[c].at = "running" =>
               serving'[b].run # serving'[c].run
    BY <1>5, <1>6, <2>1 DEF RecordInv
  <2>3. /\ recorded'.run \in DOMAIN begun
        /\ recorded' = RowOf(recorded'.run, recorded'.outcome)
    <3>1. CASE recorded = NoRow
      BY <1>3, <1>4, <1>7, <1>10, <3>1
    <3>2. CASE recorded # NoRow
      BY <1>4, <2>1, <3>2 DEF RecordInv
    <3> QED BY <3>1, <3>2
  <2>4. \A b \in Tries : serving'[b].at = "running" => serving'[b].run # recorded'.run
    <3>1. \A b \in Tries : serving'[b].at = "running" => serving'[b].run # run
      BY <1>1, <1>4, <1>5, <1>6, <2>1 DEF RecordInv
    <3>2. CASE recorded = NoRow
      BY <1>4, <1>10, <3>1, <3>2
    <3>3. CASE recorded # NoRow
      BY <1>4, <1>5, <1>6, <2>1, <3>3 DEF RecordInv
    <3> QED BY <3>2, <3>3
  <2>5. reader.attempt = 0 => serving'[0].at = "ending"
    BY <1>5, <1>6
  <2> QED BY <1>4, <1>11, <2>2, <2>3, <2>4, <2>5 DEF RecordInv, RowOf
<1>15. Len(begun') <= 1 => OnceInv'
  <2> SUFFICES ASSUME Len(begun) <= 1 PROVE OnceInv'
    BY <1>4
  <2>1. OnceInv
    BY DEF StreamInv
  <2>2. Yielded' = Yielded
    BY <1>4 DEF Yielded
  <2>3. reader.at # "returned"
    BY <1>4, RunsAlone
  <2>4. \A b \in Tries : serving'[b].at = "running"
            \/ (serving'[b].at = "gate" /\ begun' = <<>>) => serving'[b].resume = -1
    BY <1>4, <1>5, <1>6, <2>1 DEF OnceInv
  <2>5. reader.at = "reading" => InFlight(serving[reader.attempt], Len(wire.frames))'
    <3>1. CASE a = reader.attempt
      <4>1. serving'[reader'.attempt] = t
        BY <1>4, <1>6, <3>1
      <4>2. reader.at = "reading" => Yielded = reader.last_id + 1 + Len(wire.frames)
        BY <1>4, <2>1, <3>1 DEF OnceInv, InFlight
      <4> QED BY <1>4, <1>5, <2>2, <4>1, <4>2 DEF InFlight
    <3>2. CASE a # reader.attempt
      <4>1. serving'[reader'.attempt] = serving[reader.attempt]
        BY <1>4, <1>6, <3>2
      <4> QED BY <1>4, <2>1, <2>2, <4>1 DEF OnceInv, InFlight, Whole
    <3> QED BY <3>1, <3>2
  <2>6. serving[reader.attempt].at = "ended" => serving'[reader'.attempt].at = "ended"
    BY <1>4, <1>6
  <2>7. \A n \in DOMAIN wire'.frames :
           \/ wire'.frames[n] = Chunk(reader.last_id + n, 1, reader.last_id + n)
           \/ /\ wire'.frames[n].event = "result"
              /\ n = Len(wire'.frames)
              /\ serving'[reader'.attempt].at = "ended"
    BY <1>4, <2>1, <2>6 DEF OnceInv
  <2> QED BY <1>4, <2>1, <2>2, <2>3, <2>4, <2>5, <2>7 DEF OnceInv
<1> QED BY <1>6, <1>12, <1>13, <1>14, <1>15 DEF StreamInv

-----------------------------------------------------------------------------
LEMMA StreamStep ==
    ASSUME StreamInv, [StreamNext]_streamVars
    PROVE  StreamInv'
<1>1. CASE Reader
  <2>1. CASE InvokeStream
    BY <2>1, InvokeStreamKeeps
  <2>2. CASE Request
    BY <2>2, RequestKeeps
  <2>3. CASE Disconnect
    BY <2>3, DisconnectKeeps
  <2>4. CASE ReadChunk
    BY <2>4, ReadChunkKeeps
  <2>5. CASE ReadResult
    BY <2>5, ReadResultKeeps
  <2> QED BY <1>1, <2>1, <2>2, <2>3, <2>4, <2>5 DEF Reader
<1>2. CASE ServerFalls
  BY <1>2, ServerFallsKeeps
<1>3. ASSUME NEW a \in Tries, Server(a)
      PROVE  StreamInv'
  <2>1. CASE Execute(a)
    BY <2>1, ExecuteKeeps
  <2>2. CASE Replay(a)
    BY <2>2, ReplayKeeps
  <2>3. CASE Yield(a)
    BY <2>3, YieldKeeps
  <2>4. CASE ReplayChunk(a)
    BY <2>4, ReplayChunkKeeps
  <2>5. CASE ReplayResult(a)
    BY <2>5, ReplayResultKeeps
  <2>6. CASE HeadersFail(a)
    BY <2>6, HeadersFailKeeps
  <2>7. ASSUME NEW outcome \in Outcomes, EndExecution(a, outcome)
        PROVE  StreamInv'
    BY <2>7, EndExecutionKeeps
  <2>8. CASE SendResult(a)
    BY <2>8, SendResultKeeps
  <2> QED BY <1>3, <2>1, <2>2, <2>3, <2>4, <2>5, <2>6, <2>7, <2>8 DEF Server
<1>4. CASE UNCHANGED streamVars
  <2>1. UNCHANGED <<reader, wire, serving, recorded, begun>>
    BY <1>4 DEF streamVars
  <2>2. StreamTyped'
    BY <2>1 DEF StreamInv, StreamTyped, ServingsTyped, ServingTyped
  <2>3. CurrentInv'
    BY <2>1 DEF StreamInv, CurrentInv
  <2>4. NumbersInv'
    BY <2>1 DEF StreamInv, NumbersInv, Beyond
  <2>5. RecordInv'
    BY <2>1 DEF StreamInv, RecordInv, RowOf
  <2>6. Len(begun') <= 1 => OnceInv'
    BY <2>1 DEF StreamInv, OnceInv, InFlight, Yielded, Whole
  <2> QED BY <2>2, <2>3, <2>4, <2>5, <2>6 DEF StreamInv
<1> QED BY <1>1, <1>2, <1>3, <1>4 DEF StreamNext

LEMMA StreamInvSafe == StreamInv => StreamSafe
<1> SUFFICES ASSUME StreamInv PROVE StreamSafe
  OBVIOUS
<1>1. /\ reader \in Readers /\ reader.attempt \in Tries
      /\ reader.last_id \in Int /\ reader.last_id >= -1 /\ reader.got \in Seq(Nat \X Nat)
  BY DEF StreamInv, StreamTyped, Readers
<1>2. begun \in Seq(0..MaxDeltas) /\ MaxDeltas \in Nat /\ MaxReconnects \in Nat
  BY StreamsConstants DEF StreamInv, StreamTyped
<1>3. StreamTypeOK
  <2>1. reader.at \in {"idle", "calling", "reading", "returned", "raised"}
    BY <1>1 DEF Readers
  <2>2. reader.last_id \in -1..(MaxReconnects + 1) * (MaxDeltas + 1)
    <3>1. PICK n : n = reader.attempt + 1
      OBVIOUS
    <3>2. n \in Nat /\ n <= MaxReconnects + 1
      BY <1>1, <1>2, <3>1 DEF Tries
    <3>3. PICK d : d = MaxReconnects + 1 - n
      OBVIOUS
    <3>4. d \in Nat /\ MaxReconnects + 1 = n + d
      BY <1>2, <3>2, <3>3
    <3>5. (n + d) * (MaxDeltas + 1) = n * MaxDeltas + n + d * (MaxDeltas + 1)
      BY <1>2, <3>2, <3>4
    <3>6. d * (MaxDeltas + 1) \in Nat /\ n * MaxDeltas \in Nat
      BY <1>2, <3>2, <3>4
    <3>7. reader.last_id <= n * MaxDeltas - 1
      BY <3>1 DEF StreamInv, NumbersInv, Bound
    <3>8. (MaxReconnects + 1) * (MaxDeltas + 1) \in Nat
      BY <1>2
    <3>9. (MaxReconnects + 1) * (MaxDeltas + 1) = n * MaxDeltas + n + d * (MaxDeltas + 1)
      BY <3>4, <3>5
    <3>10. reader.last_id <= (MaxReconnects + 1) * (MaxDeltas + 1)
      BY <1>1, <3>2, <3>6, <3>7, <3>8, <3>9
    <3> QED BY <1>1, <3>8, <3>10
  <2>3. \A a \in Tries : serving[a].at \in {"none", "ended", "closed", "dead"} \cup Live
    BY DEF StreamInv, StreamTyped, ServingsTyped, ServingTyped, Live
  <2>4. recorded.run \in 0..Len(begun)
    <3>1. CASE recorded = NoRow
      BY <1>2, <3>1 DEF NoRow
    <3>2. CASE recorded # NoRow
      <4>1. recorded.run \in DOMAIN begun
        BY <3>2 DEF StreamInv, RecordInv
      <4> QED BY <1>2, <4>1
    <3> QED BY <3>1, <3>2
  <2>5. Len(begun) <= MaxReconnects + 1
    <3>1. Len(begun) \in Nat /\ Len(begun) <= Cardinality(Beyond)
      BY <1>2 DEF StreamInv, NumbersInv
    <3> QED BY <1>2, <3>1, TriesFinite
  <2>6. \A n \in DOMAIN begun : begun[n] \in 0..MaxDeltas
    BY <1>2
  <2> QED BY <1>1, <2>1, <2>2, <2>3, <2>4, <2>5, <2>6 DEF StreamTypeOK
<1>4. SeamlessOnceExecuted
  <2> SUFFICES ASSUME Len(begun) = 1 PROVE Seamless
    BY DEF SeamlessOnceExecuted
  <2>1. reader.got = Deltas(1, reader.last_id + 1)
    BY DEF StreamInv, OnceInv
  <2>2. PICK k : k = reader.last_id + 1
    OBVIOUS
  <2>3. k \in Nat /\ reader.got = Deltas(1, k)
    BY <1>1, <2>1, <2>2
  <2>4. Len(reader.got) = k
    BY <2>3 DEF Deltas
  <2>5. reader.got = Deltas(1, Len(reader.got))
    BY <2>3, <2>4
  <2>6. 1 \in DOMAIN begun \cup {1}
    OBVIOUS
  <2> QED BY <2>5, <2>6 DEF Seamless
<1>5. CompleteOnceExecuted
  <2> SUFFICES ASSUME Len(begun) = 1, reader.at = "returned",
                      reader.result.outcome = "success",
                      reader.attempt > 0 => begun[1] <= ChunkCap
               PROVE  reader.got = Deltas(1, begun[1])
    BY DEF CompleteOnceExecuted
  <2>1. Yielded = begun[1]
    <3>1. ASSUME begun = <<>> PROVE FALSE
      <4>1. Len(<<>>) = 0
        OBVIOUS
      <4>2. Len(<<>>) = 1
        BY <3>1
      <4> QED BY <4>1, <4>2
    <3> QED BY <3>1 DEF Yielded
  <2>2. Whole(reader.result.outcome)
    BY <2>1 DEF Whole
  <2>3. OnceInv
    BY DEF StreamInv
  <2>4. begun[1] = reader.last_id + 1
    BY <2>1, <2>2, <2>3 DEF OnceInv
  <2> QED BY <2>3, <2>4 DEF OnceInv
<1> QED BY <1>3, <1>4, <1>5 DEF StreamSafe

\* However many reconnections, deltas and restarts of the server: of an identifier
\* that was executed once, what the caller got is the beginning of what was yielded,
\* nothing missing and nothing twice, and a successful end comes after all of it
\* unless it was too long to keep (http.py invoke_stream and _invoke_stream,
\* host.py ainvoke_stream).
THEOREM StreamStaysSafe == StreamSpec => []StreamSafe
<1>1. StreamInit => StreamInv
  BY StreamStarts
<1>2. StreamInv /\ [StreamNext]_streamVars => StreamInv'
  BY StreamStep
<1>3. StreamInv => StreamSafe
  BY StreamInvSafe
<1> QED BY <1>1, <1>2, <1>3, PTL DEF StreamSpec

=============================================================================
