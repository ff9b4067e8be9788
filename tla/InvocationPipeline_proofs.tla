----------------------- MODULE InvocationPipeline_proofs -----------------------
(***************************************************************************)
(* Proofs about InvocationPipeline, for any number of calls, any requests, *)
(* any interleaving and any of the faults; the last parts are about        *)
(* callers that wait for an answer before they send the next call.         *)
(***************************************************************************)
EXTENDS InvocationPipeline, FiniteSetTheorems, SequenceTheorems, TLAPS

\* Appending an event keeps a trail a sequence of event kinds.
LEMMA EmitType ==
    ASSUME NEW c \in Calls, NEW kind \in Kinds,
           trail \in [Calls -> Seq(Kinds)]
    PROVE  [trail EXCEPT ![c] = Append(@, kind)] \in [Calls -> Seq(Kinds)]
<1>1. Append(trail[c], kind) \in Seq(Kinds)
    BY AppendProperties
<1> QED
    BY <1>1

\* What the envelope of a delivered call holds.
LEMMA RequestType ==
    ASSUME TypeOK, NEW c \in Calls, at[c] # "waiting"
    PROVE  /\ Inv(c) \in Invocations
           /\ request[c].mandate \in Mandates \cup {NoMandate}
           /\ request[c].approval \in Approvals \cup {NoGrant}
<1>1. request[c] \in Envelopes
    BY PipelineConstants DEF TypeOK, PipelineConstants
<1> QED
    BY <1>1 DEF Envelopes, Inv

\* Every outcome has an event kind.
LEMMA EventType ==
    ASSUME NEW o
    PROVE  EventOf(o) \in Terminals
<1>1. CASE o = "success"
    BY <1>1 DEF EventOf, Terminals
<1>2. CASE o = "failure"
    BY <1>2 DEF EventOf, Terminals
<1>3. CASE o = "indeterminate"
    BY <1>3 DEF EventOf, Terminals
<1>4. CASE o = "skipped"
    BY <1>4 DEF EventOf, Terminals
<1>5. CASE o \notin {"success", "failure", "indeterminate", "skipped"}
    BY <1>5 DEF EventOf, Terminals
<1> QED
    BY <1>1, <1>2, <1>3, <1>4, <1>5

\* Where a step of a call leads to, and what it leaves alone.
LEMMA StepMoves ==
    ASSUME NEW c \in Calls, Step(c)
    PROVE  /\ at[c] # "waiting"
           /\ \E l \in Locations \ {"waiting"} : Go(c, l)
           /\ request' = request
           /\ lapsed' = lapsed
<1>1. CASE Lookup(c)
    BY <1>1 DEF Lookup, Pass, PureGate, Refuse, shared, Locations
<1>2. CASE DropStaleDenial(c)
    BY <1>2 DEF DropStaleDenial, Pass, PureGate, Refuse, shared, Locations
<1>3. CASE EarlyGates(c)
    BY <1>3 DEF EarlyGates, Pass, PureGate, Refuse, shared, Locations
<1>4. CASE SeeMandateUse(c)
    BY <1>4 DEF SeeMandateUse, Pass, PureGate, Refuse, shared, Locations
<1>5. CASE CountMandateUses(c)
    BY <1>5 DEF CountMandateUses, Pass, PureGate, Refuse, shared, Locations
<1>6. CASE RecordMandateUse(c)
    BY <1>6 DEF RecordMandateUse, Pass, PureGate, Refuse, shared, Locations
<1>7. CASE PolicyGates(c)
    BY <1>7 DEF PolicyGates, Pass, PureGate, Refuse, shared, Locations
<1>8. CASE Authorize(c)
    BY <1>8 DEF Authorize, Pass, PureGate, Refuse, shared, Locations
<1>9. CASE Consume(c)
    BY <1>9 DEF Consume, Pass, PureGate, Refuse, shared, Locations
<1>10. CASE AutonomyGate(c)
    BY <1>10 DEF AutonomyGate, Pass, PureGate, Refuse, shared, Locations
<1>11. CASE SafetyGates(c)
    BY <1>11 DEF SafetyGates, Pass, PureGate, Refuse, shared, Locations
<1>12. CASE Deny(c)
    BY <1>12 DEF Deny, Pass, PureGate, Refuse, shared, Locations
<1>13. CASE Start(c)
    BY <1>13 DEF Start, Pass, PureGate, Refuse, shared, Locations
<1>14. CASE RunHandler(c)
    BY <1>14 DEF RunHandler, Pass, PureGate, Refuse, shared, Locations
<1>15. CASE Finish(c)
    BY <1>15 DEF Finish, Pass, PureGate, Refuse, shared, Locations
<1>16. CASE RecordResult(c)
    BY <1>16 DEF RecordResult, Pass, PureGate, Refuse, shared, Locations
<1> QED
    BY <1>1, <1>2, <1>3, <1>4, <1>5, <1>6, <1>7, <1>8, <1>9, <1>10, <1>11,
       <1>12, <1>13, <1>14, <1>15, <1>16 DEF Step

\* A call that carries an outcome to a caller or to the record has one, and a call
\* about to consume a grant presents one.
Carries ==
    \A c \in Calls :
        /\ at[c] \in {"denying", "record", "done"} => outcome[c] \in Outcomes
        /\ at[c] = "consume" => request[c].approval \in Approvals
        /\ at[c] = "ran" => outcome[c] \in Outcomes \cup {"bad_output"}

\* Each step of a call keeps the outcomes typed.
LEMMA StepOutcome ==
    ASSUME TypeOK, Carries, NEW c \in Calls, Step(c)
    PROVE  /\ outcome' \in [Calls -> Outcomes \cup {None, "bad_output"}]
           /\ Carries'
<1> USE DEF TypeOK, Carries
<1>1. CASE Lookup(c)
    BY <1>1, RequestType DEF Lookup, Go, Pass, Conclude, shared, None, Outcomes
<1>2. CASE DropStaleDenial(c)
    BY <1>2 DEF DropStaleDenial, Go, Pass, PureGate, Refuse, Conclude, Outcomes
<1>3. CASE EarlyGates(c)
    BY <1>3 DEF EarlyGates, Go, Pass, PureGate, Refuse, Conclude, Outcomes
<1>4. CASE SeeMandateUse(c)
    BY <1>4 DEF SeeMandateUse, Go, Pass, PureGate, Refuse, Conclude, Outcomes
<1>5. CASE CountMandateUses(c)
    BY <1>5 DEF CountMandateUses, Go, Pass, PureGate, Refuse, Conclude, Outcomes
<1>6. CASE RecordMandateUse(c)
    BY <1>6 DEF RecordMandateUse, Go, Pass, PureGate, Refuse, Conclude, Outcomes
<1>7. CASE PolicyGates(c)
    BY <1>7 DEF PolicyGates, Go, Pass, PureGate, Refuse, Conclude, Outcomes
<1>8. CASE Authorize(c)
    BY <1>8, RequestType DEF Authorize, Go, Pass, PureGate, Refuse, Conclude, Outcomes, shared
<1>9. CASE Consume(c)
    BY <1>9 DEF Consume, Go, Pass, PureGate, Refuse, Conclude, Outcomes
<1>10. CASE AutonomyGate(c)
    BY <1>10 DEF AutonomyGate, Go, Pass, PureGate, Refuse, Conclude, Outcomes
<1>11. CASE SafetyGates(c)
    BY <1>11 DEF SafetyGates, Go, Pass, PureGate, Refuse, Conclude, Outcomes
<1>12. CASE Deny(c)
    BY <1>12 DEF Deny, Go, Pass, PureGate, Refuse, Conclude, Outcomes
<1>13. CASE Start(c)
    BY <1>13 DEF Start, Go, Pass, PureGate, Refuse, Conclude, Outcomes
<1>14. CASE RunHandler(c)
    BY <1>14, PipelineConstants DEF RunHandler, Go, Conclude, PipelineConstants, Outcomes
<1>15. CASE Finish(c)
    BY <1>15 DEF Finish, Go, Pass, PureGate, Refuse, Conclude, Outcomes
<1>16. CASE RecordResult(c)
    BY <1>16 DEF RecordResult, Go
<1> QED
    BY <1>1, <1>2, <1>3, <1>4, <1>5, <1>6, <1>7, <1>8, <1>9, <1>10, <1>11,
       <1>12, <1>13, <1>14, <1>15, <1>16 DEF Step

\* Each step of a call keeps its trail a sequence of event kinds.
LEMMA StepTrail ==
    ASSUME TypeOK, NEW c \in Calls, Step(c)
    PROVE  trail' \in [Calls -> Seq(Kinds)]
<1> USE DEF TypeOK
<1>1. CASE Lookup(c)
    BY <1>1 DEF Lookup, shared
<1>2. CASE DropStaleDenial(c)
    BY <1>2 DEF DropStaleDenial, shared
<1>3. CASE EarlyGates(c)
    BY <1>3 DEF EarlyGates, shared
<1>4. CASE SeeMandateUse(c)
    BY <1>4 DEF SeeMandateUse, shared
<1>5. CASE CountMandateUses(c)
    BY <1>5 DEF CountMandateUses, shared
<1>6. CASE RecordMandateUse(c)
    BY <1>6 DEF RecordMandateUse, shared
<1>7. CASE PolicyGates(c)
    BY <1>7 DEF PolicyGates, shared
<1>8. CASE Authorize(c)
    BY <1>8 DEF Authorize, shared
<1>9. CASE Consume(c)
    BY <1>9 DEF Consume, shared
<1>10. CASE AutonomyGate(c)
  <2>1. \/ trail' = trail
        \/ trail' = [trail EXCEPT ![c] = Append(@, "budget_exceeded")]
        \/ trail' = [trail EXCEPT ![c] = Append(@, "approval_grant_verified")]
        \/ trail' = [trail EXCEPT ![c] = Append(@, "approval_requested")]
    BY <1>10 DEF AutonomyGate, Emit
  <2>2. CASE trail' = [trail EXCEPT ![c] = Append(@, "budget_exceeded")]
    BY <2>2, EmitType DEF Kinds
  <2>3. CASE trail' = [trail EXCEPT ![c] = Append(@, "approval_grant_verified")]
    BY <2>3, EmitType DEF Kinds
  <2>4. CASE trail' = [trail EXCEPT ![c] = Append(@, "approval_requested")]
    BY <2>4, EmitType DEF Kinds
  <2> QED
    BY <2>1, <2>2, <2>3, <2>4
<1>11. CASE SafetyGates(c)
    BY <1>11 DEF SafetyGates, shared
<1>12. CASE Deny(c)
    BY <1>12, EmitType, EventType DEF Deny, Emit, Terminals, Kinds
<1>13. CASE Start(c)
    BY <1>13, EmitType DEF Start, Emit, Kinds
<1>14. CASE RunHandler(c)
    BY <1>14 DEF RunHandler, shared
<1>15. CASE Finish(c)
    BY <1>15, EmitType, EventType DEF Finish, Emit, Terminals, Kinds
<1>16. CASE RecordResult(c)
    BY <1>16 DEF RecordResult, shared
<1> QED
    BY <1>1, <1>2, <1>3, <1>4, <1>5, <1>6, <1>7, <1>8, <1>9, <1>10, <1>11,
       <1>12, <1>13, <1>14, <1>15, <1>16 DEF Step

\* Each step of a call keeps the tables typed.
LEMMA StepTables ==
    ASSUME TypeOK, Carries, NEW c \in Calls, Step(c)
    PROVE  /\ seen' \in [Calls -> BOOLEAN]
           /\ effects' \subseteq Calls
           /\ results' \in [Invocations -> Outcomes \cup {None}]
           /\ used' \in [Mandates -> SUBSET Invocations]
           /\ consumed' \subseteq Approvals
<1> USE DEF TypeOK
<1>1. CASE Lookup(c)
    BY <1>1, RequestType DEF Lookup, shared
<1>2. CASE DropStaleDenial(c)
    BY <1>2, RequestType DEF DropStaleDenial, shared
<1>3. CASE EarlyGates(c)
    BY <1>3, RequestType DEF EarlyGates, shared
<1>4. CASE SeeMandateUse(c)
    BY <1>4, RequestType DEF SeeMandateUse, shared
<1>5. CASE CountMandateUses(c)
    BY <1>5, RequestType DEF CountMandateUses, shared
<1>6. CASE RecordMandateUse(c)
    BY <1>6, RequestType DEF RecordMandateUse, Carries, Refuse, Pass, Inv
<1>7. CASE PolicyGates(c)
    BY <1>7, RequestType DEF PolicyGates, shared
<1>8. CASE Authorize(c)
    BY <1>8, RequestType DEF Authorize, shared
<1>9. CASE Consume(c)
    BY <1>9, RequestType DEF Consume, Carries, Refuse, Pass, Inv
<1>10. CASE AutonomyGate(c)
    BY <1>10, RequestType DEF AutonomyGate, shared
<1>11. CASE SafetyGates(c)
    BY <1>11, RequestType DEF SafetyGates, shared
<1>12. CASE Deny(c)
    BY <1>12, RequestType DEF Deny, shared
<1>13. CASE Start(c)
    BY <1>13, RequestType DEF Start, shared
<1>14. CASE RunHandler(c)
    BY <1>14, RequestType DEF RunHandler, shared
<1>15. CASE Finish(c)
    BY <1>15, RequestType DEF Finish, shared
<1>16. CASE RecordResult(c)
    BY <1>16, RequestType DEF RecordResult, Carries, Refuse, Pass, Inv
<1> QED
    BY <1>1, <1>2, <1>3, <1>4, <1>5, <1>6, <1>7, <1>8, <1>9, <1>10, <1>11,
       <1>12, <1>13, <1>14, <1>15, <1>16 DEF Step

\* Type correctness, with what the calls carry, is inductive.
TypeInv == TypeOK /\ Carries

\* Each step of a call preserves it.
LEMMA StepType ==
    ASSUME TypeInv, NEW c \in Calls, Step(c)
    PROVE  TypeInv'
<1>1. at[c] # "waiting" /\ request' = request /\ lapsed' = lapsed
    BY StepMoves
<1>2. PICK l \in Locations \ {"waiting"} : Go(c, l)
    BY StepMoves
<1>3. /\ at' \in [Calls -> Locations]
      /\ \A d \in Calls : at'[d] # "waiting" => request'[d] \in Requests
    BY <1>1, <1>2 DEF Go, TypeInv, TypeOK
<1>4. outcome' \in [Calls -> Outcomes \cup {None, "bad_output"}] /\ Carries'
    BY StepOutcome DEF TypeInv
<1>5. trail' \in [Calls -> Seq(Kinds)]
    BY StepTrail DEF TypeInv
<1>6. /\ seen' \in [Calls -> BOOLEAN]
      /\ effects' \subseteq Calls
      /\ results' \in [Invocations -> Outcomes \cup {None}]
      /\ used' \in [Mandates -> SUBSET Invocations]
      /\ consumed' \subseteq Approvals
    BY StepTables DEF TypeInv
<1> QED
    BY <1>1, <1>3, <1>4, <1>5, <1>6 DEF TypeInv, TypeOK

\* Type correctness survives every step.
LEMMA NextType ==
    ASSUME TypeInv, [Next]_vars
    PROVE  TypeInv'
<1> USE DEF TypeInv, TypeOK, Carries
<1>1. ASSUME NEW c \in Calls, Deliver(c)
      PROVE  TypeInv'
    BY <1>1 DEF Deliver, Go, Locations, shared
<1>2. ASSUME NEW c \in Calls, Step(c)
      PROVE  TypeInv'
    BY <1>2, StepType
<1>3. ASSUME NEW c \in Calls, StoreTrouble(c)
      PROVE  TypeInv'
    BY <1>3 DEF StoreTrouble, Go, Pass, Conclude, Locations, Outcomes, shared
<1>4. ASSUME NEW c \in Calls, CloseStream(c)
      PROVE  TypeInv'
    BY <1>4 DEF CloseStream, Go, Pass, Locations, shared
<1>5. CASE Crash
    BY <1>5 DEF Crash, Live, Locations
<1>6. CASE Expire
    BY <1>6 DEF Expire, None
<1>7. CASE UNCHANGED vars
    BY <1>7 DEF vars
<1> QED
    BY <1>1, <1>2, <1>3, <1>4, <1>5, <1>6, <1>7 DEF Next

\* It holds initially ...
LEMMA InitType == Init => TypeInv
    BY DEF Init, TypeInv, TypeOK, Carries, Locations, Outcomes, None, Kinds

\* ... and hence always.
LEMMA TypeInvariance == Spec => []TypeInv
    BY InitType, NextType, PTL DEF Spec

\* Calls, tables and trails keep their types under every interleaving and fault.
THEOREM TypeCorrect == Spec => []TypeOK
    BY TypeInvariance, PTL DEF TypeInv

-----------------------------------------------------------------------------
(***************************************************************************)
(* The activation gate.  A call holds its grant from the step that consumed*)
(* it until after its effect; no two calls ever hold the same one, and a   *)
(* held grant is in the consumed set, which no step shrinks.               *)
(***************************************************************************)
Authorized == {"budget", "safety", "start", "running"}

Holds(c) == request[c].activation /\ (c \in effects \/ at[c] \in Authorized)

EffectsOver == \A c \in effects : at[c] \in {"ran", "record", "done", "dead"}

HeldIsSpent == \A c \in Calls : Holds(c) => request[c].approval \in consumed

OneHolder ==
    \A c, d \in Calls :
        (Holds(c) /\ Holds(d) /\ request[c].approval = request[d].approval) => c = d

GrantInv == EffectsOver /\ HeldIsSpent /\ OneHolder

\* A step after which only holders hold, and hold what they held, is harmless.
LEMMA NoNewHolder ==
    ASSUME HeldIsSpent, OneHolder, consumed \subseteq consumed',
           \A d \in Calls : Holds(d)' => Holds(d) /\ request'[d] = request[d]
    PROVE  HeldIsSpent' /\ OneHolder'
    BY DEF HeldIsSpent, OneHolder

\* The handler acts only in RunHandler, after which its call never runs again.
LEMMA StepEffects ==
    ASSUME TypeInv, EffectsOver, NEW c \in Calls, Step(c)
    PROVE  EffectsOver'
<1> USE DEF EffectsOver, TypeInv, TypeOK
<1>1. CASE Lookup(c)
    BY <1>1 DEF Lookup, Go, Pass, PureGate, Refuse, shared
<1>2. CASE DropStaleDenial(c)
    BY <1>2 DEF DropStaleDenial, Go, Pass, PureGate, Refuse, shared
<1>3. CASE EarlyGates(c)
    BY <1>3 DEF EarlyGates, Go, Pass, PureGate, Refuse, shared
<1>4. CASE SeeMandateUse(c)
    BY <1>4 DEF SeeMandateUse, Go, Pass, PureGate, Refuse, shared
<1>5. CASE CountMandateUses(c)
    BY <1>5 DEF CountMandateUses, Go, Pass, PureGate, Refuse, shared
<1>6. CASE RecordMandateUse(c)
    BY <1>6 DEF RecordMandateUse, Go, Pass, PureGate, Refuse, shared
<1>7. CASE PolicyGates(c)
    BY <1>7 DEF PolicyGates, Go, Pass, PureGate, Refuse, shared
<1>8. CASE Authorize(c)
    BY <1>8 DEF Authorize, Go, Pass, PureGate, Refuse, shared
<1>9. CASE Consume(c)
    BY <1>9 DEF Consume, Go, Pass, PureGate, Refuse, shared
<1>10. CASE AutonomyGate(c)
    BY <1>10 DEF AutonomyGate, Go, Pass, PureGate, Refuse, shared
<1>11. CASE SafetyGates(c)
    BY <1>11 DEF SafetyGates, Go, Pass, PureGate, Refuse, shared
<1>12. CASE Deny(c)
    BY <1>12 DEF Deny, Go, Pass, PureGate, Refuse, shared
<1>13. CASE Start(c)
    BY <1>13 DEF Start, Go, Pass, PureGate, Refuse, shared
<1>14. CASE RunHandler(c)
    BY <1>14 DEF RunHandler, Go, Pass, PureGate, Refuse, shared
<1>15. CASE Finish(c)
    BY <1>15 DEF Finish, Go, Pass, PureGate, Refuse, shared
<1>16. CASE RecordResult(c)
    BY <1>16 DEF RecordResult, Go, Pass, PureGate, Refuse, shared
<1> QED
    BY <1>1, <1>2, <1>3, <1>4, <1>5, <1>6, <1>7, <1>8, <1>9, <1>10, <1>11,
       <1>12, <1>13, <1>14, <1>15, <1>16 DEF Step

\* Only Consume makes a call a holder, and only of a grant nobody had consumed.
LEMMA StepGrants ==
    ASSUME TypeInv, GrantInv, NEW c \in Calls, Step(c)
    PROVE  HeldIsSpent' /\ OneHolder'
<1> USE DEF Holds, Authorized, TypeInv, TypeOK
<1>1. CASE Lookup(c)
    BY <1>1, NoNewHolder DEF GrantInv, Lookup, Go, Pass, PureGate, Refuse, shared
<1>2. CASE DropStaleDenial(c)
    BY <1>2, NoNewHolder DEF GrantInv, DropStaleDenial, Go, Pass, PureGate, Refuse, shared
<1>3. CASE EarlyGates(c)
    BY <1>3, NoNewHolder DEF GrantInv, EarlyGates, Go, Pass, PureGate, Refuse, shared
<1>4. CASE SeeMandateUse(c)
    BY <1>4, NoNewHolder DEF GrantInv, SeeMandateUse, Go, Pass, PureGate, Refuse, shared
<1>5. CASE CountMandateUses(c)
    BY <1>5, NoNewHolder DEF GrantInv, CountMandateUses, Go, Pass, PureGate, Refuse, shared
<1>6. CASE RecordMandateUse(c)
    BY <1>6, NoNewHolder DEF GrantInv, RecordMandateUse, Go, Pass, PureGate, Refuse, shared
<1>7. CASE PolicyGates(c)
    BY <1>7, NoNewHolder DEF GrantInv, PolicyGates, Go, Pass, PureGate, Refuse, shared
<1>8. CASE Authorize(c)
    BY <1>8, NoNewHolder DEF GrantInv, Authorize, Go, Pass, PureGate, Refuse, shared
<1>9. CASE Consume(c)
  <2>1. CASE consumed' = consumed
    BY <1>9, <2>1, NoNewHolder DEF GrantInv, Consume, Go, Pass, Refuse
  <2>2. CASE consumed' # consumed
    BY <1>9, <2>2 DEF GrantInv, HeldIsSpent, OneHolder, Consume, Go, Pass, Refuse
  <2> QED
    BY <2>1, <2>2
<1>10. CASE AutonomyGate(c)
    BY <1>10, NoNewHolder DEF GrantInv, AutonomyGate, Go, Pass, PureGate, Refuse, shared
<1>11. CASE SafetyGates(c)
    BY <1>11, NoNewHolder DEF GrantInv, SafetyGates, Go, Pass, PureGate, Refuse, shared
<1>12. CASE Deny(c)
    BY <1>12, NoNewHolder DEF GrantInv, Deny, Go, Pass, PureGate, Refuse, shared
<1>13. CASE Start(c)
    BY <1>13, NoNewHolder DEF GrantInv, Start, Go, Pass, PureGate, Refuse, shared
<1>14. CASE RunHandler(c)
    BY <1>14, NoNewHolder DEF GrantInv, RunHandler, Go, Pass, PureGate, Refuse, shared
<1>15. CASE Finish(c)
    BY <1>15, NoNewHolder DEF GrantInv, Finish, Go, Pass, PureGate, Refuse, shared
<1>16. CASE RecordResult(c)
    BY <1>16, NoNewHolder DEF GrantInv, RecordResult, Go, Pass, PureGate, Refuse, shared
<1> QED
    BY <1>1, <1>2, <1>3, <1>4, <1>5, <1>6, <1>7, <1>8, <1>9, <1>10, <1>11,
       <1>12, <1>13, <1>14, <1>15, <1>16 DEF Step

\* The grant invariant survives every step, as long as the ledger is durable.
LEMMA NextGrants ==
    ASSUME Durable, TypeInv, GrantInv, [Next]_vars
    PROVE  GrantInv'
<1> USE DEF TypeInv, TypeOK
<1>1. ASSUME NEW c \in Calls, Deliver(c)
      PROVE  GrantInv'
  <2>1. EffectsOver'
    BY <1>1 DEF GrantInv, EffectsOver, Deliver, Go, shared
  <2>2. \A d \in Calls : Holds(d)' => Holds(d) /\ request'[d] = request[d]
    BY <1>1 DEF GrantInv, EffectsOver, Deliver, Go, shared, Holds, Authorized
  <2> QED
    BY <1>1, <2>1, <2>2, NoNewHolder DEF GrantInv, Deliver, shared
<1>2. ASSUME NEW c \in Calls, Step(c)
      PROVE  GrantInv'
    BY <1>2, StepEffects, StepGrants DEF GrantInv
<1>3. ASSUME NEW c \in Calls, StoreTrouble(c)
      PROVE  GrantInv'
  <2>1. EffectsOver'
    BY <1>3 DEF GrantInv, EffectsOver, StoreTrouble, Go, Pass, Conclude, shared
  <2>2. \A d \in Calls : Holds(d)' => Holds(d) /\ request'[d] = request[d]
    BY <1>3 DEF StoreTrouble, Go, Pass, Conclude, shared, Holds, Authorized
  <2> QED
    BY <1>3, <2>1, <2>2, NoNewHolder DEF GrantInv, StoreTrouble, shared
<1>4. ASSUME NEW c \in Calls, CloseStream(c)
      PROVE  GrantInv'
  <2>1. EffectsOver'
    BY <1>4 DEF GrantInv, EffectsOver, CloseStream, Go, Pass, shared
  <2>2. \A d \in Calls : Holds(d)' => Holds(d) /\ request'[d] = request[d]
    BY <1>4 DEF CloseStream, Go, Pass, shared, Holds, Authorized
  <2> QED
    BY <1>4, <2>1, <2>2, NoNewHolder DEF GrantInv, CloseStream, shared
<1>5. CASE Crash
  <2>1. EffectsOver'
    BY <1>5 DEF GrantInv, EffectsOver, Crash, Live
  <2>2. \A d \in Calls : Holds(d)' => Holds(d) /\ request'[d] = request[d]
    BY <1>5 DEF Crash, Live, Holds, Authorized
  <2> QED
    BY <1>5, <2>1, <2>2, NoNewHolder DEF GrantInv, Crash
<1>6. CASE Expire
    BY <1>6, NoNewHolder DEF GrantInv, EffectsOver, Expire, Holds
<1>7. CASE UNCHANGED vars
    BY <1>7, NoNewHolder DEF GrantInv, EffectsOver, vars, Holds
<1> QED
    BY <1>1, <1>2, <1>3, <1>4, <1>5, <1>6, <1>7 DEF Next

\* With a durable ledger one approval_id pays for at most one effect.
THEOREM ActivationsSingleUse ==
    ASSUME Durable
    PROVE  Spec => []ActivationSingleUse
<1>1. Init => GrantInv
    BY DEF Init, GrantInv, EffectsOver, HeldIsSpent, OneHolder, Holds, Authorized
<1>2. TypeInv /\ GrantInv /\ [Next]_vars => GrantInv'
    BY NextGrants
<1>3. TypeInv /\ GrantInv => ActivationSingleUse
    BY DEF TypeInv, TypeOK, GrantInv, OneHolder, Holds, ActivationSingleUse
<1> QED
    BY <1>1, <1>2, <1>3, TypeInvariance, PTL DEF Spec

-----------------------------------------------------------------------------
(***************************************************************************)
(* The evidence of a recorded result: appended before the call reaches     *)
(* _record_result, and trails only grow.                                   *)
(***************************************************************************)
ReadyToRecord ==
    \A c \in Calls : at[c] = "record" => Emitted(c, EventOf(outcome[c]))

EvidenceInv == ReadyToRecord /\ RecordedHasEvidence

\* Appending adds the event and keeps the earlier ones.
LEMMA EmitKeeps ==
    ASSUME TypeOK, NEW c \in Calls, NEW kind \in Kinds,
           trail' = [trail EXCEPT ![c] = Append(@, kind)]
    PROVE  /\ Emitted(c, kind)'
           /\ \A d \in Calls : \A k : Emitted(d, k) => Emitted(d, k)'
<1>1. trail[c] \in Seq(Kinds)
    BY DEF TypeOK
<1>2. trail'[c] = Append(trail[c], kind)
    BY DEF TypeOK
<1>3. /\ Len(trail'[c]) = Len(trail[c]) + 1
      /\ \A n \in 1..Len(trail[c]) : trail'[c][n] = trail[c][n]
      /\ trail'[c][Len(trail[c]) + 1] = kind
      /\ trail'[c] \in Seq(Kinds)
    BY <1>1, <1>2, AppendProperties
<1>4. /\ DOMAIN trail[c] = 1..Len(trail[c])
      /\ DOMAIN trail'[c] = 1..(Len(trail[c]) + 1)
      /\ Len(trail[c]) \in Nat
    BY <1>1, <1>3
<1>5. Emitted(c, kind)'
  <2>1. Len(trail[c]) + 1 \in DOMAIN trail'[c]
    BY <1>4
  <2> QED
    BY <1>3, <2>1 DEF Emitted
<1>6. ASSUME NEW d \in Calls, NEW k, Emitted(d, k)
      PROVE  Emitted(d, k)'
  <2>1. CASE d = c
    <3>1. PICK n \in DOMAIN trail[c] : trail[c][n] = k
        BY <1>6, <2>1 DEF Emitted
    <3>2. n \in DOMAIN trail'[c] /\ trail'[c][n] = k
        BY <1>3, <1>4, <3>1
    <3> QED
        BY <2>1, <3>2 DEF Emitted
  <2>2. CASE d # c
    <3>1. trail'[d] = trail[d]
        BY <2>2 DEF TypeOK
    <3> QED
        BY <1>6, <3>1 DEF Emitted
  <2> QED
    BY <2>1, <2>2
<1> QED
    BY <1>5, <1>6

\* Each step of a call keeps every event of every trail.
LEMMA StepKeeps ==
    ASSUME TypeOK, NEW c \in Calls, Step(c)
    PROVE  \A d \in Calls : \A k : Emitted(d, k) => Emitted(d, k)'
<1>1. CASE Lookup(c)
    BY <1>1 DEF Lookup, Emitted, shared
<1>2. CASE DropStaleDenial(c)
    BY <1>2 DEF DropStaleDenial, Emitted, shared
<1>3. CASE EarlyGates(c)
    BY <1>3 DEF EarlyGates, Emitted, shared
<1>4. CASE SeeMandateUse(c)
    BY <1>4 DEF SeeMandateUse, Emitted, shared
<1>5. CASE CountMandateUses(c)
    BY <1>5 DEF CountMandateUses, Emitted, shared
<1>6. CASE RecordMandateUse(c)
    BY <1>6 DEF RecordMandateUse, Emitted, shared
<1>7. CASE PolicyGates(c)
    BY <1>7 DEF PolicyGates, Emitted, shared
<1>8. CASE Authorize(c)
    BY <1>8 DEF Authorize, Emitted, shared
<1>9. CASE Consume(c)
    BY <1>9 DEF Consume, Emitted, shared
<1>10. CASE AutonomyGate(c)
  <2>1. \/ trail' = trail
        \/ trail' = [trail EXCEPT ![c] = Append(@, "budget_exceeded")]
        \/ trail' = [trail EXCEPT ![c] = Append(@, "approval_grant_verified")]
        \/ trail' = [trail EXCEPT ![c] = Append(@, "approval_requested")]
    BY <1>10 DEF AutonomyGate, Emit
  <2>2. CASE trail' = trail
    BY <2>2 DEF Emitted
  <2>3. CASE trail' = [trail EXCEPT ![c] = Append(@, "budget_exceeded")]
    BY <2>3, EmitKeeps DEF Kinds
  <2>4. CASE trail' = [trail EXCEPT ![c] = Append(@, "approval_grant_verified")]
    BY <2>4, EmitKeeps DEF Kinds
  <2>5. CASE trail' = [trail EXCEPT ![c] = Append(@, "approval_requested")]
    BY <2>5, EmitKeeps DEF Kinds
  <2> QED
    BY <2>1, <2>2, <2>3, <2>4, <2>5
<1>11. CASE SafetyGates(c)
    BY <1>11 DEF SafetyGates, Emitted, shared
<1>12. CASE Deny(c)
    BY <1>12, EmitKeeps, EventType DEF Deny, Emit, Kinds
<1>13. CASE Start(c)
    BY <1>13, EmitKeeps DEF Start, Emit, Kinds
<1>14. CASE RunHandler(c)
    BY <1>14 DEF RunHandler, Emitted, shared
<1>15. CASE Finish(c)
    BY <1>15, EmitKeeps, EventType DEF Finish, Emit, Kinds
<1>16. CASE RecordResult(c)
    BY <1>16 DEF RecordResult, Emitted, shared
<1> QED
    BY <1>1, <1>2, <1>3, <1>4, <1>5, <1>6, <1>7, <1>8, <1>9, <1>10, <1>11,
       <1>12, <1>13, <1>14, <1>15, <1>16 DEF Step

\* A step that records nothing new leaves every recorded result its evidence.
LEMMA EvidencePersists ==
    ASSUME RecordedHasEvidence,
           \A i \in Invocations : results'[i] \in {None, results[i]},
           \A d \in Calls : at[d] # "waiting" =>
               at'[d] # "waiting" /\ request'[d] = request[d],
           \A d \in Calls : \A k : Emitted(d, k) => Emitted(d, k)'
    PROVE  RecordedHasEvidence'
<1> SUFFICES ASSUME NEW i \in Invocations, results'[i] # None
             PROVE  \E d \in Calls : /\ at'[d] # "waiting"
                                     /\ request'[d].inv = i
                                     /\ \E n \in DOMAIN trail'[d] :
                                           trail'[d][n] = EventOf(results'[i])
    BY DEF RecordedHasEvidence, Inv, Emitted
<1>1. results'[i] = results[i]
    OBVIOUS
<1>2. PICK d \in Calls : /\ at[d] # "waiting"
                         /\ request[d].inv = i
                         /\ Emitted(d, EventOf(results[i]))
    BY <1>1 DEF RecordedHasEvidence, Inv
<1>3. \E n \in DOMAIN trail'[d] : trail'[d][n] = EventOf(results[i])
  <2>1. ASSUME NEW k, Emitted(d, k)
        PROVE  \E n \in DOMAIN trail'[d] : trail'[d][n] = k
    BY <2>1 DEF Emitted
  <2> QED
    BY <1>2, <2>1
<1> QED
    BY <1>1, <1>2, <1>3

\* Each step of a call leads to _record_result only with the evidence appended.
LEMMA StepReady ==
    ASSUME TypeOK, ReadyToRecord, NEW c \in Calls, Step(c)
    PROVE  ReadyToRecord'
<1>k. \A d \in Calls : \A k : Emitted(d, k) => Emitted(d, k)'
    BY StepKeeps
<1> USE DEF TypeOK
<1>1. CASE Lookup(c)
    BY <1>1, <1>k DEF ReadyToRecord, Lookup, Go, Pass, PureGate, Refuse, Conclude, shared
<1>2. CASE DropStaleDenial(c)
    BY <1>2, <1>k DEF ReadyToRecord, DropStaleDenial, Go, Pass, PureGate, Refuse, Conclude, shared
<1>3. CASE EarlyGates(c)
    BY <1>3, <1>k DEF ReadyToRecord, EarlyGates, Go, Pass, PureGate, Refuse, Conclude, shared
<1>4. CASE SeeMandateUse(c)
    BY <1>4, <1>k DEF ReadyToRecord, SeeMandateUse, Go, Pass, PureGate, Refuse, Conclude, shared
<1>5. CASE CountMandateUses(c)
    BY <1>5, <1>k DEF ReadyToRecord, CountMandateUses, Go, Pass, PureGate, Refuse, Conclude, shared
<1>6. CASE RecordMandateUse(c)
    BY <1>6, <1>k DEF ReadyToRecord, RecordMandateUse, Go, Pass, PureGate, Refuse, Conclude, shared
<1>7. CASE PolicyGates(c)
    BY <1>7, <1>k DEF ReadyToRecord, PolicyGates, Go, Pass, PureGate, Refuse, Conclude, shared
<1>8. CASE Authorize(c)
    BY <1>8, <1>k DEF ReadyToRecord, Authorize, Go, Pass, PureGate, Refuse, Conclude, shared
<1>9. CASE Consume(c)
    BY <1>9, <1>k DEF ReadyToRecord, Consume, Go, Pass, PureGate, Refuse, Conclude, shared
<1>10. CASE AutonomyGate(c)
    BY <1>10, <1>k DEF ReadyToRecord, AutonomyGate, Go, Pass, PureGate, Refuse, Conclude, shared
<1>11. CASE SafetyGates(c)
    BY <1>11, <1>k DEF ReadyToRecord, SafetyGates, Go, Pass, PureGate, Refuse, Conclude, shared
<1>12. CASE Deny(c)
  <2>1. Emitted(c, EventOf(outcome[c]))'
    BY <1>12, EmitKeeps, EventType DEF Deny, Emit, Kinds
  <2> QED
    BY <1>12, <1>k, <2>1 DEF ReadyToRecord, Deny, Go
<1>13. CASE Start(c)
    BY <1>13, <1>k DEF ReadyToRecord, Start, Go, Pass, PureGate, Refuse, Conclude, shared
<1>14. CASE RunHandler(c)
    BY <1>14, <1>k DEF ReadyToRecord, RunHandler, Go, Pass, PureGate, Refuse, Conclude, shared
<1>15. CASE Finish(c)
  <2>1. CASE outcome[c] = "bad_output"
    BY <1>15, <1>k, <2>1 DEF ReadyToRecord, Finish, Go, Conclude
  <2>2. CASE outcome[c] # "bad_output"
    <3>1. outcome' = outcome
        BY <1>15, <2>2 DEF Finish, Pass
    <3>2. Emitted(c, EventOf(outcome[c]))'
        BY <1>15, <3>1, EmitKeeps, EventType DEF Finish, Emit, Kinds
    <3> QED
        BY <1>15, <1>k, <3>1, <3>2 DEF ReadyToRecord, Finish, Go, Pass
  <2> QED
    BY <2>1, <2>2
<1>16. CASE RecordResult(c)
    BY <1>16, <1>k DEF ReadyToRecord, RecordResult, Go, Pass, PureGate, Refuse, Conclude, shared
<1> QED
    BY <1>1, <1>2, <1>3, <1>4, <1>5, <1>6, <1>7, <1>8, <1>9, <1>10, <1>11,
       <1>12, <1>13, <1>14, <1>15, <1>16 DEF Step

\* Recording adds the outcome of a call whose evidence is appended.
LEMMA RecordEvidence ==
    ASSUME TypeOK, EvidenceInv, NEW c \in Calls, RecordResult(c)
    PROVE  RecordedHasEvidence'
<1>1. /\ \A d \in Calls : at[d] # "waiting" => at'[d] # "waiting"
      /\ request' = request
      /\ trail' = trail
    BY DEF RecordResult, Go, TypeOK
<1>2. SUFFICES ASSUME NEW i \in Invocations, results'[i] # None
               PROVE  \E d \in Calls : /\ at[d] # "waiting"
                                       /\ request[d].inv = i
                                       /\ \E n \in DOMAIN trail[d] :
                                             trail[d][n] = EventOf(results'[i])
    BY <1>1 DEF RecordedHasEvidence, Inv, Emitted
<1>3. CASE results'[i] = results[i]
    BY <1>2, <1>3 DEF EvidenceInv, RecordedHasEvidence, Inv, Emitted
<1>4. CASE results'[i] # results[i]
  <2>1. i = Inv(c) /\ results'[i] = outcome[c] /\ at[c] = "record"
    BY <1>4 DEF RecordResult, TypeOK
  <2>2. Emitted(c, EventOf(outcome[c]))
    BY <2>1 DEF EvidenceInv, ReadyToRecord
  <2> QED
    BY <2>1, <2>2 DEF Inv, Emitted
<1> QED
    BY <1>3, <1>4

\* No other step of a call changes a recorded result but to drop it.
LEMMA StepResults ==
    ASSUME TypeOK, NEW c \in Calls, Step(c), ~RecordResult(c)
    PROVE  \A i \in Invocations : results'[i] \in {None, results[i]}
<1> USE DEF TypeOK
<1>1. CASE Lookup(c)
    BY <1>1 DEF Lookup, shared
<1>2. CASE DropStaleDenial(c)
    BY <1>2 DEF DropStaleDenial, shared
<1>3. CASE EarlyGates(c)
    BY <1>3 DEF EarlyGates, shared
<1>4. CASE SeeMandateUse(c)
    BY <1>4 DEF SeeMandateUse, shared
<1>5. CASE CountMandateUses(c)
    BY <1>5 DEF CountMandateUses, shared
<1>6. CASE RecordMandateUse(c)
    BY <1>6 DEF RecordMandateUse, shared
<1>7. CASE PolicyGates(c)
    BY <1>7 DEF PolicyGates, shared
<1>8. CASE Authorize(c)
    BY <1>8 DEF Authorize, shared
<1>9. CASE Consume(c)
    BY <1>9 DEF Consume, shared
<1>10. CASE AutonomyGate(c)
    BY <1>10 DEF AutonomyGate, shared
<1>11. CASE SafetyGates(c)
    BY <1>11 DEF SafetyGates, shared
<1>12. CASE Deny(c)
    BY <1>12 DEF Deny, shared
<1>13. CASE Start(c)
    BY <1>13 DEF Start, shared
<1>14. CASE RunHandler(c)
    BY <1>14 DEF RunHandler, shared
<1>15. CASE Finish(c)
    BY <1>15 DEF Finish, shared
<1>16. CASE RecordResult(c)
    BY <1>16
<1> QED
    BY <1>1, <1>2, <1>3, <1>4, <1>5, <1>6, <1>7, <1>8, <1>9, <1>10, <1>11,
       <1>12, <1>13, <1>14, <1>15, <1>16 DEF Step

\* The evidence invariant survives every step.
LEMMA NextEvidence ==
    ASSUME TypeOK, EvidenceInv, [Next]_vars
    PROVE  EvidenceInv'
<1>1. ASSUME NEW c \in Calls, Step(c)
      PROVE  EvidenceInv'
  <2>1. ReadyToRecord'
    BY <1>1, StepReady DEF EvidenceInv
  <2>2. CASE RecordResult(c)
    BY <2>1, <2>2, RecordEvidence DEF EvidenceInv
  <2>3. CASE ~RecordResult(c)
    <3>1. \A i \in Invocations : results'[i] \in {None, results[i]}
        BY <1>1, <2>3, StepResults
    <3>2. \A d \in Calls : \A k : Emitted(d, k) => Emitted(d, k)'
        BY <1>1, StepKeeps
    <3>3. \A d \in Calls : at[d] # "waiting" =>
              at'[d] # "waiting" /\ request'[d] = request[d]
        BY <1>1, StepMoves DEF Go, TypeOK
    <3> QED
        BY <2>1, <3>1, <3>2, <3>3, EvidencePersists DEF EvidenceInv
  <2> QED
    BY <2>2, <2>3
<1>2. ASSUME Next, \A c \in Calls : ~Step(c)
      PROVE  EvidenceInv'
  <2>1. trail' = trail /\ \A i \in Invocations : results'[i] \in {None, results[i]}
    BY <1>2 DEF Next, Deliver, StoreTrouble, CloseStream, Crash, Expire, shared, TypeOK
  <2>2. \A d \in Calls : \A k : Emitted(d, k) => Emitted(d, k)'
    BY <2>1 DEF Emitted
  <2>3. \A d \in Calls : at[d] # "waiting" =>
            at'[d] # "waiting" /\ request'[d] = request[d]
    BY <1>2 DEF Next, Deliver, StoreTrouble, CloseStream, Crash, Expire, Go, Pass,
                Conclude, Live, shared, TypeOK
  <2>4. \A d \in Calls : at'[d] = "record" =>
            at[d] = "record" /\ outcome'[d] = outcome[d]
    BY <1>2 DEF Next, Deliver, StoreTrouble, CloseStream, Crash, Expire, Go, Pass,
                Conclude, Live, shared, TypeOK
  <2>5. ReadyToRecord'
    BY <2>2, <2>4 DEF EvidenceInv, ReadyToRecord
  <2> QED
    BY <2>1, <2>2, <2>3, <2>5, EvidencePersists DEF EvidenceInv
<1>3. CASE UNCHANGED vars
    BY <1>3 DEF vars, EvidenceInv, ReadyToRecord, RecordedHasEvidence, Emitted, Inv
<1> QED
    BY <1>1, <1>2, <1>3

\* Replay never vouches for a result the evidence does not show.
THEOREM ResultsHaveEvidence == Spec => []RecordedHasEvidence
<1>1. Init => EvidenceInv
    BY DEF Init, EvidenceInv, ReadyToRecord, RecordedHasEvidence
<1>2. TypeInv /\ EvidenceInv /\ [Next]_vars => EvidenceInv'
    BY NextEvidence DEF TypeInv
<1>3. EvidenceInv => RecordedHasEvidence
    BY DEF EvidenceInv
<1> QED
    BY <1>1, <1>2, <1>3, TypeInvariance, PTL DEF Spec

-----------------------------------------------------------------------------
(***************************************************************************)
(* Callers that send one call at a time (~Overlapping).  One call at most  *)
(* is in the host, so what a gate has read stands until its call acts.     *)
(***************************************************************************)
Alone == \A c, d \in Calls : (Live(c) /\ Live(d)) => c = d

\* The mandate gate: the calls past it are counted, and a call about to be
\* counted already is or finds room.
PastMandate ==
    {"policy", "authorize", "consume", "budget", "safety", "start", "running"}

Counting ==
    \A c \in Calls : at[c] \in {"mandate", "count", "use"} =>
        /\ request[c].mandate \in Mandates
        /\ (at[c] # "mandate" /\ seen[c]) => Inv(c) \in used[request[c].mandate]

Counted ==
    \A c \in Calls :
        (/\ c \in effects \/ at[c] \in PastMandate
         /\ request[c].mandate \in Mandates)
        => Inv(c) \in used[request[c].mandate]

CapKept ==
    \A m \in Mandates : IsFiniteSet(used[m]) /\ Cardinality(used[m]) <= MaxUses[m]

RoomLeft ==
    \A c \in Calls : (at[c] = "use" /\ ~seen[c]) =>
        Cardinality(used[request[c].mandate]) + 1 <= MaxUses[request[c].mandate]

MandateInv == EffectsOver /\ Counting /\ Counted

\* A call that takes a step is in the host, and stays the only one that moves.
LEMMA StepOfLive ==
    ASSUME TypeInv, NEW c \in Calls, Step(c)
    PROVE  /\ Live(c)
           /\ request' = request
           /\ \A d \in Calls : d # c => at'[d] = at[d]
<1>1. request' = request /\ \A d \in Calls : d # c => at'[d] = at[d]
    BY StepMoves DEF Go, TypeInv, TypeOK
<1>2. Live(c)
    BY DEF Live, Step, Lookup, DropStaleDenial, EarlyGates, SeeMandateUse,
       CountMandateUses, RecordMandateUse, PolicyGates, Authorize, Consume,
       AutonomyGate, SafetyGates, Deny, Start, RunHandler, Finish, RecordResult
<1> QED
    BY <1>1, <1>2

\* With one caller at a time one call at most is in the host.
LEMMA NextAlone ==
    ASSUME ~Overlapping, TypeInv, Alone, [Next]_vars
    PROVE  Alone'
<1> USE DEF Alone, Live, TypeInv, TypeOK
<1>1. ASSUME NEW c \in Calls, Deliver(c)
      PROVE  Alone'
    BY <1>1 DEF Deliver, Go
<1>2. ASSUME NEW c \in Calls, Step(c)
      PROVE  Alone'
    BY <1>2, StepOfLive
<1>3. ASSUME NEW c \in Calls, StoreTrouble(c) \/ CloseStream(c)
      PROVE  Alone'
    BY <1>3 DEF StoreTrouble, CloseStream, Go, Pass, Conclude
<1>4. CASE Crash
    BY <1>4 DEF Crash
<1>5. CASE Expire
    BY <1>5 DEF Expire
<1>6. CASE UNCHANGED vars
    BY <1>6 DEF vars
<1> QED
    BY <1>1, <1>2, <1>3, <1>4, <1>5, <1>6 DEF Next

\* With another element a finite set has at most one more.
LEMMA AtMostOneMore ==
    ASSUME NEW S, IsFiniteSet(S), NEW x
    PROVE  /\ IsFiniteSet(S \cup {x})
           /\ Cardinality(S \cup {x}) <= Cardinality(S) + 1
           /\ Cardinality(S) \in Nat
<1>1. Cardinality(S) \in Nat
    BY FS_CardinalityType
<1>2. /\ IsFiniteSet(S \cup {x})
      /\ \/ Cardinality(S \cup {x}) = Cardinality(S)
         \/ Cardinality(S \cup {x}) = Cardinality(S) + 1
    BY FS_AddElement, Zenon
<1> QED
    BY <1>1, <1>2

\* How a step of a call moves it along the mandate gate.
LEMMA StepAtMandate ==
    ASSUME TypeInv, NEW c \in Calls, Step(c)
    PROVE  /\ at'[c] = "mandate" => request[c].mandate # NoMandate
           /\ at'[c] = "count" => SeeMandateUse(c)
           /\ at'[c] = "use" => CountMandateUses(c)
           /\ at'[c] \in PastMandate =>
                 \/ at[c] \in PastMandate
                 \/ RecordMandateUse(c)
                 \/ request[c].mandate = NoMandate
<1> USE DEF TypeInv, TypeOK, PastMandate
<1>1. CASE Lookup(c)
    BY <1>1 DEF Lookup, Go, Pass, PureGate, Refuse, shared
<1>2. CASE DropStaleDenial(c)
    BY <1>2 DEF DropStaleDenial, Go, Pass, PureGate, Refuse, shared
<1>3. CASE EarlyGates(c)
    BY <1>3 DEF EarlyGates, Go, Pass, PureGate, Refuse, shared
<1>4. CASE SeeMandateUse(c)
    BY <1>4 DEF SeeMandateUse, Go, Pass, PureGate, Refuse, shared
<1>5. CASE CountMandateUses(c)
    BY <1>5 DEF CountMandateUses, Go, Pass, PureGate, Refuse, shared
<1>6. CASE RecordMandateUse(c)
    BY <1>6 DEF RecordMandateUse, Go, Pass, PureGate, Refuse, shared
<1>7. CASE PolicyGates(c)
    BY <1>7 DEF PolicyGates, Go, Pass, PureGate, Refuse, shared
<1>8. CASE Authorize(c)
    BY <1>8 DEF Authorize, Go, Pass, PureGate, Refuse, shared
<1>9. CASE Consume(c)
    BY <1>9 DEF Consume, Go, Pass, PureGate, Refuse, shared
<1>10. CASE AutonomyGate(c)
    BY <1>10 DEF AutonomyGate, Go, Pass, PureGate, Refuse, shared
<1>11. CASE SafetyGates(c)
    BY <1>11 DEF SafetyGates, Go, Pass, PureGate, Refuse, shared
<1>12. CASE Deny(c)
    BY <1>12 DEF Deny, Go, Pass, PureGate, Refuse, shared
<1>13. CASE Start(c)
    BY <1>13 DEF Start, Go, Pass, PureGate, Refuse, shared
<1>14. CASE RunHandler(c)
    BY <1>14 DEF RunHandler, Go, Pass, PureGate, Refuse, shared
<1>15. CASE Finish(c)
    BY <1>15 DEF Finish, Go, Pass, PureGate, Refuse, shared
<1>16. CASE RecordResult(c)
    BY <1>16 DEF RecordResult, Go, Pass, PureGate, Refuse, shared
<1> QED
    BY <1>1, <1>2, <1>3, <1>4, <1>5, <1>6, <1>7, <1>8, <1>9, <1>10, <1>11,
       <1>12, <1>13, <1>14, <1>15, <1>16 DEF Step

\* What a step of a call leaves of the mandates' tables.
LEMMA StepAsideMandate ==
    ASSUME TypeInv, NEW c \in Calls, Step(c)
    PROVE  /\ used' = used \/ RecordMandateUse(c)
           /\ \A d \in effects' : d \in effects \/ (d = c /\ at[c] = "running")
           /\ \A d \in Calls : d # c => seen'[d] = seen[d]
<1> USE DEF TypeInv, TypeOK
<1>1. CASE Lookup(c)
    BY <1>1 DEF Lookup, Go, Pass, PureGate, Refuse, shared
<1>2. CASE DropStaleDenial(c)
    BY <1>2 DEF DropStaleDenial, Go, Pass, PureGate, Refuse, shared
<1>3. CASE EarlyGates(c)
    BY <1>3 DEF EarlyGates, Go, Pass, PureGate, Refuse, shared
<1>4. CASE SeeMandateUse(c)
    BY <1>4 DEF SeeMandateUse, Go, Pass, PureGate, Refuse, shared
<1>5. CASE CountMandateUses(c)
    BY <1>5 DEF CountMandateUses, Go, Pass, PureGate, Refuse, shared
<1>6. CASE RecordMandateUse(c)
    BY <1>6 DEF RecordMandateUse, Go, Pass, PureGate, Refuse, shared
<1>7. CASE PolicyGates(c)
    BY <1>7 DEF PolicyGates, Go, Pass, PureGate, Refuse, shared
<1>8. CASE Authorize(c)
    BY <1>8 DEF Authorize, Go, Pass, PureGate, Refuse, shared
<1>9. CASE Consume(c)
    BY <1>9 DEF Consume, Go, Pass, PureGate, Refuse, shared
<1>10. CASE AutonomyGate(c)
    BY <1>10 DEF AutonomyGate, Go, Pass, PureGate, Refuse, shared
<1>11. CASE SafetyGates(c)
    BY <1>11 DEF SafetyGates, Go, Pass, PureGate, Refuse, shared
<1>12. CASE Deny(c)
    BY <1>12 DEF Deny, Go, Pass, PureGate, Refuse, shared
<1>13. CASE Start(c)
    BY <1>13 DEF Start, Go, Pass, PureGate, Refuse, shared
<1>14. CASE RunHandler(c)
    BY <1>14 DEF RunHandler, Go, Pass, PureGate, Refuse, shared
<1>15. CASE Finish(c)
    BY <1>15 DEF Finish, Go, Pass, PureGate, Refuse, shared
<1>16. CASE RecordResult(c)
    BY <1>16 DEF RecordResult, Go, Pass, PureGate, Refuse, shared
<1> QED
    BY <1>1, <1>2, <1>3, <1>4, <1>5, <1>6, <1>7, <1>8, <1>9, <1>10, <1>11,
       <1>12, <1>13, <1>14, <1>15, <1>16 DEF Step

\* Each step of a call keeps the calls under a mandate counted.
LEMMA StepMandates ==
    ASSUME TypeInv, MandateInv, NEW c \in Calls, Step(c)
    PROVE  MandateInv'
<1>1. EffectsOver'
    BY StepEffects DEF MandateInv
<1>2. \A m \in Mandates : used[m] \subseteq used'[m]
    BY StepAsideMandate DEF RecordMandateUse, TypeInv, TypeOK
<1>3. request' = request /\ \A d \in Calls : d # c => at'[d] = at[d] /\ seen'[d] = seen[d]
    BY StepOfLive, StepAsideMandate
<1>4. Counting'
  <2> SUFFICES ASSUME NEW d \in Calls, at'[d] \in {"mandate", "count", "use"}
               PROVE  /\ request[d].mandate \in Mandates
                      /\ (at'[d] # "mandate" /\ seen'[d]) =>
                            request[d].inv \in used'[request[d].mandate]
    BY <1>3 DEF Counting, Inv
  <2>1. CASE d # c
    BY <1>2, <1>3, <2>1 DEF MandateInv, Counting, Inv
  <2>2. CASE d = c /\ at'[c] = "mandate"
    BY <2>2, StepAtMandate, StepMoves, RequestType DEF TypeInv
  <2>3. CASE d = c /\ at'[c] = "count"
    <3>1. SeeMandateUse(c)
        BY <2>3, StepAtMandate
    <3> QED
        BY <2>3, <3>1 DEF SeeMandateUse, shared, MandateInv, Counting, Inv, TypeInv, TypeOK
  <2>4. CASE d = c /\ at'[c] = "use"
    <3>1. CountMandateUses(c)
        BY <2>4, StepAtMandate
    <3> QED
        BY <2>4, <3>1 DEF CountMandateUses, shared, MandateInv, Counting, Inv, TypeInv, TypeOK
  <2> QED
    BY <2>1, <2>2, <2>3, <2>4
<1>5. Counted'
  <2> SUFFICES ASSUME NEW d \in Calls, d \in effects' \/ at'[d] \in PastMandate,
                      request[d].mandate \in Mandates
               PROVE  request[d].inv \in used'[request[d].mandate]
    BY <1>3 DEF Counted, Inv, PastMandate
  <2>1. CASE d \in effects \/ at[d] \in PastMandate
    BY <1>2, <2>1 DEF MandateInv, Counted, Inv
  <2>2. CASE RecordMandateUse(c) /\ d = c
    BY <2>2 DEF RecordMandateUse, Inv, TypeInv, TypeOK
  <2> QED
    BY <1>3, <2>1, <2>2, StepAsideMandate, StepAtMandate, PipelineConstants
       DEF PastMandate, PipelineConstants
<1> QED
    BY <1>1, <1>4, <1>5 DEF MandateInv

\* So does every other step.
LEMMA NextMandates ==
    ASSUME TypeInv, MandateInv, [Next]_vars
    PROVE  MandateInv'
<1> USE DEF MandateInv, EffectsOver, Counting, Counted, PastMandate, Inv, TypeInv, TypeOK
<1>1. ASSUME NEW c \in Calls, Deliver(c)
      PROVE  MandateInv'
    BY <1>1 DEF Deliver, Go, shared
<1>2. ASSUME NEW c \in Calls, Step(c)
      PROVE  MandateInv'
    BY <1>2, StepMandates
<1>3. ASSUME NEW c \in Calls, StoreTrouble(c)
      PROVE  MandateInv'
    BY <1>3 DEF StoreTrouble, Go, Pass, Conclude, shared
<1>4. ASSUME NEW c \in Calls, CloseStream(c)
      PROVE  MandateInv'
    BY <1>4 DEF CloseStream, Go, Pass, shared
<1>5. CASE Crash
    BY <1>5 DEF Crash, Live
<1>6. CASE Expire
    BY <1>6 DEF Expire
<1>7. CASE UNCHANGED vars
    BY <1>7 DEF vars
<1> QED
    BY <1>1, <1>2, <1>3, <1>4, <1>5, <1>6, <1>7 DEF Next

\* Each step of a call that has the host to itself keeps the caps.
LEMMA StepCaps ==
    ASSUME TypeInv, Alone, Counting, CapKept, RoomLeft, NEW c \in Calls, Step(c)
    PROVE  CapKept' /\ RoomLeft'
<1>1. request' = request /\ Live(c) /\ \A d \in Calls : d # c => at'[d] = at[d]
    BY StepOfLive
<1>2. \A d \in Calls : at'[d] = "use" => d = c
    BY <1>1 DEF Alone, Live
<1>3. CASE RecordMandateUse(c)
  <2> DEFINE m == request[c].mandate
  <2>1. /\ m \in Mandates
        /\ used' = [used EXCEPT ![m] = @ \cup {Inv(c)}]
        /\ at'[c] = "policy"
    BY <1>3 DEF Counting, RecordMandateUse, Go, TypeInv, TypeOK
  <2>2. IsFiniteSet(used'[m]) /\ Cardinality(used'[m]) <= MaxUses[m]
    <3>1. used'[m] = used[m] \cup {Inv(c)}
        BY <2>1 DEF TypeInv, TypeOK
    <3>2. CASE seen[c]
        <4>1. used'[m] = used[m]
            BY <1>3, <3>1, <3>2 DEF Counting, RecordMandateUse
        <4> QED
            BY <2>1, <4>1 DEF CapKept
    <3>3. CASE ~seen[c]
        <4>1. Cardinality(used[m]) + 1 <= MaxUses[m] /\ IsFiniteSet(used[m])
            BY <1>3, <2>1, <3>3 DEF RoomLeft, CapKept, RecordMandateUse
        <4>2. /\ IsFiniteSet(used[m] \cup {Inv(c)})
              /\ Cardinality(used[m] \cup {Inv(c)}) <= Cardinality(used[m]) + 1
              /\ Cardinality(used[m]) \in Nat
            BY <4>1, AtMostOneMore
        <4>3. /\ Cardinality(used[m] \cup {Inv(c)}) \in Nat
              /\ MaxUses[m] \in Nat
            BY <2>1, <4>2, FS_CardinalityType, PipelineConstants DEF PipelineConstants
        <4> QED
            BY <3>1, <4>1, <4>2, <4>3
    <3> QED
        BY <3>2, <3>3 DEF TypeInv, TypeOK
  <2>3. CapKept'
    BY <2>1, <2>2 DEF CapKept, TypeInv, TypeOK
  <2>4. RoomLeft'
    BY <1>2, <2>1 DEF RoomLeft
  <2> QED
    BY <2>3, <2>4
<1>4. CASE ~RecordMandateUse(c)
  <2>1. used' = used
    BY <1>4, StepAsideMandate
  <2>2. RoomLeft'
    <3> SUFFICES ASSUME at'[c] = "use", ~seen'[c]
                 PROVE  Cardinality(used[request[c].mandate]) + 1
                           <= MaxUses[request[c].mandate]
        BY <1>1, <1>2, <2>1 DEF RoomLeft
    <3>1. CountMandateUses(c) /\ at[c] = "count"
        BY StepAtMandate DEF CountMandateUses
    <3>2. ~seen[c] /\ ~Exhausted(c)
        BY <3>1 DEF CountMandateUses, Refuse, Go, TypeInv, TypeOK
    <3>3. request[c].mandate \in Mandates
        BY <3>1 DEF Counting
    <3>4. /\ ~(Cardinality(used[request[c].mandate]) >= MaxUses[request[c].mandate])
          /\ Cardinality(used[request[c].mandate]) \in Nat
          /\ MaxUses[request[c].mandate] \in Nat
        BY <3>2, <3>3, FS_CardinalityType, PipelineConstants
           DEF Exhausted, CapKept, PipelineConstants
    <3> QED
        BY <3>4
  <2> QED
    BY <2>1, <2>2 DEF CapKept
<1> QED
    BY <1>3, <1>4

\* Every step keeps the caps when callers send one call at a time.
LEMMA NextCaps ==
    ASSUME TypeInv, Alone, Counting, CapKept, RoomLeft, [Next]_vars
    PROVE  CapKept' /\ RoomLeft'
<1> USE DEF CapKept, RoomLeft, TypeInv, TypeOK
<1>1. ASSUME NEW c \in Calls, Deliver(c)
      PROVE  CapKept' /\ RoomLeft'
    BY <1>1 DEF Deliver, Go, shared
<1>2. ASSUME NEW c \in Calls, Step(c)
      PROVE  CapKept' /\ RoomLeft'
    BY <1>2, StepCaps
<1>3. ASSUME NEW c \in Calls, StoreTrouble(c)
      PROVE  CapKept' /\ RoomLeft'
    BY <1>3 DEF StoreTrouble, Go, Pass, Conclude, shared
<1>4. ASSUME NEW c \in Calls, CloseStream(c)
      PROVE  CapKept' /\ RoomLeft'
    BY <1>4 DEF CloseStream, Go, Pass, shared
<1>5. CASE Crash
    BY <1>5 DEF Crash, Live
<1>6. CASE Expire
    BY <1>6 DEF Expire
<1>7. CASE UNCHANGED vars
    BY <1>7 DEF vars
<1> QED
    BY <1>1, <1>2, <1>3, <1>4, <1>5, <1>6, <1>7 DEF Next

\* Callers that send one call at a time spend a mandate by at most
\* max_invocations invocations, whatever fails, closes or expires.
THEOREM MandateCapStays ==
    ASSUME ~Overlapping
    PROVE  Spec => []MandateCapHolds
<1>1. Init => Alone /\ MandateInv /\ CapKept /\ RoomLeft
  <2>1. Init => CapKept
    BY FS_EmptySet, PipelineConstants DEF Init, CapKept, PipelineConstants
  <2> QED
    BY <2>1 DEF Init, Alone, Live, MandateInv, EffectsOver, Counting, Counted, PastMandate,
                RoomLeft
<1>2. TypeInv /\ (Alone /\ MandateInv /\ CapKept /\ RoomLeft) /\ [Next]_vars
        => (Alone /\ MandateInv /\ CapKept /\ RoomLeft)'
    BY NextAlone, NextMandates, NextCaps DEF MandateInv
<1>3. TypeInv /\ Alone /\ MandateInv /\ CapKept /\ RoomLeft => MandateCapHolds
    BY DEF TypeInv, TypeOK, MandateInv, Counted, CapKept, MandateCapHolds
<1> QED
    BY <1>1, <1>2, <1>3, TypeInvariance, PTL DEF Spec

-----------------------------------------------------------------------------
(***************************************************************************)
(* The action budget.                                                      *)
(***************************************************************************)
Started == {c \in Calls : Emitted(c, "execution_started")}

StartedIn(k, p) == {c \in Started : request[c].corr = k /\ request[c].cap = p}

\* A call past the gate has room for its start, among finitely many.
BudgetLeft ==
    /\ IsFiniteSet(Started)
    /\ \A c \in Started : at[c] # "waiting"
    /\ \A c \in Calls : at[c] \in {"safety", "start"} =>
          Taken(request[c].corr) + 1 <= ActionLimit[request[c].cap]

BudgetInv == BudgetLeft /\ BudgetHolds

\* What appending one event to one trail adds, and to whom.
LEMMA EmitExactly ==
    ASSUME TypeOK, NEW c \in Calls, NEW kind \in Kinds,
           trail' = [trail EXCEPT ![c] = Append(@, kind)]
    PROVE  \A d \in Calls : \A k :
              Emitted(d, k)' => (Emitted(d, k) \/ (d = c /\ k = kind))
<1>1. trail[c] \in Seq(Kinds)
    BY DEF TypeOK
<1>2. trail'[c] = Append(trail[c], kind)
    BY DEF TypeOK
<1>3. /\ Len(trail'[c]) = Len(trail[c]) + 1
      /\ \A n \in 1..Len(trail[c]) : trail'[c][n] = trail[c][n]
      /\ trail'[c][Len(trail[c]) + 1] = kind
      /\ trail'[c] \in Seq(Kinds)
    BY <1>1, <1>2, AppendProperties
<1>4. /\ DOMAIN trail[c] = 1..Len(trail[c])
      /\ DOMAIN trail'[c] = 1..(Len(trail[c]) + 1)
      /\ Len(trail[c]) \in Nat
    BY <1>1, <1>3
<1> SUFFICES ASSUME NEW d \in Calls, NEW k, Emitted(d, k)', ~(d = c /\ k = kind)
             PROVE  Emitted(d, k)
    OBVIOUS
<1>5. PICK n \in DOMAIN trail'[d] : trail'[d][n] = k
    BY DEF Emitted
<1>6. CASE d = c
  <2>1. n \in DOMAIN trail[c] /\ trail[c][n] = k
    BY <1>3, <1>4, <1>5, <1>6
  <2> QED
    BY <1>6, <2>1 DEF Emitted
<1>7. CASE d # c
  <2>1. trail'[d] = trail[d]
    BY <1>7 DEF TypeOK
  <2> QED
    BY <1>5, <2>1 DEF Emitted
<1> QED
    BY <1>6, <1>7

\* No other event starts an execution.
LEMMA OtherEvents ==
    ASSUME TypeOK, NEW c \in Calls, NEW kind \in Kinds \ {"execution_started"},
           trail' = [trail EXCEPT ![c] = Append(@, kind)]
    PROVE  Started' = Started
<1>1. \A d \in Calls : Emitted(d, "execution_started")' <=> Emitted(d, "execution_started")
    BY EmitExactly, EmitKeeps
<1> QED
    BY <1>1 DEF Started

\* Only Start starts one, and only its own call's.
LEMMA StepStarts ==
    ASSUME TypeInv, NEW c \in Calls, Step(c)
    PROVE  \/ Started' = Started
           \/ Start(c) /\ Started' = Started \cup {c}
<1> USE DEF TypeInv
<1>1. CASE trail' = trail
    BY <1>1 DEF Started, Emitted
<1>2. CASE AutonomyGate(c) /\ trail' # trail
  <2>1. PICK kind \in {"budget_exceeded", "approval_grant_verified", "approval_requested"} :
            trail' = [trail EXCEPT ![c] = Append(@, kind)]
    BY <1>2 DEF AutonomyGate, Emit
  <2> QED
    BY <2>1, OtherEvents DEF Kinds
<1>3. CASE Deny(c) \/ Finish(c)
  <2>1. /\ EventOf(outcome[c]) \in Kinds \ {"execution_started"}
        /\ trail' = [trail EXCEPT ![c] = Append(@, EventOf(outcome[c]))]
    BY <1>3, EventType DEF Deny, Finish, Emit, Kinds, Terminals
  <2> QED
    BY <2>1, OtherEvents
<1>4. CASE Start(c)
  <2>1. trail' = [trail EXCEPT ![c] = Append(@, "execution_started")]
    BY <1>4 DEF Start, Emit
  <2>2. /\ Emitted(c, "execution_started")'
        /\ \A d \in Calls : Emitted(d, "execution_started") => Emitted(d, "execution_started")'
        /\ \A d \in Calls : Emitted(d, "execution_started")' =>
              (Emitted(d, "execution_started") \/ d = c)
    BY <2>1, EmitExactly, EmitKeeps DEF Kinds
  <2> QED
    BY <1>4, <2>2 DEF Started
<1> QED
    BY <1>1, <1>2, <1>3, <1>4 DEF Step, Lookup, DropStaleDenial, EarlyGates, SeeMandateUse,
       CountMandateUses, RecordMandateUse, PolicyGates, Authorize, Consume, SafetyGates,
       RunHandler, RecordResult, shared

\* What a gate has counted is what has started, and a finite number.
LEMMA TakenStarted ==
    ASSUME IsFiniteSet(Started), NEW k
    PROVE  /\ Taken(k) = Cardinality({c \in Started : request[c].corr = k})
           /\ IsFiniteSet({c \in Started : request[c].corr = k})
           /\ Taken(k) \in Nat
<1>1. {c \in Calls : Emitted(c, "execution_started") /\ request[c].corr = k}
         = {c \in Started : request[c].corr = k}
    BY DEF Started
<1>2. IsFiniteSet({c \in Started : request[c].corr = k})
    BY FS_Subset
<1> QED
    BY <1>1, <1>2, FS_CardinalityType DEF Taken

\* With the same starts of the same envelopes the counts are the same.
LEMMA SameStarts ==
    ASSUME Started' = Started, \A d \in Started : request'[d] = request[d], NEW k, NEW p
    PROVE  /\ Taken(k)' = Taken(k)
           /\ {c \in Calls : /\ Emitted(c, "execution_started")
                             /\ request[c].corr = k
                             /\ request[c].cap = p}'
              = {c \in Calls : /\ Emitted(c, "execution_started")
                               /\ request[c].corr = k
                               /\ request[c].cap = p}
<1>1. \A d \in Calls : Emitted(d, "execution_started")' <=> Emitted(d, "execution_started")
    BY DEF Started
<1>2. {c \in Calls : Emitted(c, "execution_started") /\ request[c].corr = k}'
         = {c \in Calls : Emitted(c, "execution_started") /\ request[c].corr = k}
    BY <1>1 DEF Started
<1>3. Taken(k)' = Taken(k)
    BY <1>2 DEF Taken
<1> QED
    BY <1>1, <1>3 DEF Started

\* Each step of a call that has the host to itself stays within the budget.
LEMMA StepBudget ==
    ASSUME TypeInv, Alone, BudgetInv, NEW c \in Calls, Step(c)
    PROVE  BudgetInv'
<1>1. /\ request' = request
      /\ Live(c)
      /\ \A d \in Calls : d # c => at'[d] = at[d]
      /\ at'[c] # "waiting"
    BY StepOfLive, StepMoves DEF Go, TypeInv, TypeOK
<1>2. \A d \in Calls : at'[d] \in {"safety", "start"} => d = c
    BY <1>1 DEF Alone, Live
<1>3. request[c].cap \in Capabilities /\ ActionLimit[request[c].cap] \in Nat
  <2>1. request[c] \in Envelopes
    BY StepMoves, PipelineConstants DEF TypeInv, TypeOK, PipelineConstants
  <2> QED
    BY <2>1, PipelineConstants DEF Envelopes, PipelineConstants
<1>4. CASE Started' = Started
  <2>1. \A k : Taken(k)' = Taken(k)
    BY <1>1, <1>4, SameStarts
  <2>2. BudgetHolds'
    BY <1>1, <1>4, SameStarts DEF BudgetInv, BudgetHolds
  <2>3. at'[c] \in {"safety", "start"} =>
            Taken(request[c].corr) + 1 <= ActionLimit[request[c].cap]
    <3>1. CASE at[c] = "safety"
        BY <3>1 DEF BudgetInv, BudgetLeft
    <3>2. CASE at'[c] \in {"safety", "start"} /\ at[c] # "safety"
        <4>1. AutonomyGate(c)
            BY <3>2 DEF Step, Lookup, DropStaleDenial, EarlyGates, SeeMandateUse,
               CountMandateUses, RecordMandateUse, PolicyGates, Authorize, Consume,
               SafetyGates, Deny, Start, RunHandler, Finish, RecordResult, PureGate, Pass,
               Refuse, Go, TypeInv, TypeOK
        <4>2. ~OverBudget(c)
            BY <3>2, <4>1 DEF AutonomyGate, Refuse, Go, TypeInv, TypeOK
        <4>3. Taken(request[c].corr) \in Nat
            BY TakenStarted DEF BudgetInv, BudgetLeft
        <4> QED
            BY <1>3, <4>2, <4>3 DEF OverBudget
    <3> QED
        BY <3>1, <3>2
  <2>4. BudgetLeft'
    <3>1. \A d \in Calls : at'[d] \in {"safety", "start"} =>
              Taken(request[d].corr) + 1 <= ActionLimit[request[d].cap]
        BY <1>2, <2>3
    <3>2. \A d \in Calls : at'[d] \in {"safety", "start"} =>
              (Taken(request[d].corr))' + 1 <= ActionLimit[request'[d].cap]
        BY <1>1, <2>1, <3>1, SameStarts, <1>4
    <3> QED
        BY <1>1, <1>4, <3>2 DEF BudgetInv, BudgetLeft, Started
  <2> QED
    BY <2>2, <2>4 DEF BudgetInv
<1>5. CASE Start(c) /\ Started' = Started \cup {c}
  <2>1. at[c] = "start" /\ at'[c] = "running"
    BY <1>5 DEF Start, Go, TypeInv, TypeOK
  <2>2. BudgetLeft'
    <3>1. IsFiniteSet(Started')
        BY <1>5, AtMostOneMore DEF BudgetInv, BudgetLeft
    <3>2. \A d \in Started' : at'[d] # "waiting"
        BY <1>1, <1>5, <2>1 DEF BudgetInv, BudgetLeft, Started
    <3>3. \A d \in Calls : at'[d] \notin {"safety", "start"}
        BY <1>2, <2>1
    <3> QED
        BY <3>1, <3>2, <3>3 DEF BudgetLeft
  <2>3. BudgetHolds'
    <3> SUFFICES ASSUME NEW k \in Correlations, NEW p \in Capabilities
                 PROVE  Cardinality(StartedIn(k, p)') <= ActionLimit[p]
        BY DEF BudgetHolds, StartedIn, Started
    <3>1. /\ Cardinality(StartedIn(k, p)) <= ActionLimit[p]
          /\ IsFiniteSet(StartedIn(k, p))
        <4>1. StartedIn(k, p) = {d \in Calls : /\ Emitted(d, "execution_started")
                                               /\ request[d].corr = k
                                               /\ request[d].cap = p}
            BY DEF StartedIn, Started
        <4> QED
            BY <4>1, FS_Subset DEF BudgetInv, BudgetHolds, BudgetLeft, StartedIn
    <3>2. CASE request[c].corr = k /\ request[c].cap = p
        <4>1. StartedIn(k, p)' = StartedIn(k, p) \cup {c}
            BY <1>1, <1>5, <3>2 DEF StartedIn
        <4>2. Cardinality(StartedIn(k, p)) <= Taken(k)
            <5>1. StartedIn(k, p) \subseteq {d \in Started : request[d].corr = k}
                BY DEF StartedIn
            <5>2. /\ Taken(k) = Cardinality({d \in Started : request[d].corr = k})
                  /\ IsFiniteSet({d \in Started : request[d].corr = k})
                BY TakenStarted DEF BudgetInv, BudgetLeft
            <5> QED
                BY <5>1, <5>2, FS_Subset
        <4>3. Taken(k) + 1 <= ActionLimit[p] /\ Taken(k) \in Nat
            BY <2>1, <3>2, TakenStarted DEF BudgetInv, BudgetLeft
        <4>4. /\ IsFiniteSet(StartedIn(k, p) \cup {c})
              /\ Cardinality(StartedIn(k, p) \cup {c}) <= Cardinality(StartedIn(k, p)) + 1
              /\ Cardinality(StartedIn(k, p)) \in Nat
            BY <3>1, AtMostOneMore
        <4>5. Cardinality(StartedIn(k, p) \cup {c}) \in Nat /\ ActionLimit[p] \in Nat
            BY <1>3, <3>2, <4>4, FS_CardinalityType
        <4> QED
            BY <4>1, <4>2, <4>3, <4>4, <4>5
    <3>3. CASE ~(request[c].corr = k /\ request[c].cap = p)
        <4>1. StartedIn(k, p)' = StartedIn(k, p)
            BY <1>1, <1>5, <3>3 DEF StartedIn
        <4> QED
            BY <3>1, <4>1
    <3> QED
        BY <3>2, <3>3
  <2> QED
    BY <2>2, <2>3 DEF BudgetInv
<1> QED
    BY <1>4, <1>5, StepStarts

\* Every step does when callers send one call at a time.
LEMMA NextBudget ==
    ASSUME TypeInv, Alone, BudgetInv, [Next]_vars
    PROVE  BudgetInv'
<1>1. ASSUME NEW c \in Calls, Step(c)
      PROVE  BudgetInv'
    BY <1>1, StepBudget
<1>2. CASE UNCHANGED vars \/ (Next /\ \A c \in Calls : ~Step(c))
  <2>1. trail' = trail
    BY <1>2 DEF Next, Deliver, StoreTrouble, CloseStream, Crash, Expire, shared, vars
  <2>2. /\ \A d \in Calls : at[d] # "waiting" =>
               at'[d] # "waiting" /\ request'[d] = request[d]
        /\ \A d \in Calls : at'[d] \in {"safety", "start"} => at[d] = at'[d]
    BY <1>2 DEF Next, Deliver, StoreTrouble, CloseStream, Crash, Expire, Go, Pass, Conclude,
                Live, shared, vars, TypeInv, TypeOK
  <2>3. Started' = Started /\ \A d \in Started : request'[d] = request[d]
    BY <2>1, <2>2 DEF Started, Emitted, BudgetInv, BudgetLeft
  <2>4. BudgetHolds'
    BY <2>3, SameStarts DEF BudgetInv, BudgetHolds
  <2>5. \A k : Taken(k)' = Taken(k)
    BY <2>3, SameStarts
  <2>6. \A d \in Calls : at'[d] \in {"safety", "start"} =>
            (Taken(request[d].corr))' + 1 <= ActionLimit[request'[d].cap]
    <3> SUFFICES ASSUME NEW d \in Calls, at'[d] \in {"safety", "start"}
                 PROVE  (Taken(request[d].corr))' + 1 <= ActionLimit[request'[d].cap]
        OBVIOUS
    <3>1. request'[d] = request[d] /\ at[d] \in {"safety", "start"}
        BY <2>2
    <3>2. (Taken(request[d].corr))' = Taken(request[d].corr)
        BY <2>3, <2>5, <3>1
    <3> QED
        BY <3>1, <3>2 DEF BudgetInv, BudgetLeft
  <2>7. BudgetLeft'
    BY <2>2, <2>3, <2>6 DEF BudgetInv, BudgetLeft, Started
  <2> QED
    BY <2>4, <2>7 DEF BudgetInv
<1> QED
    BY <1>1, <1>2

\* Callers that send one call at a time start no more executions of a
\* capability in a correlation than its action_limit.
THEOREM BudgetStays ==
    ASSUME ~Overlapping
    PROVE  Spec => []BudgetHolds
<1>1. Init => Alone /\ BudgetInv
  <2> SUFFICES ASSUME Init
               PROVE  Alone /\ BudgetInv
    OBVIOUS
  <2>1. Started = {}
    BY DEF Init, Started, Emitted
  <2>2. \A k, p : {c \in Calls : /\ Emitted(c, "execution_started")
                                 /\ request[c].corr = k
                                 /\ request[c].cap = p} = {}
    BY <2>1 DEF Started
  <2>3. Alone
    BY DEF Init, Alone, Live
  <2>4. BudgetLeft
    BY <2>1, FS_EmptySet DEF Init, BudgetLeft
  <2>5. BudgetHolds
    <3> SUFFICES ASSUME NEW k \in Correlations, NEW p \in Capabilities
                 PROVE  Cardinality({c \in Calls : /\ Emitted(c, "execution_started")
                                                  /\ request[c].corr = k
                                                  /\ request[c].cap = p}) <= ActionLimit[p]
        BY DEF BudgetHolds
    <3>1. ActionLimit[p] \in Nat
        BY PipelineConstants DEF PipelineConstants
    <3>2. Cardinality({c \in Calls : /\ Emitted(c, "execution_started")
                                     /\ request[c].corr = k
                                     /\ request[c].cap = p}) = 0
        BY <2>2, FS_EmptySet
    <3> QED
        BY <3>1, <3>2
  <2> QED
    BY <2>3, <2>4, <2>5 DEF BudgetInv
<1>2. TypeInv /\ (Alone /\ BudgetInv) /\ [Next]_vars => (Alone /\ BudgetInv)'
    BY NextAlone, NextBudget
<1>3. BudgetInv => BudgetHolds
    BY DEF BudgetInv
<1> QED
    BY <1>1, <1>2, <1>3, TypeInvariance, PTL DEF Spec

-----------------------------------------------------------------------------
(***************************************************************************)
(* Idempotent replay, for callers that send one call at a time while the   *)
(* store answers, no record expires, every result is one that is recorded  *)
(* and the output schema refuses none.                                     *)
(***************************************************************************)
Replays ==
    /\ ~Overlapping
    /\ Faults \subseteq {"crash", "close"}
    /\ "bad_output" \notin HandlerOutcomes
    /\ \A r \in Requests : r.cap \in Cacheable

\* A final answer, of which _record_result has the record.
Final(c) ==
    /\ at[c] = "done"
    /\ outcome[c] # "approval_required"
    /\ c \in effects \/ request[c].mode = "sync"

Remembered == \A c \in Calls : Final(c) => results[Inv(c)] = outcome[c]

\* A call past gate 0 found nothing on record, or a denial it may resume.
Unrecorded ==
    \A c \in Calls :
        /\ at[c] = "resume" => results[Inv(c)] = "approval_required"
        /\ (Live(c) /\ at[c] \notin {"lookup", "resume"}) => results[Inv(c)] = None

\* What a handler that acted has answered.
Acted ==
    \A c \in Calls :
        /\ at[c] = "ran" => outcome[c] \in HandlerOutcomes
        /\ (c \in effects /\ at[c] \in {"record", "done"}) =>
              outcome[c] # "approval_required"

ReplayInv ==
    EffectsOver /\ Remembered /\ Unrecorded /\ Acted /\ ReexecutedOnlyAfterDeath

\* What a step of a call leaves of the record and of the other calls.
LEMMA StepAsideReplay ==
    ASSUME TypeInv, NEW c \in Calls, Step(c)
    PROVE  /\ results' = results \/ DropStaleDenial(c) \/ RecordResult(c)
           /\ \A d \in Calls : d # c => outcome'[d] = outcome[d]
           /\ \A d \in effects' : d \in effects \/ (d = c /\ RunHandler(c))
           /\ effects \subseteq effects'
<1> USE DEF TypeInv, TypeOK, Conclude
<1>1. CASE Lookup(c)
    BY <1>1 DEF Lookup, Go, Pass, PureGate, Refuse, shared
<1>2. CASE DropStaleDenial(c)
    BY <1>2 DEF DropStaleDenial, Go, Pass, PureGate, Refuse, shared
<1>3. CASE EarlyGates(c)
    BY <1>3 DEF EarlyGates, Go, Pass, PureGate, Refuse, shared
<1>4. CASE SeeMandateUse(c)
    BY <1>4 DEF SeeMandateUse, Go, Pass, PureGate, Refuse, shared
<1>5. CASE CountMandateUses(c)
    BY <1>5 DEF CountMandateUses, Go, Pass, PureGate, Refuse, shared
<1>6. CASE RecordMandateUse(c)
    BY <1>6 DEF RecordMandateUse, Go, Pass, PureGate, Refuse, shared
<1>7. CASE PolicyGates(c)
    BY <1>7 DEF PolicyGates, Go, Pass, PureGate, Refuse, shared
<1>8. CASE Authorize(c)
    BY <1>8 DEF Authorize, Go, Pass, PureGate, Refuse, shared
<1>9. CASE Consume(c)
    BY <1>9 DEF Consume, Go, Pass, PureGate, Refuse, shared
<1>10. CASE AutonomyGate(c)
    BY <1>10 DEF AutonomyGate, Go, Pass, PureGate, Refuse, shared
<1>11. CASE SafetyGates(c)
    BY <1>11 DEF SafetyGates, Go, Pass, PureGate, Refuse, shared
<1>12. CASE Deny(c)
    BY <1>12 DEF Deny, Go, Pass, PureGate, Refuse, shared
<1>13. CASE Start(c)
    BY <1>13 DEF Start, Go, Pass, PureGate, Refuse, shared
<1>14. CASE RunHandler(c)
    BY <1>14 DEF RunHandler, Go, Pass, PureGate, Refuse, shared
<1>15. CASE Finish(c)
    BY <1>15 DEF Finish, Go, Pass, PureGate, Refuse, shared
<1>16. CASE RecordResult(c)
    BY <1>16 DEF RecordResult, Go, Pass, PureGate, Refuse, shared
<1> QED
    BY <1>1, <1>2, <1>3, <1>4, <1>5, <1>6, <1>7, <1>8, <1>9, <1>10, <1>11,
       <1>12, <1>13, <1>14, <1>15, <1>16 DEF Step

\* How a step of a call moves it along gate 0 and to its answer.
LEMMA StepAtReplay ==
    ASSUME TypeInv, NEW c \in Calls, Step(c)
    PROVE  /\ at'[c] = "done" =>
                 Lookup(c) \/ Deny(c) \/ Finish(c) \/ RecordResult(c)
           /\ at'[c] = "record" => Deny(c) \/ Finish(c)
           /\ at'[c] = "ran" => RunHandler(c)
           /\ at'[c] = "resume" => Lookup(c)
           /\ at'[c] # "lookup"
           /\ at[c] = "lookup" => Lookup(c)
           /\ at[c] = "resume" => DropStaleDenial(c)
<1> USE DEF TypeInv, TypeOK
<1>1. CASE Lookup(c)
    BY <1>1 DEF Lookup, Go, Pass, PureGate, Refuse, shared
<1>2. CASE DropStaleDenial(c)
    BY <1>2 DEF DropStaleDenial, Go, Pass, PureGate, Refuse, shared
<1>3. CASE EarlyGates(c)
    BY <1>3 DEF EarlyGates, Go, Pass, PureGate, Refuse, shared
<1>4. CASE SeeMandateUse(c)
    BY <1>4 DEF SeeMandateUse, Go, Pass, PureGate, Refuse, shared
<1>5. CASE CountMandateUses(c)
    BY <1>5 DEF CountMandateUses, Go, Pass, PureGate, Refuse, shared
<1>6. CASE RecordMandateUse(c)
    BY <1>6 DEF RecordMandateUse, Go, Pass, PureGate, Refuse, shared
<1>7. CASE PolicyGates(c)
    BY <1>7 DEF PolicyGates, Go, Pass, PureGate, Refuse, shared
<1>8. CASE Authorize(c)
    BY <1>8 DEF Authorize, Go, Pass, PureGate, Refuse, shared
<1>9. CASE Consume(c)
    BY <1>9 DEF Consume, Go, Pass, PureGate, Refuse, shared
<1>10. CASE AutonomyGate(c)
    BY <1>10 DEF AutonomyGate, Go, Pass, PureGate, Refuse, shared
<1>11. CASE SafetyGates(c)
    BY <1>11 DEF SafetyGates, Go, Pass, PureGate, Refuse, shared
<1>12. CASE Deny(c)
    BY <1>12 DEF Deny, Go, Pass, PureGate, Refuse, shared
<1>13. CASE Start(c)
    BY <1>13 DEF Start, Go, Pass, PureGate, Refuse, shared
<1>14. CASE RunHandler(c)
    BY <1>14 DEF RunHandler, Go, Pass, PureGate, Refuse, shared
<1>15. CASE Finish(c)
    BY <1>15 DEF Finish, Go, Pass, PureGate, Refuse, shared
<1>16. CASE RecordResult(c)
    BY <1>16 DEF RecordResult, Go, Pass, PureGate, Refuse, shared
<1> QED
    BY <1>1, <1>2, <1>3, <1>4, <1>5, <1>6, <1>7, <1>8, <1>9, <1>10, <1>11,
       <1>12, <1>13, <1>14, <1>15, <1>16 DEF Step

\* An outcome a call is done with is one that can be recorded.
LEMMA FinalOutcome ==
    ASSUME TypeInv, NEW d \in Calls, Final(d)
    PROVE  outcome[d] \notin {None, "approval_required"}
    BY DEF TypeInv, Carries, Final, Outcomes, None

\* Each step of a call that has the host to itself keeps the answers.
LEMMA StepActed ==
    ASSUME Replays, TypeInv, ReplayInv, NEW c \in Calls, Step(c)
    PROVE  EffectsOver' /\ Acted'
<1>1. EffectsOver'
    BY StepEffects DEF ReplayInv
<1>2. /\ \A d \in Calls : d # c => at'[d] = at[d] /\ outcome'[d] = outcome[d]
      /\ \A d \in effects' : d \in effects \/ (d = c /\ RunHandler(c))
    BY StepOfLive, StepAsideReplay
<1>3. at'[c] = "ran" => outcome'[c] \in HandlerOutcomes
    BY StepAtReplay DEF RunHandler, Conclude, TypeInv, TypeOK
<1>4. (c \in effects' /\ at'[c] \in {"record", "done"}) => outcome'[c] # "approval_required"
  <2> SUFFICES ASSUME c \in effects', at'[c] \in {"record", "done"}
               PROVE  outcome'[c] # "approval_required"
    OBVIOUS
  <2>1. c \in effects
    BY <1>2 DEF RunHandler, Go, TypeInv, TypeOK
  <2>2. at[c] \in {"ran", "record", "done", "dead"}
    BY <2>1 DEF ReplayInv, EffectsOver
  <2>3. Finish(c) \/ RecordResult(c)
    BY <2>2, StepAtReplay DEF Lookup, Deny
  <2>4. outcome' = outcome
    BY <2>3 DEF Finish, RecordResult, Pass, ReplayInv, Acted, Replays
  <2>5. outcome[c] \in HandlerOutcomes \/ outcome[c] # "approval_required"
    BY <2>1, <2>3 DEF Finish, RecordResult, ReplayInv, Acted, TypeInv, TypeOK
  <2> QED
    BY <2>3, <2>4, <2>1, PipelineConstants
       DEF Finish, RecordResult, ReplayInv, Acted, PipelineConstants
<1> QED
    BY <1>1, <1>2, <1>3, <1>4 DEF Acted, ReplayInv

\* What DropStaleDenial and RecordResult do to the record.
LEMMA StepOnRecord ==
    ASSUME Replays, TypeInv, ReplayInv, NEW c \in Calls, Step(c)
    PROVE  /\ DropStaleDenial(c) =>
                 /\ results[Inv(c)] = "approval_required"
                 /\ results' = [results EXCEPT ![Inv(c)] = None]
           /\ RecordResult(c) =>
                 /\ results[Inv(c)] = None
                 /\ results' = [results EXCEPT ![Inv(c)] = outcome[c]]
<1>1. Inv(c) \in Invocations /\ request[c] \in Requests /\ Live(c)
    BY RequestType, StepMoves, StepOfLive DEF TypeInv, TypeOK
<1>2. CASE DropStaleDenial(c)
    BY <1>2 DEF DropStaleDenial, ReplayInv, Unrecorded, RecordResult
<1>3. CASE RecordResult(c)
  <2>1. results[Inv(c)] = None
    BY <1>1, <1>3 DEF RecordResult, ReplayInv, Unrecorded
  <2>2. results' = [results EXCEPT ![Inv(c)] = IF @ = None THEN outcome[c] ELSE @]
    BY <1>1, <1>3 DEF RecordResult, Replays
  <2>3. results' = [results EXCEPT ![Inv(c)] = outcome[c]]
    BY <2>1, <2>2 DEF TypeInv, TypeOK
  <2> QED
    BY <1>3, <2>1, <2>3 DEF DropStaleDenial, RecordResult
<1> QED
    BY <1>2, <1>3

\* Each step of a call that has the host to itself keeps the final answers on
\* record ...
LEMMA StepRemembers ==
    ASSUME Replays, TypeInv, ReplayInv, Alone, NEW c \in Calls, Step(c)
    PROVE  Remembered'
<1>1. /\ request' = request
      /\ \A d \in Calls : d # c => at'[d] = at[d] /\ outcome'[d] = outcome[d]
      /\ \A d \in effects' : d \in effects \/ d = c
    BY StepOfLive, StepAsideReplay
<1>2. /\ Inv(c) \in Invocations
      /\ \A i \in Invocations \ {Inv(c)} : results'[i] = results[i]
    BY RequestType, StepMoves, StepAsideReplay DEF DropStaleDenial, RecordResult, TypeInv, TypeOK
<1> SUFFICES ASSUME NEW d \in Calls, Final(d)'
             PROVE  results'[request[d].inv] = outcome'[d]
    BY <1>1 DEF Remembered, Inv
<1>3. CASE d # c
  <2>1. Final(d) /\ results[request[d].inv] = outcome[d] /\ outcome'[d] = outcome[d]
    BY <1>1, <1>3 DEF Final, ReplayInv, Remembered, Inv
  <2>2. outcome[d] \notin {None, "approval_required"}
    BY <2>1, FinalOutcome
  <2>3. request[d].inv \in Invocations
    BY <2>1, RequestType DEF Final, Inv, TypeInv
  <2>4. CASE request[d].inv # Inv(c)
    BY <1>2, <2>1, <2>3, <2>4
  <2>5. CASE request[d].inv = Inv(c)
    <3>1. results' = results
        BY <2>1, <2>2, <2>5, StepAsideReplay, StepOnRecord
    <3> QED
        BY <2>1, <3>1
  <2> QED
    BY <2>4, <2>5
<1>4. CASE d = c
  <2>1. at'[c] = "done" /\ outcome'[c] # "approval_required"
    BY <1>4 DEF Final
  <2>2. CASE Lookup(c)
    BY <1>4, <2>1, <2>2 DEF Lookup, Pass, Go, Conclude, shared, Inv, TypeInv, TypeOK
  <2>3. CASE Deny(c)
    <3>1. request[c].mode # "sync" /\ effects' = effects /\ at[c] = "denying"
        BY <2>1, <2>3 DEF Deny, Go, TypeInv, TypeOK
    <3>2. c \notin effects
        BY <3>1 DEF ReplayInv, EffectsOver
    <3> QED
        BY <1>1, <1>4, <3>1, <3>2 DEF Final
  <2>4. CASE Finish(c)
    BY <2>1, <2>4 DEF Finish, Pass, Go, ReplayInv, Acted, Replays, TypeInv, TypeOK
  <2>5. CASE RecordResult(c)
    BY <1>2, <1>4, <2>5, StepOnRecord DEF RecordResult, Inv, TypeInv, TypeOK
  <2> QED
    BY <2>1, <2>2, <2>3, <2>4, <2>5, StepAtReplay
<1> QED
    BY <1>3, <1>4

\* ... and, past gate 0, nothing else on it.
LEMMA StepUnrecorded ==
    ASSUME Replays, TypeInv, ReplayInv, Alone, NEW c \in Calls, Step(c)
    PROVE  Unrecorded'
<1>1. /\ request' = request
      /\ Live(c)
      /\ \A d \in Calls : d # c => at'[d] = at[d]
    BY StepOfLive
<1>2. \A d \in Calls : Live(d)' => d = c
    BY <1>1 DEF Alone, Live
<1>3. Inv(c) \in Invocations
    BY RequestType, StepMoves DEF TypeInv
<1>4. at'[c] = "resume" => results'[Inv(c)] = "approval_required"
    BY StepAtReplay DEF Lookup, Resumable, Pass, Go, Conclude, shared, TypeInv, TypeOK
<1>5. ASSUME Live(c)', at'[c] \notin {"lookup", "resume"}
      PROVE  results'[Inv(c)] = None
  <2>1. CASE Lookup(c)
    BY <1>5, <2>1 DEF Lookup, Replays, Pass, Go, Conclude, shared, Live, TypeInv, TypeOK
  <2>2. CASE DropStaleDenial(c)
    BY <1>3, <2>2 DEF DropStaleDenial, TypeInv, TypeOK
  <2>3. CASE RecordResult(c)
    BY <1>5, <2>3 DEF RecordResult, Go, Live, TypeInv, TypeOK
  <2>4. CASE ~Lookup(c) /\ ~DropStaleDenial(c) /\ ~RecordResult(c)
    <3>1. results' = results /\ at[c] \notin {"lookup", "resume"}
        BY <2>4, StepAsideReplay, StepAtReplay
    <3> QED
        BY <1>1, <3>1 DEF ReplayInv, Unrecorded
  <2> QED
    BY <2>1, <2>2, <2>3, <2>4
<1>6. \A d \in Calls : at'[d] = "resume" => d = c
    BY <1>2 DEF Live
<1> QED
    BY <1>1, <1>2, <1>4, <1>5, <1>6 DEF Unrecorded, Inv

\* ... and lets a handler act for an invocation only if no other did that lived.
LEMMA StepReexecuted ==
    ASSUME Replays, TypeInv, ReplayInv, Alone, NEW c \in Calls, Step(c)
    PROVE  ReexecutedOnlyAfterDeath'
<1>1. /\ request' = request
      /\ Live(c)
      /\ \A d \in Calls : d # c => at'[d] = at[d]
      /\ \A d \in effects' : d \in effects \/ (d = c /\ RunHandler(c))
    BY StepOfLive, StepAsideReplay
<1>2. ASSUME NEW d \in effects, d # c, RunHandler(c), Inv(c) = Inv(d)
      PROVE  at[d] = "dead"
  <2>1. d \in Calls /\ ~Live(d) /\ at[d] \in {"ran", "record", "done", "dead"}
    BY <1>1, <1>2 DEF Alone, ReplayInv, EffectsOver, TypeInv, TypeOK
  <2>2. at[d] = "done" => Final(d)
    BY <1>2, <2>1 DEF Final, ReplayInv, Acted
  <2>3. results[Inv(c)] = None
    BY <1>1, <1>2 DEF RunHandler, ReplayInv, Unrecorded
  <2>4. Final(d) => results[Inv(c)] = outcome[d] /\ outcome[d] # None
    BY <1>2, <2>1, FinalOutcome DEF ReplayInv, Remembered
  <2> QED
    BY <2>1, <2>2, <2>3, <2>4 DEF Live
<1>3. \A d \in Calls : at[d] = "dead" => at'[d] = "dead"
    BY <1>1 DEF Live
<1>4. \A d, e \in effects : (d # e /\ Inv(d) = Inv(e)) => at[d] = "dead" \/ at[e] = "dead"
    BY DEF ReplayInv, ReexecutedOnlyAfterDeath
<1> SUFFICES ASSUME NEW d \in effects', NEW e \in effects', d # e, Inv(d) = Inv(e)
             PROVE  at'[d] = "dead" \/ at'[e] = "dead"
    BY <1>1 DEF ReexecutedOnlyAfterDeath, Inv
<1>5. d \in Calls /\ e \in Calls
    BY <1>1 DEF TypeInv, TypeOK
<1>6. CASE d \in effects /\ e \in effects
    BY <1>3, <1>4, <1>5, <1>6
<1>7. CASE d = c /\ RunHandler(c) /\ e \in effects
    BY <1>2, <1>3, <1>5, <1>7
<1>8. CASE e = c /\ RunHandler(c) /\ d \in effects
    BY <1>2, <1>3, <1>5, <1>8
<1> QED
    BY <1>1, <1>6, <1>7, <1>8

\* Every step keeps what replay relies on.
LEMMA NextReplay ==
    ASSUME Replays, TypeInv, Alone, ReplayInv, [Next]_vars
    PROVE  ReplayInv'
<1>1. ASSUME NEW c \in Calls, Step(c)
      PROVE  ReplayInv'
    BY <1>1, StepActed, StepRemembers, StepUnrecorded, StepReexecuted DEF ReplayInv
<1> USE DEF ReplayInv, EffectsOver, Remembered, Unrecorded, Acted, ReexecutedOnlyAfterDeath,
            Final, Inv, Live, TypeInv, TypeOK
<1>2. ASSUME NEW c \in Calls, Deliver(c)
      PROVE  ReplayInv'
  <2>1. /\ at[c] = "waiting"
        /\ at' = [at EXCEPT ![c] = "lookup"]
        /\ \A d \in Calls : d # c => request'[d] = request[d]
        /\ UNCHANGED <<outcome, effects, results>>
    BY <1>2 DEF Deliver, Go, shared
  <2>2. c \notin effects
    BY <2>1
  <2>3. EffectsOver' /\ Acted'
    BY <2>1
  <2>4. Remembered' /\ Unrecorded'
    BY <2>1
  <2>5. ReexecutedOnlyAfterDeath'
    BY <2>1, <2>2
  <2> QED
    BY <2>3, <2>4, <2>5
<1>3. ASSUME NEW c \in Calls, CloseStream(c)
      PROVE  ReplayInv'
    BY <1>3 DEF CloseStream, Go, Pass, shared
<1>4. CASE Crash
    BY <1>4 DEF Crash
<1>5. CASE UNCHANGED vars
    BY <1>5 DEF vars
<1>6. /\ ~Expire
      /\ \A c \in Calls : ~StoreTrouble(c)
    BY DEF Replays, Expire, StoreTrouble
<1> QED
    BY <1>1, <1>2, <1>3, <1>4, <1>5, <1>6 DEF Next

\* Alone and what replay relies on are invariant.
LEMMA ReplayInvariance ==
    ASSUME Replays
    PROVE  Spec => [](TypeInv /\ ReplayInv)
<1>1. Init => Alone /\ ReplayInv
    BY DEF Init, Alone, Live, ReplayInv, EffectsOver, Remembered, Unrecorded, Acted, Final,
           ReexecutedOnlyAfterDeath
<1>2. TypeInv /\ (Alone /\ ReplayInv) /\ [Next]_vars => (Alone /\ ReplayInv)'
    BY NextAlone, NextReplay DEF Replays
<1> QED
    BY <1>1, <1>2, TypeInvariance, PTL DEF Spec

\* A handler acts twice for one invocation only if one of the two calls died
\* before it could answer.
THEOREM ReexecutionFollowsDeath ==
    ASSUME Replays
    PROVE  Spec => []ReexecutedOnlyAfterDeath
    BY ReplayInvariance, PTL DEF ReplayInv

\* Calls that are not streams all get the same final answer for an invocation.
THEOREM AnswersAgree ==
    ASSUME Replays, \A r \in Requests : r.mode = "sync"
    PROVE  Spec => []OneFinalAnswer
<1>1. TypeInv /\ ReplayInv => OneFinalAnswer
    BY DEF TypeInv, TypeOK, ReplayInv, Remembered, Final, OneFinalAnswer
<1> QED
    BY <1>1, ReplayInvariance, PTL
================================================================================
