----------------------------- MODULE StateMachine -----------------------------
(***************************************************************************)
(* SQLiteStateMachine (chp_core/state_machine.py): one machine, its row in *)
(* the database and the handler threads that advance it.  transition reads *)
(* the row, decides, and writes all of it back; nothing keeps another      *)
(* thread from doing the same in between.                                  *)
(***************************************************************************)
EXTENDS Integers, Sequences

CONSTANTS
    States,        \* strings: a state's name decides how the machine ends
    Transitions,   \* the states that may follow each state
    InitialState,
    TerminalStates,
    Callers,       \* handler threads
    MaxHistory     \* bound on the transitions of a machine

\* What create refuses otherwise, and what it does not check: a transition may
\* lead to a state that is not listed.
ASSUME StateMachineConstants ==
    /\ InitialState \in States
    /\ TerminalStates \subseteq States
    /\ Transitions \in [States -> SUBSET States]
    /\ MaxHistory \in Nat

VARIABLES
    machine, \* the row: current_state, status, history; NoMachine before create
    call,    \* what each caller's transition has read and decided
    granted, \* history: the transitions answered "allowed", in that order
    overlap  \* history: two transitions have been under way at once

machineVars == <<machine, call, granted, overlap>>

NoMachine == [status |-> "none"]
NoCall == [stage |-> "none"]
Over == {"done", "failed", "cancelled"}

\* The status of a machine that has gone to `event`.
StatusAfter(event) ==
    IF event \notin TerminalStates THEN "running"
    ELSE IF event \in {"failed", "cancelled"} THEN event ELSE "done"

-----------------------------------------------------------------------------
MachineInit ==
    /\ machine = NoMachine
    /\ call = [t \in Callers |-> NoCall]
    /\ granted = <<>>
    /\ overlap = FALSE

CreateMachine ==
    /\ machine = NoMachine
    /\ machine' = [status |-> "queued", state |-> InitialState, history |-> <<>>]
    /\ UNCHANGED <<call, granted, overlap>>

Allowed(row, event) ==
    /\ row.status \notin Over
    /\ event \in Transitions[row.state]

\* SELECT; a transition that is not allowed is answered so and changes nothing.
ReadMachine(t, event) ==
    /\ machine # NoMachine
    /\ call[t] = NoCall
    /\ Allowed(machine, event)
    /\ Len(machine.history) < MaxHistory
    /\ call' = [call EXCEPT ![t] = [stage |-> "decided", row |-> machine, event |-> event]]
    /\ overlap' = (overlap \/ \E u \in Callers : call[u] # NoCall)
    /\ UNCHANGED <<machine, granted>>

\* Mutant of Advanced: the entry names the state reached as the one left.
AdvancedFromEvent(row, event) ==
    [status |-> StatusAfter(event), state |-> event,
     history |-> Append(row.history, [from |-> event, to |-> event])]

Advanced(row, event) ==
    [status |-> StatusAfter(event), state |-> event,
     history |-> Append(row.history, [from |-> row.state, to |-> event])]

\* UPDATE, commit and answer.
WriteMachine(t) ==
    /\ call[t] # NoCall
    /\ machine' = Advanced(call[t].row, call[t].event)
    /\ granted' = Append(granted, [from |-> call[t].row.state, to |-> call[t].event])
    /\ call' = [call EXCEPT ![t] = NoCall]
    /\ UNCHANGED overlap

\* The caller's thread dies in between.
DropCall(t) ==
    /\ call[t] # NoCall
    /\ call' = [call EXCEPT ![t] = NoCall]
    /\ UNCHANGED <<machine, granted, overlap>>

MachineNext ==
    \/ CreateMachine
    \/ \E t \in Callers :
          \/ \E event \in States : ReadMachine(t, event)
          \/ WriteMachine(t)
          \/ DropCall(t)

MachineSpec == MachineInit /\ [][MachineNext]_machineVars

-----------------------------------------------------------------------------
(***************************************************************************)
(* Properties                                                              *)
(***************************************************************************)
Entries == [from : States, to : States]
Rows == [status : {"queued", "running"} \cup Over, state : States, history : Seq(Entries)]

MachineTypeOK ==
    /\ machine = NoMachine \/ machine \in Rows
    /\ \A t \in Callers : call[t] = NoCall \/ call[t].stage = "decided"
    /\ granted \in Seq(Entries)
    /\ overlap \in BOOLEAN

\* A row that tells the run of one machine: every step is a defined transition
\* from where the one before it arrived, none leaves a terminal state, and the
\* state and the status are those the last step led to.
IsRun(row) ==
    LET h == row.history
    IN  /\ \A n \in 1..Len(h) :
              /\ h[n].to \in Transitions[h[n].from]
              /\ h[n].from = IF n = 1 THEN InitialState ELSE h[n - 1].to
              /\ n < Len(h) => StatusAfter(h[n].to) \notin Over
        /\ row.state = IF Len(h) = 0 THEN InitialState ELSE h[Len(h)].to
        /\ row.status = IF Len(h) = 0 THEN "queued" ELSE StatusAfter(row.state)

\* However transitions overlap, the row tells a run: a lost update loses whole
\* steps, never half of one, and no history continues past a terminal state.
RowIsRun == machine # NoMachine => IsRun(machine)

\* While no two transitions have overlapped, every transition that was answered
\* "allowed" is in the history, in the order of the answers.
NothingLostAlone == (machine # NoMachine /\ ~overlap) => machine.history = granted

\* "Terminal": a machine that is done, failed or cancelled stays so.
OverForGood ==
    [][machine # NoMachine /\ machine.status \in Over => machine' = machine]_machineVars

\* What unlocked transitions keep: a row that tells a run, and every step of the
\* callers that did not overlap.
MachineSafe == MachineTypeOK /\ RowIsRun /\ NothingLostAlone
=============================================================================
