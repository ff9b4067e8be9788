------------------------------ MODULE Transcripts ------------------------------
(***************************************************************************)
(* The transcript of a session kept by chp-adapter-messages: the turns in  *)
(* its JSONL file and, one by one after it, in the host's evidence chain.  *)
(* record_turn adds a turn as it is said; backfill_session adds those of   *)
(* an agent's own log that the file does not hold yet.  Both run in        *)
(* handler threads.  Either write may raise, which ends the handler, and   *)
(* the process may die between any two steps; a write that is cut off      *)
(* leaves a line without its end, which the next one then follows.         *)
(***************************************************************************)
EXTENDS Integers, Sequences, FiniteSets

CONSTANTS
    Texts,      \* contents, which stand for their hashes
    Log,        \* the human turns of the agent's log, in their order
    Recorders,  \* threads that record turns or backfill
    MaxTasks,   \* bound on the turns recorded and the backfills
    MaxCrashes  \* bound on the crashes of the process

ASSUME TranscriptConstants ==
    /\ {"none", "torn"} \cap Texts = {}
    /\ Log \in Seq(Texts)
    /\ IsFiniteSet(Recorders)
    /\ MaxTasks \in Nat
    /\ MaxCrashes \in Nat

VARIABLES
    lines,    \* the JSONL file: a line is a text, or "torn" when it does not parse
    tail,     \* the line it ends in that has no end: "none", "torn", or all of a text
    chain,    \* the turns of the evidence chain
    task,     \* what each thread is doing
    tasks,    \* how many tasks were begun
    unstored, \* history: how often the store refused the event of a text's line
    cut,      \* history: writes to the file that were cut off
    crashes,  \* history: crashes of the process
    shared    \* history: two tasks have been under way at once

transcriptVars == <<lines, tail, chain, task, tasks, unstored, cut, crashes, shared>>

Resting == [kind |-> "none"]

\* load: the lines that parse.
Kept == ({lines[n] : n \in DOMAIN lines} \cup {tail}) \ {"none", "torn"}

-----------------------------------------------------------------------------
TranscriptInit ==
    /\ lines = <<>>
    /\ tail = "none"
    /\ chain = <<>>
    /\ task = [t \in Recorders |-> Resting]
    /\ tasks = 0
    /\ unstored = [text \in Texts |-> 0]
    /\ cut = 0
    /\ crashes = 0
    /\ shared = FALSE

BeginTask(t, new) ==
    /\ task[t] = Resting
    /\ tasks < MaxTasks
    /\ tasks' = tasks + 1
    /\ task' = [task EXCEPT ![t] = new]
    /\ shared' = (shared \/ \E u \in Recorders : task[u] # Resting)
    /\ UNCHANGED <<lines, tail, chain, unstored, cut, crashes>>

RecordTurn(t, text) ==
    BeginTask(t, [kind |-> "record", todo |-> <<text>>, existing |-> {}, appended |-> FALSE])

\* backfill_session reads the file first; the log does not change under it.
Backfill(t) ==
    BeginTask(t, [kind |-> "backfill", todo |-> Log, existing |-> Kept, appended |-> FALSE])

\* A turn that existed is passed over.
Known(t) == task[t].kind = "backfill" /\ Head(task[t].todo) \in task[t].existing

PassOver(t) ==
    /\ task[t] # Resting
    /\ task[t].todo # <<>>
    /\ ~task[t].appended
    /\ Known(t)
    /\ task' = [task EXCEPT ![t].todo = Tail(@)]
    /\ UNCHANGED <<lines, tail, chain, tasks, unstored, cut, crashes, shared>>

\* The thread is in JSONLBackend.append.
Writing(t) ==
    /\ task[t] # Resting
    /\ task[t].todo # <<>>
    /\ ~task[t].appended
    /\ ~Known(t)

\* A write goes on where the file ends.
AppendLine(t) ==
    /\ Writing(t)
    /\ lines' = Append(lines, IF tail = "none" THEN Head(task[t].todo) ELSE "torn")
    /\ tail' = "none"
    /\ task' = [task EXCEPT ![t].appended = TRUE]
    /\ UNCHANGED <<chain, tasks, unstored, cut, crashes, shared>>

\* It is cut off within the line, or before nothing but the line's end.
CutOff(text) ==
    /\ tail' \in {"torn"} \cup (IF tail = "none" THEN {text} ELSE {})
    /\ cut' = cut + 1

\* It raises: the file cannot be opened, or takes no more.
AppendFails(t) ==
    /\ Writing(t)
    /\ UNCHANGED <<tail, cut>> \/ CutOff(Head(task[t].todo))
    /\ task' = [task EXCEPT ![t] = Resting]
    /\ UNCHANGED <<lines, chain, tasks, unstored, crashes, shared>>

\* Mutant of RecordEvent: a backfill does not remember what it has added.
RecordEventForgetting(t) ==
    /\ task[t] # Resting
    /\ task[t].todo # <<>>
    /\ task[t].appended
    /\ chain' = Append(chain, Head(task[t].todo))
    /\ task' = [task EXCEPT ![t].todo = Tail(@), ![t].appended = FALSE]
    /\ UNCHANGED <<lines, tail, tasks, unstored, cut, crashes, shared>>

\* host.record_turn, and a backfill remembers the turn ...
RecordEvent(t) ==
    /\ task[t] # Resting
    /\ task[t].todo # <<>>
    /\ task[t].appended
    /\ chain' = Append(chain, Head(task[t].todo))
    /\ task' = [task EXCEPT ![t].todo = Tail(@), ![t].appended = FALSE,
                            ![t].existing = @ \cup {Head(task[t].todo)}]
    /\ UNCHANGED <<lines, tail, tasks, unstored, cut, crashes, shared>>

\* ... unless the store's append raises: the line stays in the file.
RecordFails(t) ==
    /\ task[t] # Resting
    /\ task[t].todo # <<>>
    /\ task[t].appended
    /\ unstored' = [unstored EXCEPT ![Head(task[t].todo)] = @ + 1]
    /\ task' = [task EXCEPT ![t] = Resting]
    /\ UNCHANGED <<lines, tail, chain, tasks, cut, crashes, shared>>

EndTask(t) ==
    /\ task[t] # Resting
    /\ task[t].todo = <<>>
    /\ task' = [task EXCEPT ![t] = Resting]
    /\ UNCHANGED <<lines, tail, chain, tasks, unstored, cut, crashes, shared>>

\* The process dies, perhaps within a thread's write.
Crash ==
    /\ crashes < MaxCrashes
    /\ crashes' = crashes + 1
    /\ task' = [t \in Recorders |-> Resting]
    /\ \/ UNCHANGED <<tail, cut>>
       \/ \E t \in Recorders : Writing(t) /\ CutOff(Head(task[t].todo))
    /\ UNCHANGED <<lines, chain, tasks, unstored, shared>>

-----------------------------------------------------------------------------
TranscriptNext ==
    \/ Crash
    \/ \E t \in Recorders :
          \/ \E text \in Texts : RecordTurn(t, text)
          \/ Backfill(t)
          \/ PassOver(t)
          \/ AppendLine(t)
          \/ AppendFails(t)
          \/ RecordEvent(t)
          \/ RecordFails(t)
          \/ EndTask(t)

TranscriptSpec == TranscriptInit /\ [][TranscriptNext]_transcriptVars

-----------------------------------------------------------------------------
(***************************************************************************)
(* Properties                                                              *)
(***************************************************************************)
TranscriptTypeOK ==
    /\ lines \in Seq(Texts \cup {"torn"})
    /\ tail \in Texts \cup {"none", "torn"}
    /\ chain \in Seq(Texts)
    /\ tasks \in 0..MaxTasks
    /\ unstored \in [Texts -> Nat]
    /\ cut \in Nat
    /\ crashes \in 0..MaxCrashes

Count(seq, text) == Cardinality({n \in DOMAIN seq : seq[n] = text})

\* The turns a thread has added to the file and not yet to the chain.
Between == {t \in Recorders : task[t] # Resting /\ task[t].todo # <<>> /\ task[t].appended}

\* File and chain tell the same conversation: while the process has not crashed
\* and no write was cut off, they differ by the turns that are being recorded and
\* by those whose event the store refused, however threads overlap.
FileIsChain ==
    (crashes = 0 /\ cut = 0) => \A text \in Texts :
        Count(lines, text) =
            Count(chain, text) + unstored[text]
                + Cardinality({t \in Between : Head(task[t].todo) = text})

\* Where the process crashed or a write was cut off they may differ further, but
\* by no more than what was under way: a turn missing from the chain for each
\* thread, and for each write cut off the line that followed it.
CrashesLoseLittle ==
    (\A t \in Recorders : task[t] = Resting) => \A text \in Texts :
        LET more == Count(lines, text) - Count(chain, text) - unstored[text]
        IN  more <= crashes * Cardinality(Recorders) /\ -more <= cut

\* Backfilling again adds nothing: without overlaps, a backfill adds a turn only
\* if the file does not hold it, whatever the log repeats, and whatever failed
\* or crashed before.
BackfillOnce ==
    ~shared =>
        \A t \in Recorders : (task[t].kind = "backfill" /\ task[t].appended) =>
            Count(lines, Head(task[t].todo)) <= 1

\* A turn a handler added to the file is in the chain when no handler is at
\* work ("evidence chain and JSONL store").
ChainHoldsFile ==
    (\A t \in Recorders : task[t] = Resting) => \A text \in Kept : Count(chain, text) > 0

\* File and chain drift apart by what is under way, by what the store refused and
\* by what was cut off, and a backfill records no turn twice.
TranscriptsSafe ==
    /\ TranscriptTypeOK
    /\ FileIsChain
    /\ CrashesLoseLittle
    /\ BackfillOnce
=============================================================================
