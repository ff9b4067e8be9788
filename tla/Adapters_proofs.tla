---------------------------- MODULE Adapters_proofs ----------------------------
(***************************************************************************)
(* Proofs about the adapters and bindings of a host: the transcripts of    *)
(* the messages adapter (Transcripts), named workflows (Workflow), the     *)
(* circuit breaker of the http adapter (Circuit), the warm models of the   *)
(* huggingface adapter (ModelCache), and the Zenoh binding (ZenohServer);  *)
(* then that the service they are parts of (MCService) keeps what each of  *)
(* them promises.                                                          *)
(***************************************************************************)
EXTENDS MCService, FiniteSetTheorems, SequenceTheorems, TLAPS

-----------------------------------------------------------------------------
(***************************************************************************)
(* Transcripts, for any contents, log, number of threads, failures and     *)
(* crashes.                                                                *)
(***************************************************************************)
Task ==
    [kind : {"record", "backfill"}, todo : Seq(Texts), existing : SUBSET Texts,
     appended : BOOLEAN]

TasksTyped == task \in [Recorders -> Task \cup {Resting}]

\* The threads that added this text to the file and not yet to the chain.
Adding(text) == {t \in Between : Head(task[t].todo) = text}

\* How often the file holds the text beyond the chain, what is under way and what
\* the store refused: a crash leaves one for each thread at most, and a write cut
\* off takes one away, as soon as the next line follows it.
DriftInv ==
    \A text \in Texts :
        LET drift == Count(lines, text) - Count(chain, text) - unstored[text]
                        - Cardinality(Adding(text))
        IN  /\ drift <= crashes * Cardinality(Recorders)
            /\ (IF tail # "none" THEN 1 ELSE 0) - drift <= cut

\* A backfill knows what the file holds, except for the line it has just added,
\* unless another task has met it.
BackfillInv ==
    ~shared =>
        /\ \A t, u \in Recorders : task[t] # Resting /\ task[u] # Resting => t = u
        /\ \A t \in Recorders : task[t].kind = "backfill" =>
              IF task[t].appended
              THEN /\ task[t].todo # <<>>
                   /\ Kept \subseteq task[t].existing \cup {Head(task[t].todo)}
                   /\ Count(lines, Head(task[t].todo)) <= 1
              ELSE Kept \subseteq task[t].existing

TranscriptInv == TranscriptTypeOK /\ TasksTyped /\ DriftInv /\ BackfillInv

-----------------------------------------------------------------------------
LEMMA TaskMeans ==
    ASSUME TasksTyped, NEW t \in Recorders, task[t] # Resting
    PROVE  /\ task[t] \in Task
           /\ task[t].todo \in Seq(Texts)
           /\ task[t].todo # <<>> => /\ Head(task[t].todo) \in Texts
                                     /\ Tail(task[t].todo) \in Seq(Texts)
<1>1. task[t] \in Task /\ task[t].todo \in Seq(Texts)
    BY DEF TasksTyped, Task
<1>2. PICK todo : todo = task[t].todo
    OBVIOUS
<1>3. todo # <<>> => Head(todo) \in Texts /\ Tail(todo) \in Seq(Texts)
    BY <1>1, <1>2, HeadTailProperties
<1> QED
    BY <1>1, <1>2, <1>3

LEMMA CountTyped ==
    ASSUME NEW S, NEW s \in Seq(S), NEW text
    PROVE  /\ Count(s, text) \in Nat
           /\ IsFiniteSet({n \in DOMAIN s : s[n] = text})
<1>1. Len(s) \in Nat /\ DOMAIN s = 1..Len(s)
    BY LenProperties
<1>2. IsFiniteSet(1..Len(s)) /\ {n \in DOMAIN s : s[n] = text} \in SUBSET (1..Len(s))
    BY <1>1, FS_Interval
<1>3. IsFiniteSet({n \in DOMAIN s : s[n] = text})
    BY <1>2, FS_Subset
<1> QED
    BY <1>3, FS_CardinalityType DEF Count

\* A line more is one more of its text.
LEMMA CountAppend ==
    ASSUME NEW S, NEW s \in Seq(S), NEW x \in S, NEW text
    PROVE  Count(Append(s, x), text) = Count(s, text) + (IF x = text THEN 1 ELSE 0)
<1> DEFINE at == {n \in DOMAIN s : s[n] = text}
           next == Append(s, x)
           atNext == {n \in DOMAIN next : next[n] = text}
<1>1. Len(s) \in Nat /\ DOMAIN s = 1..Len(s)
    BY LenProperties
<1>2. /\ DOMAIN next = 1..Len(s) + 1
      /\ \A n \in 1..Len(s) : next[n] = s[n]
      /\ next[Len(s) + 1] = x
    <2>1. next \in Seq(S) /\ Len(next) = Len(s) + 1
        BY AppendProperties
    <2>2. DOMAIN next = 1..Len(next)
        BY <2>1, LenProperties
    <2> QED
        BY <2>1, <2>2, AppendProperties
<1>3. IsFiniteSet(at) /\ Cardinality(at) \in Nat
    BY CountTyped DEF Count
<1>4. Len(s) + 1 \notin at
    BY <1>1
<1>5. Count(s, text) = Cardinality(at) /\ Count(next, text) = Cardinality(atNext)
    BY DEF Count
<1> HIDE DEF at, atNext
<1>6. CASE x = text
    <2>1. atNext = at \cup {Len(s) + 1}
        BY <1>1, <1>2, <1>6 DEF at, atNext
    <2> QED
        BY <2>1, <1>3, <1>4, <1>5, <1>6, FS_AddElement
<1>7. CASE x # text
    <2>1. atNext = at
        BY <1>1, <1>2, <1>7 DEF at, atNext
    <2> QED
        BY <2>1, <1>3, <1>5, <1>7
<1> QED
    BY <1>6, <1>7

LEMMA CountsTyped ==
    ASSUME TranscriptTypeOK, NEW text
    PROVE  Count(lines, text) \in Nat /\ Count(chain, text) \in Nat
BY CountTyped DEF TranscriptTypeOK

\* A text that the file does not hold is counted zero times.
LEMMA NotKept ==
    ASSUME TranscriptTypeOK, NEW text \in Texts, text \notin Kept
    PROVE  Count(lines, text) = 0
<1>1. text # "torn" /\ text # "none"
    BY TranscriptConstants DEF TranscriptConstants
<1>2. {n \in DOMAIN lines : lines[n] = text} = {}
    BY <1>1 DEF Kept
<1> QED
    BY <1>2, FS_EmptySet DEF Count

LEMMA AddingFinite ==
    ASSUME NEW text
    PROVE  /\ IsFiniteSet(Adding(text))
           /\ Cardinality(Adding(text)) \in Nat
           /\ Cardinality(Recorders) \in Nat
           /\ Cardinality(Adding(text)) <= Cardinality(Recorders)
<1>1. Adding(text) \in SUBSET Recorders
    BY DEF Adding, Between
<1> QED
    BY <1>1, FS_Subset, FS_CardinalityType, TranscriptConstants DEF TranscriptConstants

\* What the file's next line leaves of each count and of what is kept.
LEMMA LineCounts ==
    ASSUME TranscriptTypeOK, NEW text \in Texts,
           lines' = Append(lines, IF tail = "none" THEN text ELSE "torn"), tail' = "none"
    PROVE  /\ lines' \in Seq(Texts \cup {"torn"})
           /\ \A other \in Texts : Count(lines', other) =
                Count(lines, other) + (IF tail = "none" /\ text = other THEN 1 ELSE 0)
           /\ Kept' \subseteq Kept \cup {text}
<1> DEFINE S == Texts \cup {"torn"}
<1>1. PICK new : new = IF tail = "none" THEN text ELSE "torn"
    OBVIOUS
<1>2. lines \in Seq(S) /\ new \in S /\ lines' = Append(lines, new)
    BY <1>1 DEF TranscriptTypeOK
<1>3. \A other \in Texts : other # "torn" /\ other # "none"
    BY TranscriptConstants DEF TranscriptConstants
<1> HIDE DEF S
<1>4. /\ lines' \in Seq(S)
      /\ DOMAIN lines = 1..Len(lines) /\ Len(lines) \in Nat
      /\ DOMAIN lines' = 1..Len(lines) + 1
      /\ \A n \in 1..Len(lines) : lines'[n] = lines[n]
      /\ lines'[Len(lines) + 1] = new
    BY <1>2, AppendProperties, LenProperties
<1>5. \A other \in Texts : Count(lines', other) = Count(lines, other) + (IF new = other THEN 1 ELSE 0)
    BY <1>2, CountAppend
<1>6. \A other \in Texts : Count(lines', other) =
        Count(lines, other) + (IF tail = "none" /\ text = other THEN 1 ELSE 0)
    BY <1>1, <1>3, <1>5, CountsTyped
<1>7. Kept' \subseteq Kept \cup {text}
    <2>1. \A n \in DOMAIN lines' : n \in DOMAIN lines \/ n = Len(lines) + 1
        BY <1>4
    <2>2. \A n \in DOMAIN lines : lines'[n] = lines[n]
        BY <1>4
    <2>3. new = text \/ new = "torn"
        BY <1>1
    <2> QED
        BY <1>4, <2>1, <2>2, <2>3 DEF Kept
<1> QED
    BY <1>4, <1>6, <1>7 DEF S

-----------------------------------------------------------------------------
\* Who moves to another task or part of one.
LEMMA AddingMoves ==
    ASSUME TasksTyped, NEW t \in Recorders, NEW new \in Task \cup {Resting},
           task' = [task EXCEPT ![t] = new]
    PROVE  /\ TasksTyped'
           /\ \A u \in Recorders : task'[u] = IF u = t THEN new ELSE task[u]
           /\ \A text : Adding(text)' =
                (Adding(text) \ {t}) \cup
                (IF new # Resting /\ new.todo # <<>> /\ new.appended /\ Head(new.todo) = text
                 THEN {t} ELSE {})
<1>1. \A u \in Recorders : task'[u] = IF u = t THEN new ELSE task[u]
    BY DEF TasksTyped
<1>2. TasksTyped'
    BY DEF TasksTyped
<1>3. ASSUME NEW text
      PROVE  Adding(text)' =
                (Adding(text) \ {t}) \cup
                (IF new # Resting /\ new.todo # <<>> /\ new.appended /\ Head(new.todo) = text
                 THEN {t} ELSE {})
    BY <1>1 DEF Adding, Between
<1> QED
    BY <1>1, <1>2, <1>3

LEMMA NoneAdded ==
    ASSUME TasksTyped, NEW t \in Recorders, NEW new \in Task \cup {Resting},
           task' = [task EXCEPT ![t] = new], new = Resting \/ ~new.appended
    PROVE  /\ TasksTyped'
           /\ \A u \in Recorders : task'[u] = IF u = t THEN new ELSE task[u]
           /\ \A text : Adding(text)' = Adding(text) \ {t}
<1>1. \A u \in Recorders : task'[u] = IF u = t THEN new ELSE task[u]
    BY DEF TasksTyped
<1>2. TasksTyped'
    BY DEF TasksTyped
<1>3. ASSUME NEW text
      PROVE  Adding(text)' = Adding(text) \ {t}
    BY <1>1 DEF Adding, Between
<1> QED
    BY <1>1, <1>2, <1>3

LEMMA NotAdding ==
    ASSUME TasksTyped, NEW t \in Recorders, task[t] = Resting \/ task[t].todo = <<>> \/ ~task[t].appended,
           NEW text
    PROVE  t \notin Adding(text)
BY DEF Adding, Between

\* Nothing but a task changes, and no thread comes between file and chain.
LEMMA DriftKept ==
    ASSUME DriftInv, UNCHANGED <<lines, tail, chain, unstored, cut, crashes>>,
           \A text \in Texts : Adding(text)' = Adding(text)
    PROVE  DriftInv'
BY DEF DriftInv, Count

LEMMA TranscriptStarts == TranscriptInit => TranscriptInv
<1> SUFFICES ASSUME TranscriptInit PROVE TranscriptInv
    OBVIOUS
<1>1. lines = <<>> /\ chain = <<>> /\ lines \in Seq(Texts \cup {"torn"}) /\ chain \in Seq(Texts)
    BY EmptySeq DEF TranscriptInit
<1>2. TranscriptTypeOK
    <2>1. tasks \in 0..MaxTasks /\ crashes \in 0..MaxCrashes
        BY TranscriptConstants DEF TranscriptInit, TranscriptConstants
    <2>2. tail = "none" /\ cut = 0 /\ unstored \in [Texts -> Nat]
        BY DEF TranscriptInit
    <2> QED
        BY <1>1, <2>1, <2>2 DEF TranscriptTypeOK
<1>3. TasksTyped
    BY DEF TranscriptInit, TasksTyped
<1>4. DriftInv
    <2> SUFFICES ASSUME NEW text \in Texts
                 PROVE  /\ Count(lines, text) - Count(chain, text) - unstored[text]
                                - Cardinality(Adding(text))
                              <= crashes * Cardinality(Recorders)
                        /\ (IF tail # "none" THEN 1 ELSE 0)
                              - (Count(lines, text) - Count(chain, text) - unstored[text]
                                    - Cardinality(Adding(text)))
                              <= cut
        BY DEF DriftInv
    <2>1. Adding(text) = {}
        BY DEF TranscriptInit, Adding, Between
    <2>2. Cardinality(Adding(text)) = 0
        BY <2>1, FS_EmptySet
    <2>3. Count(lines, text) = Count(chain, text) /\ Count(lines, text) \in Nat
        BY <1>1, <1>2, CountsTyped
    <2>4. /\ Cardinality(Recorders) \in Nat /\ crashes = 0 /\ tail = "none" /\ cut = 0
          /\ unstored[text] = 0
        BY AddingFinite DEF TranscriptInit
    <2> QED
        BY <2>2, <2>3, <2>4
<1>5. BackfillInv
    BY DEF TranscriptInit, BackfillInv, Resting
<1> QED
    BY <1>2, <1>3, <1>4, <1>5 DEF TranscriptInv

LEMMA BeginTaskKeeps ==
    ASSUME TranscriptInv, NEW t \in Recorders, NEW new \in Task, BeginTask(t, new),
           ~new.appended, new.kind = "backfill" => new.existing = Kept
    PROVE  TranscriptInv'
<1>1. /\ TranscriptTypeOK /\ TasksTyped /\ DriftInv /\ BackfillInv
      /\ task[t] = Resting
      /\ task' = [task EXCEPT ![t] = new]
      /\ UNCHANGED <<lines, tail, chain, unstored, cut, crashes>>
    BY DEF TranscriptInv, BeginTask
<1>2. /\ TasksTyped'
      /\ \A u \in Recorders : task'[u] = IF u = t THEN new ELSE task[u]
      /\ \A text : Adding(text)' = Adding(text) \ {t}
    BY <1>1, NoneAdded
<1>3. \A text \in Texts : Adding(text)' = Adding(text)
    BY <1>1, <1>2, NotAdding
<1>4. DriftInv'
    BY <1>1, <1>3, DriftKept
<1>5. TranscriptTypeOK'
    BY <1>1, TranscriptConstants DEF TranscriptTypeOK, BeginTask, TranscriptConstants
<1>6. BackfillInv'
    <2> SUFFICES ASSUME ~shared'
                 PROVE  /\ \A v, u \in Recorders : task'[v] # Resting /\ task'[u] # Resting => v = u
                        /\ \A u \in Recorders : task'[u].kind = "backfill" =>
                              /\ ~task'[u].appended
                              /\ Kept' \subseteq task'[u].existing
        BY DEF BackfillInv
    <2>1. \A u \in Recorders : task[u] = Resting
        BY DEF BeginTask
    <2>2. Kept' = Kept
        BY <1>1 DEF Kept
    <2> QED
        BY <1>2, <2>1, <2>2 DEF Resting
<1> QED
    BY <1>2, <1>4, <1>5, <1>6 DEF TranscriptInv

LEMMA KeptType ==
    ASSUME TranscriptTypeOK
    PROVE  Kept \in SUBSET Texts
<1>1. lines \in Seq(Texts \cup {"torn"}) /\ tail \in Texts \cup {"none", "torn"}
    BY DEF TranscriptTypeOK
<1>2. \A n \in DOMAIN lines : lines[n] \in Texts \cup {"torn"}
    BY <1>1, LenProperties
<1> QED
    BY <1>1, <1>2 DEF Kept

LEMMA RecordTurnKeeps ==
    ASSUME TranscriptInv, NEW t \in Recorders, NEW text \in Texts, RecordTurn(t, text)
    PROVE  TranscriptInv'
<1> DEFINE new == [kind |-> "record", todo |-> <<text>>, existing |-> {}, appended |-> FALSE]
<1>1. new \in Task /\ ~new.appended /\ new.kind # "backfill"
    BY DEF Task
<1>2. BeginTask(t, new)
    BY DEF RecordTurn
<1> HIDE DEF new
<1> QED
    BY <1>1, <1>2, BeginTaskKeeps

LEMMA BackfillKeeps ==
    ASSUME TranscriptInv, NEW t \in Recorders, Backfill(t)
    PROVE  TranscriptInv'
<1> DEFINE new == [kind |-> "backfill", todo |-> Log, existing |-> Kept, appended |-> FALSE]
<1>1. new \in Task /\ ~new.appended /\ new.existing = Kept
    BY KeptType, TranscriptConstants DEF Task, TranscriptInv, TranscriptConstants
<1>2. BeginTask(t, new)
    BY DEF Backfill
<1> HIDE DEF new
<1> QED
    BY <1>1, <1>2, BeginTaskKeeps

LEMMA PassOverKeeps ==
    ASSUME TranscriptInv, NEW t \in Recorders, PassOver(t)
    PROVE  TranscriptInv'
<1>1. /\ TranscriptTypeOK /\ TasksTyped /\ DriftInv /\ BackfillInv
      /\ task[t] # Resting /\ ~task[t].appended
      /\ UNCHANGED <<lines, tail, chain, tasks, unstored, cut, crashes, shared>>
    BY DEF TranscriptInv, PassOver
<1>2. PICK new : new = [task[t] EXCEPT !.todo = Tail(@)]
    OBVIOUS
<1>3. /\ new \in Task
      /\ new.kind = task[t].kind /\ new.existing = task[t].existing /\ ~new.appended
    BY <1>1, <1>2, TaskMeans DEF PassOver, Task
<1>4. task' = [task EXCEPT ![t] = new]
    BY <1>1, <1>2 DEF PassOver, TasksTyped
<1>5. /\ TasksTyped'
      /\ \A u \in Recorders : task'[u] = IF u = t THEN new ELSE task[u]
      /\ \A text : Adding(text)' = Adding(text) \ {t}
    BY <1>1, <1>3, <1>4, NoneAdded
<1>6. \A text \in Texts : Adding(text)' = Adding(text)
    BY <1>1, <1>5, NotAdding
<1>7. DriftInv'
    BY <1>1, <1>6, DriftKept
<1>8. TranscriptTypeOK'
    BY <1>1 DEF TranscriptTypeOK
<1>9. BackfillInv'
    <2>1. Kept' = Kept /\ \A text : Count(lines', text) = Count(lines, text)
        BY <1>1 DEF Kept, Count
    <2>2. \A u \in Recorders : task'[u] # Resting => task[u] # Resting
        BY <1>1, <1>5
    <2> QED
        BY <1>1, <1>3, <1>5, <2>1, <2>2 DEF BackfillInv
<1> QED
    BY <1>5, <1>7, <1>8, <1>9 DEF TranscriptInv

LEMMA EndTaskKeeps ==
    ASSUME TranscriptInv, NEW t \in Recorders, EndTask(t)
    PROVE  TranscriptInv'
<1>1. /\ TranscriptTypeOK /\ TasksTyped /\ DriftInv /\ BackfillInv
      /\ task[t] # Resting /\ task[t].todo = <<>>
      /\ task' = [task EXCEPT ![t] = Resting]
      /\ UNCHANGED <<lines, tail, chain, tasks, unstored, cut, crashes, shared>>
    BY DEF TranscriptInv, EndTask
<1>2. /\ TasksTyped'
      /\ \A u \in Recorders : task'[u] = IF u = t THEN Resting ELSE task[u]
      /\ \A text : Adding(text)' = Adding(text) \ {t}
    BY <1>1, NoneAdded
<1>3. \A text \in Texts : Adding(text)' = Adding(text)
    BY <1>1, <1>2, NotAdding
<1>4. DriftInv'
    BY <1>1, <1>3, DriftKept
<1>5. TranscriptTypeOK'
    BY <1>1 DEF TranscriptTypeOK
<1>6. BackfillInv'
    <2>1. Kept' = Kept /\ \A text : Count(lines', text) = Count(lines, text)
        BY <1>1 DEF Kept, Count
    <2>2. Resting.kind # "backfill"
        BY DEF Resting
    <2> QED
        BY <1>1, <1>2, <2>1, <2>2 DEF BackfillInv
<1> QED
    BY <1>2, <1>4, <1>5, <1>6 DEF TranscriptInv

\* A thread that ends its task without a line or an event leaves things as they
\* are; a write of it that was cut off is counted.
LEMMA GivingUpKeeps ==
    ASSUME TranscriptInv, NEW t \in Recorders, Writing(t),
           UNCHANGED <<tail, cut>> \/ CutOff(Head(task[t].todo))
    PROVE  /\ tail' \in Texts \cup {"none", "torn"}
           /\ cut' \in Nat /\ cut <= cut'
           /\ tail' # tail => cut' = cut + 1
<1>1. TranscriptTypeOK /\ TasksTyped /\ task[t] # Resting /\ task[t].todo # <<>>
    BY DEF TranscriptInv, Writing
<1>2. Head(task[t].todo) \in Texts
    BY <1>1, TaskMeans
<1> QED
    BY <1>1, <1>2 DEF TranscriptTypeOK, CutOff

LEMMA AppendFailsKeeps ==
    ASSUME TranscriptInv, NEW t \in Recorders, AppendFails(t)
    PROVE  TranscriptInv'
<1>1. /\ TranscriptTypeOK /\ TasksTyped /\ DriftInv /\ BackfillInv
      /\ task[t] # Resting /\ ~task[t].appended
      /\ task' = [task EXCEPT ![t] = Resting]
      /\ UNCHANGED <<lines, chain, tasks, unstored, crashes, shared>>
    BY DEF TranscriptInv, AppendFails, Writing
<1>2. /\ tail' \in Texts \cup {"none", "torn"}
      /\ cut' \in Nat /\ cut <= cut'
      /\ tail' # tail => cut' = cut + 1
    BY GivingUpKeeps DEF AppendFails
<1>3. /\ TasksTyped'
      /\ \A u \in Recorders : task'[u] = IF u = t THEN Resting ELSE task[u]
      /\ \A text : Adding(text)' = Adding(text) \ {t}
    BY <1>1, NoneAdded
<1>4. \A text \in Texts : Adding(text)' = Adding(text)
    BY <1>1, <1>3, NotAdding
<1>5. TranscriptTypeOK'
    BY <1>1, <1>2 DEF TranscriptTypeOK
<1>6. DriftInv'
    <2> SUFFICES ASSUME NEW text \in Texts
                 PROVE  LET drift == Count(lines, text) - Count(chain, text) - unstored[text]
                                        - Cardinality(Adding(text))
                        IN  /\ drift <= crashes * Cardinality(Recorders)
                            /\ (IF tail' # "none" THEN 1 ELSE 0) - drift <= cut'
        BY <1>1, <1>4 DEF DriftInv, Count
    <2>1. /\ Count(lines, text) \in Nat /\ Count(chain, text) \in Nat
          /\ unstored[text] \in Nat /\ cut \in Nat
          /\ Cardinality(Adding(text)) \in Nat
        BY <1>1, CountsTyped, AddingFinite DEF TranscriptTypeOK
    <2>2. PICK drift : drift = Count(lines, text) - Count(chain, text) - unstored[text]
                                - Cardinality(Adding(text))
        OBVIOUS
    <2>3. drift \in Int
        BY <2>1, <2>2
    <2>4. /\ drift <= crashes * Cardinality(Recorders)
          /\ (IF tail # "none" THEN 1 ELSE 0) - drift <= cut
        BY <1>1, <2>2 DEF DriftInv
    <2>5. (IF tail' # "none" THEN 1 ELSE 0) - drift <= cut'
        BY <1>2, <2>1, <2>3, <2>4
    <2> QED
        BY <2>2, <2>4, <2>5
<1>7. BackfillInv'
    <2> SUFFICES ASSUME ~shared
                 PROVE  /\ \A v, u \in Recorders : task'[v] # Resting /\ task'[u] # Resting => v = u
                        /\ \A u \in Recorders : task'[u].kind # "backfill"
        BY <1>1 DEF BackfillInv
    <2>1. \A v, u \in Recorders : task[v] # Resting /\ task[u] # Resting => v = u
        BY <1>1 DEF BackfillInv
    <2>2. \A u \in Recorders : task'[u] = Resting
        BY <1>1, <1>3, <2>1
    <2> QED
        BY <2>2 DEF Resting
<1> QED
    BY <1>3, <1>5, <1>6, <1>7 DEF TranscriptInv

LEMMA AppendLineKeeps ==
    ASSUME TranscriptInv, NEW t \in Recorders, AppendLine(t)
    PROVE  TranscriptInv'
<1> DEFINE text == Head(task[t].todo)
<1>1. /\ TranscriptTypeOK /\ TasksTyped /\ DriftInv /\ BackfillInv
      /\ task[t] # Resting /\ task[t].todo # <<>> /\ ~task[t].appended /\ ~Known(t)
      /\ lines' = Append(lines, IF tail = "none" THEN text ELSE "torn") /\ tail' = "none"
      /\ UNCHANGED <<chain, tasks, unstored, cut, crashes, shared>>
    BY DEF TranscriptInv, AppendLine, Writing
<1>2. PICK new : new = [task[t] EXCEPT !.appended = TRUE]
    OBVIOUS
<1>3. /\ new \in Task /\ new # Resting
      /\ new.kind = task[t].kind /\ new.existing = task[t].existing
      /\ new.todo = task[t].todo /\ new.appended
    BY <1>1, <1>2, TaskMeans DEF Task, Resting
<1>4. task' = [task EXCEPT ![t] = new]
    BY <1>1, <1>2 DEF AppendLine, TasksTyped
<1>5. text \in Texts
    BY <1>1, TaskMeans
<1> HIDE DEF text
<1>6. /\ TasksTyped'
      /\ \A u \in Recorders : task'[u] = IF u = t THEN new ELSE task[u]
      /\ \A other : Adding(other)' = Adding(other) \cup (IF other = text THEN {t} ELSE {})
    <2>1. \A other : t \notin Adding(other)
        BY <1>1, NotAdding
    <2>2. /\ TasksTyped'
          /\ \A u \in Recorders : task'[u] = IF u = t THEN new ELSE task[u]
          /\ \A other : Adding(other)' = (Adding(other) \ {t}) \cup
                (IF new # Resting /\ new.todo # <<>> /\ new.appended /\ Head(new.todo) = other
                 THEN {t} ELSE {})
        BY <1>1, <1>3, <1>4, AddingMoves
    <2>3. Head(new.todo) = text
        BY <1>3 DEF text
    <2> QED
        BY <1>1, <1>3, <2>1, <2>2, <2>3
<1>7. /\ lines' \in Seq(Texts \cup {"torn"})
      /\ \A other \in Texts : Count(lines', other) =
            Count(lines, other) + (IF tail = "none" /\ text = other THEN 1 ELSE 0)
      /\ Kept' \subseteq Kept \cup {text}
    BY <1>1, <1>5, LineCounts
<1>8. TranscriptTypeOK'
    BY <1>1, <1>7 DEF TranscriptTypeOK
<1>9. DriftInv'
    <2> SUFFICES ASSUME NEW other \in Texts
                 PROVE  LET drift == Count(lines', other) - Count(chain, other) - unstored[other]
                                        - Cardinality(Adding(other)')
                        IN  drift <= crashes * Cardinality(Recorders) /\ 0 - drift <= cut
        BY <1>1 DEF DriftInv
    <2>1. /\ Count(lines, other) \in Nat /\ Count(chain, other) \in Nat
          /\ unstored[other] \in Nat /\ cut \in Nat
        BY <1>1, CountsTyped DEF TranscriptTypeOK
    <2>2. PICK a, l, c, r, s : /\ a = Cardinality(Adding(other)) /\ l = Count(lines, other)
                               /\ c = Count(chain, other) /\ r = crashes * Cardinality(Recorders)
                               /\ s = unstored[other]
        OBVIOUS
    <2>3. a \in Nat /\ l \in Nat /\ c \in Nat /\ r \in Int /\ s \in Nat
        <3>1. Cardinality(Recorders) \in Nat /\ a \in Nat
            BY <2>2, AddingFinite
        <3>2. crashes \in Nat
            BY <1>1 DEF TranscriptTypeOK
        <3> QED
            BY <2>1, <2>2, <3>1, <3>2
    <2>4. /\ l - c - s - a <= r
          /\ (IF tail # "none" THEN 1 ELSE 0) - (l - c - s - a) <= cut
        BY <1>1, <2>2 DEF DriftInv
    <2>5. Cardinality(Adding(other)') = a + (IF other = text THEN 1 ELSE 0)
        <3>1. t \notin Adding(other) /\ IsFiniteSet(Adding(other))
            BY <1>1, NotAdding, AddingFinite
        <3>2. CASE other = text
            <4>1. Adding(other)' = Adding(other) \cup {t}
                BY <1>6, <3>2
            <4> QED
                BY <2>2, <3>1, <3>2, <4>1, FS_AddElement
        <3>3. CASE other # text
            <4>1. Adding(other)' = Adding(other)
                BY <1>6, <3>3
            <4> QED
                BY <2>2, <2>3, <3>3, <4>1
        <3> QED
            BY <3>2, <3>3
    <2>6. Count(lines', other) = l + (IF tail = "none" /\ text = other THEN 1 ELSE 0)
        BY <1>7, <2>2
    <2>7. PICK a2, l2 : /\ a2 = Cardinality(Adding(other)') /\ l2 = Count(lines', other)
        OBVIOUS
    <2>8. l2 - c - s - a2 <= r /\ 0 - (l2 - c - s - a2) <= cut
        BY <2>1, <2>3, <2>4, <2>5, <2>6, <2>7
    <2> QED
        BY <2>2, <2>7, <2>8
<1>10. BackfillInv'
    <2> SUFFICES ASSUME ~shared
                 PROVE  /\ \A v, u \in Recorders : task'[v] # Resting /\ task'[u] # Resting => v = u
                        /\ \A u \in Recorders : task'[u].kind = "backfill" =>
                              /\ task'[u].appended
                              /\ task'[u].todo # <<>>
                              /\ Kept' \subseteq task'[u].existing \cup {Head(task'[u].todo)}
                              /\ Count(lines', Head(task'[u].todo)) <= 1
        BY <1>1 DEF BackfillInv, Count
    <2>1. \A v, u \in Recorders : task[v] # Resting /\ task[u] # Resting => v = u
        BY <1>1 DEF BackfillInv
    <2>2. \A u \in Recorders : task'[u].kind = "backfill" => u = t
        BY <1>1, <1>6, <2>1 DEF Resting
    <2>3. ASSUME task[t].kind = "backfill"
          PROVE  /\ Kept' \subseteq task[t].existing \cup {text}
                 /\ Count(lines', text) <= 1
        <3>1. Kept \subseteq task[t].existing /\ text \notin task[t].existing
            BY <1>1, <2>3 DEF BackfillInv, Known, text
        <3>2. Count(lines, text) = 0
            BY <1>1, <1>5, <3>1, NotKept
        <3> QED
            BY <1>5, <1>7, <3>1, <3>2
    <2>4. task'[t] = new
        BY <1>6
    <2> QED
        BY <1>1, <1>3, <1>6, <2>1, <2>2, <2>3, <2>4 DEF text
<1> QED
    BY <1>6, <1>8, <1>9, <1>10 DEF TranscriptInv

\* The event a thread was under way to is in the chain or among the refused.
LEMMA SettledCounts ==
    ASSUME TranscriptInv, NEW t \in Recorders, NEW new \in Task \cup {Resting},
           task[t] # Resting, task[t].todo # <<>>, task[t].appended,
           new = Resting \/ ~new.appended,
           task' = [task EXCEPT ![t] = new]
    PROVE  /\ TasksTyped'
           /\ \A u \in Recorders : task'[u] = IF u = t THEN new ELSE task[u]
           /\ \A other \in Texts :
                /\ Cardinality(Adding(other)') \in Nat
                /\ Cardinality(Adding(other)) =
                     Cardinality(Adding(other)') + (IF other = Head(task[t].todo) THEN 1 ELSE 0)
<1> DEFINE text == Head(task[t].todo)
<1>1. /\ TasksTyped'
      /\ \A u \in Recorders : task'[u] = IF u = t THEN new ELSE task[u]
      /\ \A other : Adding(other)' = Adding(other) \ {t}
    BY NoneAdded DEF TranscriptInv
<1>2. t \in Adding(text) /\ \A other : t \in Adding(other) => other = text
    BY DEF Adding, Between
<1> HIDE DEF text
<1>3. ASSUME NEW other \in Texts
      PROVE  /\ Cardinality(Adding(other)') \in Nat
             /\ Cardinality(Adding(other)) =
                  Cardinality(Adding(other)') + (IF other = text THEN 1 ELSE 0)
    <2>1. IsFiniteSet(Adding(other)) /\ Cardinality(Adding(other)) \in Nat
        BY AddingFinite
    <2>2. CASE other = text
        <3>1. Cardinality(Adding(other)') = Cardinality(Adding(other)) - 1
            BY <1>1, <1>2, <2>1, <2>2, FS_RemoveElement
        <3>2. IsFiniteSet(Adding(other)')
            BY <1>1, <2>1, FS_RemoveElement
        <3>3. Cardinality(Adding(other)') \in Nat
            BY <3>2, FS_CardinalityType
        <3> QED
            BY <2>1, <2>2, <3>1, <3>3
    <2>3. CASE other # text
        <3>1. Adding(other)' = Adding(other)
            BY <1>1, <1>2, <2>3
        <3> QED
            BY <2>1, <2>3, <3>1
    <2> QED
        BY <2>2, <2>3
<1> QED
    BY <1>1, <1>3 DEF text

LEMMA RecordEventKeeps ==
    ASSUME TranscriptInv, NEW t \in Recorders, RecordEvent(t)
    PROVE  TranscriptInv'
<1> DEFINE text == Head(task[t].todo)
<1>1. /\ TranscriptTypeOK /\ TasksTyped /\ DriftInv /\ BackfillInv
      /\ task[t] # Resting /\ task[t].todo # <<>> /\ task[t].appended
      /\ chain' = Append(chain, text)
      /\ UNCHANGED <<lines, tail, tasks, unstored, cut, crashes, shared>>
    BY DEF TranscriptInv, RecordEvent
<1>2. text \in Texts
    BY <1>1, TaskMeans
<1>3. PICK new : new = [task[t] EXCEPT !.todo = Tail(@), !.appended = FALSE,
                                       !.existing = @ \cup {text}]
    OBVIOUS
<1>4. /\ new \in Task /\ ~new.appended
      /\ new.kind = task[t].kind /\ new.existing = task[t].existing \cup {text}
    BY <1>1, <1>2, <1>3, TaskMeans DEF Task
<1>5. task' = [task EXCEPT ![t] = new]
    BY <1>1, <1>3 DEF RecordEvent, TasksTyped
<1>6. /\ TasksTyped'
      /\ \A u \in Recorders : task'[u] = IF u = t THEN new ELSE task[u]
      /\ \A other \in Texts :
            /\ Cardinality(Adding(other)') \in Nat
            /\ Cardinality(Adding(other)) =
                 Cardinality(Adding(other)') + (IF other = text THEN 1 ELSE 0)
    BY <1>1, <1>4, <1>5, SettledCounts
<1>7. chain \in Seq(Texts) /\ chain' \in Seq(Texts)
    BY <1>1, <1>2, AppendProperties DEF TranscriptTypeOK
<1> HIDE DEF text
<1>8. TranscriptTypeOK'
    BY <1>1, <1>7 DEF TranscriptTypeOK
<1>9. DriftInv'
    <2> SUFFICES ASSUME NEW other \in Texts
                 PROVE  Count(lines', other) - Count(chain', other) - unstored'[other]
                            - Cardinality(Adding(other)')
                        = Count(lines, other) - Count(chain, other) - unstored[other]
                            - Cardinality(Adding(other))
        BY <1>1 DEF DriftInv
    <2>1. /\ Count(lines, other) \in Nat /\ Count(chain, other) \in Nat
          /\ unstored[other] \in Nat
        BY <1>1, CountsTyped DEF TranscriptTypeOK
    <2>2. Count(chain', other) = Count(chain, other) + (IF text = other THEN 1 ELSE 0)
        BY <1>1, <1>2, <1>7, CountAppend
    <2>3. Count(lines', other) = Count(lines, other) /\ unstored'[other] = unstored[other]
        BY <1>1
    <2>4. PICK a, c, a2, c2, l, s : /\ a = Cardinality(Adding(other)) /\ c = Count(chain, other)
                                    /\ a2 = Cardinality(Adding(other)') /\ c2 = Count(chain', other)
                                    /\ l = Count(lines, other) /\ s = unstored[other]
        OBVIOUS
    <2>5. l - c2 - s - a2 = l - c - s - a
        BY <1>6, <2>1, <2>2, <2>4
    <2> QED
        BY <2>3, <2>4, <2>5
<1>10. BackfillInv'
    <2> SUFFICES ASSUME ~shared
                 PROVE  /\ \A v, u \in Recorders : task'[v] # Resting /\ task'[u] # Resting => v = u
                        /\ \A u \in Recorders : task'[u].kind = "backfill" =>
                              /\ ~task'[u].appended
                              /\ Kept' \subseteq task'[u].existing
        BY <1>1 DEF BackfillInv
    <2>1. \A v, u \in Recorders : task[v] # Resting /\ task[u] # Resting => v = u
        BY <1>1 DEF BackfillInv
    <2>2. \A u \in Recorders : task'[u].kind = "backfill" => u = t
        BY <1>1, <1>6, <2>1 DEF Resting
    <2>3. task[t].kind = "backfill" => Kept \subseteq task[t].existing \cup {text}
        BY <1>1 DEF BackfillInv, text
    <2>4. Kept' = Kept /\ task'[t] = new
        BY <1>1, <1>6 DEF Kept
    <2> QED
        BY <1>1, <1>4, <1>6, <2>1, <2>2, <2>3, <2>4
<1> QED
    BY <1>6, <1>8, <1>9, <1>10 DEF TranscriptInv

LEMMA RecordFailsKeeps ==
    ASSUME TranscriptInv, NEW t \in Recorders, RecordFails(t)
    PROVE  TranscriptInv'
<1> DEFINE text == Head(task[t].todo)
<1>1. /\ TranscriptTypeOK /\ TasksTyped /\ DriftInv /\ BackfillInv
      /\ task[t] # Resting /\ task[t].todo # <<>> /\ task[t].appended
      /\ unstored' = [unstored EXCEPT ![text] = @ + 1]
      /\ task' = [task EXCEPT ![t] = Resting]
      /\ UNCHANGED <<lines, tail, chain, tasks, cut, crashes, shared>>
    BY DEF TranscriptInv, RecordFails
<1>2. text \in Texts
    BY <1>1, TaskMeans
<1>3. /\ TasksTyped'
      /\ \A u \in Recorders : task'[u] = IF u = t THEN Resting ELSE task[u]
      /\ \A other \in Texts :
            /\ Cardinality(Adding(other)') \in Nat
            /\ Cardinality(Adding(other)) =
                 Cardinality(Adding(other)') + (IF other = text THEN 1 ELSE 0)
    BY <1>1, SettledCounts
<1> HIDE DEF text
<1>4. /\ unstored' \in [Texts -> Nat]
      /\ \A other \in Texts : /\ unstored[other] \in Nat
                              /\ unstored'[other] = unstored[other] + (IF other = text THEN 1 ELSE 0)
    BY <1>1, <1>2 DEF TranscriptTypeOK
<1>5. TranscriptTypeOK'
    BY <1>1, <1>4 DEF TranscriptTypeOK
<1>6. DriftInv'
    <2> SUFFICES ASSUME NEW other \in Texts
                 PROVE  Count(lines', other) - Count(chain', other) - unstored'[other]
                            - Cardinality(Adding(other)')
                        = Count(lines, other) - Count(chain, other) - unstored[other]
                            - Cardinality(Adding(other))
        BY <1>1 DEF DriftInv
    <2>1. Count(lines, other) \in Nat /\ Count(chain, other) \in Nat
        BY <1>1, CountsTyped
    <2>2. Count(lines', other) = Count(lines, other) /\ Count(chain', other) = Count(chain, other)
        BY <1>1
    <2>3. PICK a, c, a2, l, s, s2 : /\ a = Cardinality(Adding(other)) /\ c = Count(chain, other)
                                    /\ a2 = Cardinality(Adding(other)') /\ l = Count(lines, other)
                                    /\ s = unstored[other] /\ s2 = unstored'[other]
        OBVIOUS
    <2>4. l - c - s2 - a2 = l - c - s - a
        BY <1>3, <1>4, <2>1, <2>3
    <2> QED
        BY <2>2, <2>3, <2>4
<1>7. BackfillInv'
    <2> SUFFICES ASSUME ~shared
                 PROVE  /\ \A v, u \in Recorders : task'[v] # Resting /\ task'[u] # Resting => v = u
                        /\ \A u \in Recorders : task'[u].kind # "backfill"
        BY <1>1 DEF BackfillInv
    <2>1. \A v, u \in Recorders : task[v] # Resting /\ task[u] # Resting => v = u
        BY <1>1 DEF BackfillInv
    <2>2. \A u \in Recorders : task'[u] = Resting
        BY <1>1, <1>3, <2>1
    <2> QED
        BY <2>2 DEF Resting
<1> QED
    BY <1>3, <1>5, <1>6, <1>7 DEF TranscriptInv

LEMMA TranscriptCrashKeeps ==
    ASSUME TranscriptInv, Crash
    PROVE  TranscriptInv'
<1>1. /\ TranscriptTypeOK /\ TasksTyped /\ DriftInv
      /\ crashes < MaxCrashes /\ crashes' = crashes + 1
      /\ task' = [t \in Recorders |-> Resting]
      /\ UNCHANGED <<lines, chain, tasks, unstored, shared>>
    BY DEF TranscriptInv, Crash
<1>2. crashes \in Nat /\ cut \in Nat
    BY <1>1 DEF TranscriptTypeOK
<1>3. TasksTyped'
    BY <1>1 DEF TasksTyped
<1>4. /\ tail' \in Texts \cup {"none", "torn"}
      /\ cut' \in Nat /\ cut <= cut'
      /\ tail' # tail => cut' = cut + 1
    <2>1. CASE UNCHANGED <<tail, cut>>
        BY <1>1, <2>1 DEF TranscriptTypeOK
    <2>2. ASSUME NEW t \in Recorders, Writing(t), CutOff(Head(task[t].todo))
          PROVE  /\ tail' \in Texts \cup {"none", "torn"}
                 /\ cut' \in Nat /\ cut <= cut'
                 /\ tail' # tail => cut' = cut + 1
        BY <2>2, GivingUpKeeps
    <2> QED
        BY <2>1, <2>2 DEF Crash
<1>5. crashes' \in 0..MaxCrashes
    BY <1>1, TranscriptConstants DEF TranscriptTypeOK, TranscriptConstants
<1>6. TranscriptTypeOK'
    BY <1>1, <1>4, <1>5 DEF TranscriptTypeOK
<1>7. DriftInv'
    <2> SUFFICES ASSUME NEW text \in Texts
                 PROVE  LET drift == Count(lines, text) - Count(chain, text) - unstored[text]
                                        - Cardinality(Adding(text)')
                        IN  /\ drift <= (crashes + 1) * Cardinality(Recorders)
                            /\ (IF tail' # "none" THEN 1 ELSE 0) - drift <= cut'
        BY <1>1 DEF DriftInv
    <2>1. /\ Count(lines, text) \in Nat /\ Count(chain, text) \in Nat
          /\ unstored[text] \in Nat
          /\ Cardinality(Adding(text)) \in Nat /\ Cardinality(Recorders) \in Nat
          /\ Cardinality(Adding(text)) <= Cardinality(Recorders)
        BY <1>1, CountsTyped, AddingFinite DEF TranscriptTypeOK
    <2>2. PICK a, l, c, n, k, s : /\ a = Cardinality(Adding(text)) /\ l = Count(lines, text)
                                  /\ c = Count(chain, text) /\ n = Cardinality(Recorders)
                                  /\ k = crashes /\ s = unstored[text]
        OBVIOUS
    <2>3. a \in Nat /\ l \in Nat /\ c \in Nat /\ n \in Nat /\ k \in Nat /\ s \in Nat /\ a <= n
        BY <1>2, <2>1, <2>2
    <2>4. /\ l - c - s - a <= k * n
          /\ (IF tail # "none" THEN 1 ELSE 0) - (l - c - s - a) <= cut
        BY <1>1, <2>2 DEF DriftInv
    <2>5. (k + 1) * n = k * n + n /\ k * n \in Nat
        BY <2>3
    <2>6. Cardinality(Adding(text)') = 0
        <3>1. Adding(text)' = {}
            BY <1>1 DEF Adding, Between
        <3> QED
            BY <3>1, FS_EmptySet
    <2>7. PICK m : m = k * n
        OBVIOUS
    <2>8. l - c - s - 0 <= m + n
        BY <2>3, <2>4, <2>5, <2>7
    <2>9. (IF tail' # "none" THEN 1 ELSE 0) - (l - c - s - 0) <= cut'
        <3>1. l - c - s - a <= l - c - s
            BY <2>3
        <3>2. (IF tail # "none" THEN 1 ELSE 0) - (l - c - s) <= cut
            BY <1>2, <2>3, <2>4, <3>1
        <3> QED
            BY <1>2, <1>4, <2>3, <3>2
    <2> QED
        BY <2>2, <2>5, <2>6, <2>7, <2>8, <2>9
<1>8. BackfillInv'
    BY <1>1 DEF BackfillInv, Resting
<1> QED
    BY <1>3, <1>6, <1>7, <1>8 DEF TranscriptInv

LEMMA TranscriptStep == TranscriptInv /\ [TranscriptNext]_transcriptVars => TranscriptInv'
<1> SUFFICES ASSUME TranscriptInv, [TranscriptNext]_transcriptVars
             PROVE  TranscriptInv'
    OBVIOUS
<1>1. CASE Crash
    BY <1>1, TranscriptCrashKeeps
<1>2. ASSUME NEW t \in Recorders, NEW text \in Texts, RecordTurn(t, text)
      PROVE  TranscriptInv'
    BY <1>2, RecordTurnKeeps
<1>3. ASSUME NEW t \in Recorders,
             \/ Backfill(t) \/ PassOver(t) \/ EndTask(t)
             \/ AppendLine(t) \/ AppendFails(t)
             \/ RecordEvent(t) \/ RecordFails(t)
      PROVE  TranscriptInv'
    BY <1>3, BackfillKeeps, PassOverKeeps, EndTaskKeeps, AppendLineKeeps, AppendFailsKeeps,
       RecordEventKeeps, RecordFailsKeeps
<1>4. CASE UNCHANGED transcriptVars
    <2>1. UNCHANGED <<lines, tail, chain, task, tasks, unstored, cut, crashes, shared>>
        BY <1>4 DEF transcriptVars
    <2>2. TranscriptTypeOK' /\ TasksTyped'
        BY <2>1 DEF TranscriptInv, TranscriptTypeOK, TasksTyped
    <2>3. \A text : Adding(text)' = Adding(text)
        BY <2>1 DEF Adding, Between
    <2>4. DriftInv'
        BY <2>1, <2>3, DriftKept DEF TranscriptInv
    <2>5. Kept' = Kept /\ \A text : Count(lines', text) = Count(lines, text)
        BY <2>1 DEF Count, Kept
    <2>6. BackfillInv'
        BY <2>1, <2>5 DEF TranscriptInv, BackfillInv
    <2> QED
        BY <2>2, <2>4, <2>6 DEF TranscriptInv
<1> QED
    BY <1>1, <1>2, <1>3, <1>4 DEF TranscriptNext

LEMMA TranscriptInvSafe == TranscriptInv => TranscriptsSafe
<1> SUFFICES ASSUME TranscriptInv PROVE TranscriptsSafe
    OBVIOUS
<1>1. TranscriptTypeOK /\ TasksTyped /\ DriftInv /\ BackfillInv
    BY DEF TranscriptInv
<1>2. FileIsChain
    <2> SUFFICES ASSUME crashes = 0, cut = 0, NEW text \in Texts
                 PROVE  Count(lines, text) =
                            Count(chain, text) + unstored[text] + Cardinality(Adding(text))
        BY DEF FileIsChain, Adding
    <2>1. PICK a, l, c, n, s : /\ a = Cardinality(Adding(text)) /\ l = Count(lines, text)
                               /\ c = Count(chain, text) /\ n = Cardinality(Recorders)
                               /\ s = unstored[text]
        OBVIOUS
    <2>2. a \in Nat /\ l \in Nat /\ c \in Nat /\ n \in Nat /\ s \in Nat
        BY <1>1, <2>1, CountsTyped, AddingFinite DEF TranscriptTypeOK
    <2>3. 0 * n = 0
        BY <2>2
    <2>4. l - c - s - a <= 0 * n /\ (IF tail # "none" THEN 1 ELSE 0) - (l - c - s - a) <= 0
        BY <1>1, <2>1 DEF DriftInv
    <2>5. l = c + s + a
        BY <2>2, <2>3, <2>4
    <2> QED
        BY <2>1, <2>5
<1>3. CrashesLoseLittle
    <2> SUFFICES ASSUME \A t \in Recorders : task[t] = Resting, NEW text \in Texts
                 PROVE  LET more == Count(lines, text) - Count(chain, text) - unstored[text]
                        IN  more <= crashes * Cardinality(Recorders) /\ -more <= cut
        BY DEF CrashesLoseLittle
    <2>1. PICK l, c, r, s : /\ l = Count(lines, text) /\ c = Count(chain, text)
                            /\ r = crashes * Cardinality(Recorders) /\ s = unstored[text]
        OBVIOUS
    <2>2. Cardinality(Adding(text)) = 0
        <3>1. Adding(text) = {}
            BY DEF Adding, Between
        <3> QED
            BY <3>1, FS_EmptySet
    <2>3. l \in Nat /\ c \in Nat /\ cut \in Nat /\ r \in Int /\ s \in Nat
        BY <1>1, <2>1, CountsTyped, AddingFinite DEF TranscriptTypeOK
    <2>4. l - c - s - 0 <= r /\ (IF tail # "none" THEN 1 ELSE 0) - (l - c - s - 0) <= cut
        BY <1>1, <2>1, <2>2 DEF DriftInv
    <2>5. l - c - s <= r /\ -(l - c - s) <= cut
        BY <2>3, <2>4
    <2> QED
        BY <2>1, <2>5
<1>4. BackfillOnce
    BY <1>1 DEF BackfillInv, BackfillOnce
<1> QED
    BY <1>1, <1>2, <1>3, <1>4 DEF TranscriptsSafe

\* However threads overlap, whichever write fails and wherever the process dies,
\* file and chain differ by the turns under way, by those whose event the store
\* refused, and by no more than the crashes and the writes cut off took; and a
\* backfill adds nothing that the file holds (chp-adapter-messages, host.record_turn).
THEOREM TranscriptsStaySafe == TranscriptSpec => []TranscriptsSafe
<1> QED
    BY TranscriptStarts, TranscriptStep, TranscriptInvSafe, PTL DEF TranscriptSpec

-----------------------------------------------------------------------------
(***************************************************************************)
(* Workflow, for any definitions, number of threads and runs.              *)
(***************************************************************************)
Kinds == {"started", "step_started", "step_completed", "step_failed", "run_failed", "complete"}

Entry == [kind : Kinds, step : Nat] \cup [kind : Kinds, completed : Nat, failed : Nat]

Run ==
    [at : {"step", "invoke", "succeeded", "failed", "failing"}, id : Nat,
     steps : Seq(BOOLEAN), next : Nat, results : Seq(BOOLEAN)]

\* The steps that a log names in events of a kind.
Named(l, kind) == {l[i].step : i \in {j \in DOMAIN l : l[j].kind = kind}}

Ending == {"complete", "run_failed"}

Ascending(e) == \A i, j \in DOMAIN e : i < j => e[i] < e[j]

Passed(r) == {i \in 1..r.next - 1 : r.results[i] = TRUE}

Missed(r) == {i \in 1..r.next - 1 : r.results[i] = FALSE}

\* A run at its next step.
PassedOn(r) == [r EXCEPT !.at = "step", !.next = @ + 1, !.results = Append(@, TRUE)]

MissedOn(r) == [r EXCEPT !.at = "step", !.next = @ + 1, !.results = Append(@, FALSE)]

RunAdvanced(r, outcome) == [r EXCEPT !.at = "step", !.next = @ + 1, !.results = Append(@, outcome)]

\* What a log must tell of a run that has ended.
Tells(l, e, c) ==
    LET last == Last(l)
        completed == Named(l, "step_completed")
        failed == Named(l, "step_failed")
    IN  /\ completed \subseteq ToSet(e)
        /\ completed \cap failed = {}
        /\ \/ /\ last.kind = "complete"
              /\ completed \cup failed = DOMAIN c
              /\ last.completed = Cardinality(completed)
              /\ last.failed = Cardinality(failed)
           \/ /\ last.kind = "run_failed"
              /\ last.step \in failed
              /\ {s \in failed : ~c[s]} = {last.step}
              /\ completed \cup failed = 1..last.step

\* What holds of the log, the effects and the definition of every run.
Sound(l, e, c) ==
    /\ l # <<>>
    /\ Ascending(e)
    /\ ToSet(e) \subseteq Named(l, "step_started")
    /\ \A failed \in Named(l, "step_failed") : \A step \in ToSet(e) : step > failed => c[failed]
    /\ Last(l).kind \in Ending => Tells(l, e, c)

\* What holds of a run that a thread is at.
Live(r, l, e, c) ==
    /\ r.steps = c
    /\ r.next \in 1..Len(c) + 1
    /\ r.at # "step" => r.next <= Len(c)
    /\ Len(r.results) = r.next - 1
    /\ l # <<>> /\ Last(l).kind \notin Ending
    /\ Named(l, "step_started") = 1..(IF r.at = "step" THEN r.next - 1 ELSE r.next)
    /\ Named(l, "step_completed") = Passed(r)
    /\ Named(l, "step_failed") = Missed(r) \cup (IF r.at = "failing" THEN {r.next} ELSE {})
    /\ \A i \in Missed(r) : c[i]
    /\ r.at = "failing" => ~c[r.next]
    /\ ToSet(e) \subseteq
         1..(IF r.at \in {"succeeded", "failed", "failing"} THEN r.next ELSE r.next - 1)
    /\ Ascending(e)
    /\ Passed(r) \subseteq ToSet(e)
    /\ r.at = "succeeded" => r.next \in ToSet(e)

WorkflowTyped ==
    /\ defined \in Definitions \cup {<<>>}
    /\ log \in Seq(Seq(Entry))
    /\ effects \in Seq(Seq(Nat))
    /\ chosen \in Seq(Seq(BOOLEAN))
    /\ Len(log) <= MaxRuns
    /\ Len(effects) = Len(log)
    /\ Len(chosen) = Len(log)
    /\ run \in [Runners -> Run \cup {NoRun}]

RunsInv ==
    \A t \in Runners : run[t] # NoRun =>
        /\ run[t].id \in DOMAIN log
        /\ Live(run[t], log[run[t].id], effects[run[t].id], chosen[run[t].id])

RunsApart ==
    \A t, u \in Runners : (run[t] # NoRun /\ run[u] # NoRun /\ run[t].id = run[u].id) => t = u

LogsInv == \A n \in DOMAIN log : Sound(log[n], effects[n], chosen[n])

WorkflowInv == WorkflowTyped /\ RunsInv /\ RunsApart /\ LogsInv

-----------------------------------------------------------------------------
LEMMA NamedAppend ==
    ASSUME NEW l \in Seq(Entry), NEW new \in Entry
    PROVE  /\ Append(l, new) \in Seq(Entry)
           /\ Append(l, new) # <<>>
           /\ Last(Append(l, new)) = new
           /\ \A kind : Named(Append(l, new), kind) =
                Named(l, kind) \cup (IF new.kind = kind THEN {new.step} ELSE {})
<1>1. PICK more : more = Append(l, new)
    OBVIOUS
<1>2. /\ more \in Seq(Entry) /\ more # <<>> /\ Len(more) = Len(l) + 1
      /\ \A i \in 1..Len(l) : more[i] = l[i]
      /\ more[Len(l) + 1] = new
    BY <1>1, AppendProperties
<1>3. Len(l) \in Nat /\ DOMAIN l = 1..Len(l) /\ DOMAIN more = 1..Len(l) + 1
    BY <1>2, LenProperties
<1>4. Last(more) = new
    BY <1>2 DEF Last
<1>5. \A i \in DOMAIN more : i \in DOMAIN l \/ i = Len(l) + 1
    BY <1>3
<1>6. \A i \in DOMAIN l : i \in DOMAIN more /\ more[i] = l[i]
    BY <1>2, <1>3
<1>7. Len(l) + 1 \in DOMAIN more
    BY <1>3
<1>8. ASSUME NEW kind
      PROVE  Named(more, kind) = Named(l, kind) \cup (IF new.kind = kind THEN {new.step} ELSE {})
    BY <1>2, <1>5, <1>6, <1>7 DEF Named
<1> QED
    BY <1>1, <1>2, <1>4, <1>8

LEMMA EffectsAppend ==
    ASSUME NEW e \in Seq(Nat), NEW x \in Nat, Ascending(e), \A y \in ToSet(e) : y < x
    PROVE  /\ Append(e, x) \in Seq(Nat)
           /\ Ascending(Append(e, x))
           /\ ToSet(Append(e, x)) = ToSet(e) \cup {x}
<1>1. PICK more : more = Append(e, x)
    OBVIOUS
<1>2. /\ more \in Seq(Nat) /\ Len(more) = Len(e) + 1
      /\ \A i \in 1..Len(e) : more[i] = e[i]
      /\ more[Len(e) + 1] = x
    BY <1>1, AppendProperties
<1>3. Len(e) \in Nat /\ DOMAIN e = 1..Len(e) /\ DOMAIN more = 1..Len(e) + 1
    BY <1>2, LenProperties
<1>4. \A i \in DOMAIN more : (i \in DOMAIN e /\ more[i] = e[i]) \/ (i = Len(e) + 1 /\ more[i] = x)
    BY <1>2, <1>3
<1>5. \A i \in DOMAIN e : i \in DOMAIN more /\ more[i] = e[i] /\ i < Len(e) + 1 /\ e[i] < x
    BY <1>2, <1>3 DEF ToSet
<1>6. Ascending(more)
    <2> SUFFICES ASSUME NEW i \in DOMAIN more, NEW j \in DOMAIN more, i < j
                 PROVE  more[i] < more[j]
        BY DEF Ascending
    <2>1. i \in DOMAIN e
        BY <1>3
    <2>2. CASE j \in DOMAIN e
        BY <1>5, <2>1, <2>2 DEF Ascending
    <2>3. CASE j = Len(e) + 1
        BY <1>2, <1>5, <2>1, <2>3
    <2> QED
        BY <1>4, <2>2, <2>3
<1>7. ToSet(more) = ToSet(e) \cup {x}
    <2>1. Len(e) + 1 \in DOMAIN more
        BY <1>3
    <2> QED
        BY <1>2, <1>4, <1>5, <2>1 DEF ToSet
<1> QED
    BY <1>1, <1>2, <1>6, <1>7

LEMMA EventIsEntry ==
    ASSUME NEW kind \in Kinds, NEW step \in Nat
    PROVE  /\ Event(kind, step) \in Entry
           /\ Event(kind, step).kind = kind
           /\ Event(kind, step).step = step
BY DEF Event, Entry

LEMMA TotalIsEntry ==
    ASSUME NEW kind \in Kinds, NEW completed \in Nat, NEW failed \in Nat
    PROVE  /\ Total(kind, completed, failed) \in Entry
           /\ Total(kind, completed, failed).kind = kind
           /\ Total(kind, completed, failed).completed = completed
           /\ Total(kind, completed, failed).failed = failed
BY DEF Total, Entry

LEMMA EventAppend ==
    ASSUME NEW l \in Seq(Entry), NEW kind \in Kinds, NEW step \in Nat
    PROVE  /\ Append(l, Event(kind, step)) \in Seq(Entry)
           /\ Append(l, Event(kind, step)) # <<>>
           /\ Last(Append(l, Event(kind, step))).kind = kind
           /\ Last(Append(l, Event(kind, step))).step = step
           /\ Named(Append(l, Event(kind, step)), kind) = Named(l, kind) \cup {step}
           /\ \A other : other # kind => Named(Append(l, Event(kind, step)), other) = Named(l, other)
<1>1. PICK new : new = Event(kind, step)
    OBVIOUS
<1>2. new \in Entry /\ new.kind = kind /\ new.step = step
    BY <1>1, EventIsEntry
<1>3. /\ Append(l, new) \in Seq(Entry) /\ Append(l, new) # <<>> /\ Last(Append(l, new)) = new
      /\ \A other : Named(Append(l, new), other) =
           Named(l, other) \cup (IF new.kind = other THEN {new.step} ELSE {})
    BY <1>2, NamedAppend
<1>4. Named(Append(l, new), kind) = Named(l, kind) \cup {step}
    BY <1>2, <1>3
<1>5. \A other : other # kind => Named(Append(l, new), other) = Named(l, other)
    BY <1>2, <1>3
<1> QED
    BY <1>1, <1>2, <1>3, <1>4, <1>5

\* What is known of a live run holds of every run.
LEMMA LiveIsSound ==
    ASSUME NEW r \in Run, NEW l, NEW e, NEW c \in Seq(BOOLEAN), Live(r, l, e, c)
    PROVE  Sound(l, e, c)
<1>1. r.next \in Nat /\ Len(c) \in Nat
    BY LenProperties DEF Run
<1>2. ToSet(e) \subseteq Named(l, "step_started")
    <2>1. CASE r.at = "step"
        BY <1>1, <2>1 DEF Live
    <2>2. CASE r.at # "step"
        BY <1>1, <2>2 DEF Live
    <2> QED
        BY <2>1, <2>2
<1>3. ASSUME NEW failed \in Named(l, "step_failed"), NEW step \in ToSet(e), step > failed
      PROVE  c[failed]
    <2>1. step \in 1..r.next
        BY <1>1 DEF Live
    <2>2. failed # r.next
        BY <1>1, <1>3, <2>1
    <2>3. failed \in Missed(r)
        BY <2>2 DEF Live
    <2> QED
        BY <2>3 DEF Live
<1> QED
    BY <1>2, <1>3 DEF Sound, Live

LEMMA RunMeans ==
    ASSUME NEW r \in Run, NEW l, NEW e, NEW c \in Seq(BOOLEAN), Live(r, l, e, c)
    PROVE  /\ r.next \in Nat \ {0} /\ r.id \in Nat /\ r.steps = c /\ Len(c) \in Nat
           /\ r.results \in Seq(BOOLEAN) /\ Len(r.results) = r.next - 1
           /\ DOMAIN r.results = 1..r.next - 1
           /\ \A i \in 1..r.next - 1 : r.results[i] \in BOOLEAN
           /\ Passed(r) \in SUBSET (1..r.next - 1) /\ Missed(r) \in SUBSET (1..r.next - 1)
           /\ Passed(r) \cup Missed(r) = 1..r.next - 1
           /\ Passed(r) \cap Missed(r) = {}
<1>1. /\ r.next \in Nat \ {0} /\ r.id \in Nat /\ r.steps = c /\ Len(c) \in Nat
      /\ r.results \in Seq(BOOLEAN) /\ Len(r.results) = r.next - 1
    BY LenProperties DEF Run, Live
<1>2. /\ DOMAIN r.results = 1..r.next - 1
      /\ \A i \in 1..r.next - 1 : r.results[i] \in BOOLEAN
    BY <1>1, LenProperties, ElementOfSeq
<1> QED
    BY <1>1, <1>2 DEF Passed, Missed

\* step_started
LEMMA LiveStarts ==
    ASSUME NEW r \in Run, NEW l \in Seq(Entry), NEW e \in Seq(Nat), NEW c \in Seq(BOOLEAN),
           Live(r, l, e, c), r.at = "step", r.next <= Len(c), NEW later, later = [r EXCEPT !.at = "invoke"]
    PROVE  /\ later \in Run
           /\ later.id = r.id
           /\ Append(l, Event("step_started", r.next)) \in Seq(Entry)
           /\ Live(later, Append(l, Event("step_started", r.next)), e, c)
<1>0. PICK l2 : l2 = Append(l, Event("step_started", r.next))
    OBVIOUS
<1> USE <1>0
<1>1. /\ later \in Run /\ later.id = r.id /\ later.at = "invoke"
      /\ later.steps = r.steps /\ later.next = r.next /\ later.results = r.results
    BY DEF Run
<1>2. /\ l2 \in Seq(Entry) /\ l2 # <<>> /\ Last(l2).kind \notin Ending
      /\ Named(l2, "step_started") = Named(l, "step_started") \cup {r.next}
      /\ Named(l2, "step_completed") = Named(l, "step_completed")
      /\ Named(l2, "step_failed") = Named(l, "step_failed")
    <2>1. r.next \in Nat
        BY RunMeans
    <2>2. "step_started" \in Kinds
        BY DEF Kinds
    <2>3. PICK n, more : n = r.next /\ more = Append(l, Event("step_started", n))
        OBVIOUS
    <2>4. n \in Nat /\ more = l2
        BY <2>1, <2>3
    <2>5. /\ more \in Seq(Entry) /\ more # <<>>
          /\ Last(more).kind = "step_started" /\ Last(more).step = n
          /\ Named(more, "step_started") = Named(l, "step_started") \cup {n}
        <3>1. more \in Seq(Entry) /\ more # <<>>
            BY <2>2, <2>3, <2>4, EventAppend
        <3>2. Last(more).kind = "step_started" /\ Last(more).step = n
            BY <2>2, <2>3, <2>4, EventAppend
        <3>3. Named(more, "step_started") = Named(l, "step_started") \cup {n}
            BY <2>2, <2>3, <2>4, EventAppend
        <3> QED
            BY <3>1, <3>2, <3>3
    <2>6. \A other : other # "step_started" => Named(more, other) = Named(l, other)
        BY <2>2, <2>3, <2>4, EventAppend
    <2> QED
        BY <2>3, <2>4, <2>5, <2>6 DEF Ending
<1>3. Passed(later) = Passed(r) /\ Missed(later) = Missed(r)
    BY <1>1 DEF Passed, Missed
<1>4. r.next \in Nat \ {0} /\ Named(l, "step_started") = 1..r.next - 1
    BY RunMeans DEF Live
<1>5. Named(l2, "step_started") = 1..r.next
    <2>1. 1..r.next = (1..r.next - 1) \cup {r.next}
        BY <1>4
    <2> QED
        BY <1>2, <1>4, <2>1
<1>6. Live(later, l2, e, c)
    BY <1>1, <1>2, <1>3, <1>5 DEF Live
<1> QED
    BY <1>1, <1>2, <1>6

\* The nested invocation: the step was executed, or it was not and failed.
LEMMA LiveExecutes ==
    ASSUME NEW r \in Run, NEW l \in Seq(Entry), NEW e \in Seq(Nat), NEW c \in Seq(BOOLEAN),
           Live(r, l, e, c), r.at = "invoke", NEW to \in {"succeeded", "failed"},
           NEW later, later = [r EXCEPT !.at = to]
    PROVE  /\ later \in Run
           /\ later.id = r.id
           /\ Append(e, r.next) \in Seq(Nat)
           /\ Live(later, l, Append(e, r.next), c)
<1>0. PICK e2 : e2 = Append(e, r.next)
    OBVIOUS
<1> USE <1>0
<1>1. /\ later \in Run /\ later.id = r.id /\ later.at = to
      /\ later.steps = r.steps /\ later.next = r.next /\ later.results = r.results
    BY DEF Run
<1>2. Passed(later) = Passed(r) /\ Missed(later) = Missed(r)
    BY <1>1 DEF Passed, Missed
<1>3. r.next \in Nat \ {0} /\ ToSet(e) \subseteq 1..r.next - 1 /\ Ascending(e)
    BY RunMeans DEF Live
<1>4. \A y \in ToSet(e) : y < r.next
    BY <1>3
<1>5. e2 \in Seq(Nat) /\ Ascending(e2) /\ ToSet(e2) = ToSet(e) \cup {r.next}
    BY <1>3, <1>4, EffectsAppend
<1>6. ToSet(e2) \subseteq 1..r.next
    BY <1>3, <1>5
<1>7. Live(later, l, e2, c)
    BY <1>1, <1>2, <1>5, <1>6 DEF Live
<1> QED
    BY <1>1, <1>5, <1>7

LEMMA LiveRefused ==
    ASSUME NEW r \in Run, NEW l \in Seq(Entry), NEW e \in Seq(Nat), NEW c \in Seq(BOOLEAN),
           Live(r, l, e, c), r.at = "invoke", NEW later, later = [r EXCEPT !.at = "failed"]
    PROVE  later \in Run /\ later.id = r.id /\ Live(later, l, e, c)
<1>1. /\ later \in Run /\ later.id = r.id /\ later.at = "failed"
      /\ later.steps = r.steps /\ later.next = r.next /\ later.results = r.results
    BY DEF Run
<1>2. Passed(later) = Passed(r) /\ Missed(later) = Missed(r)
    BY <1>1 DEF Passed, Missed
<1>3. r.next \in Nat \ {0} /\ ToSet(e) \subseteq 1..r.next - 1
    BY RunMeans DEF Live
<1>4. ToSet(e) \subseteq 1..r.next
    BY <1>3
<1>5. Live(later, l, e, c)
    BY <1>1, <1>2, <1>4 DEF Live
<1> QED
    BY <1>1, <1>5

\* The next step, with the outcome of this one: the outcomes so far are those
\* before and this one.
LEMMA ResultMore ==
    ASSUME NEW r \in Run, NEW l, NEW e, NEW c \in Seq(BOOLEAN), Live(r, l, e, c),
           NEW outcome \in BOOLEAN
    PROVE  /\ RunAdvanced(r, outcome) \in Run /\ RunAdvanced(r, outcome).id = r.id
           /\ RunAdvanced(r, outcome).at = "step"
           /\ RunAdvanced(r, outcome).steps = r.steps /\ RunAdvanced(r, outcome).next = r.next + 1
           /\ Len(RunAdvanced(r, outcome).results) = RunAdvanced(r, outcome).next - 1
           /\ Passed(RunAdvanced(r, outcome)) = Passed(r) \cup (IF outcome THEN {r.next} ELSE {})
           /\ Missed(RunAdvanced(r, outcome)) = Missed(r) \cup (IF outcome THEN {} ELSE {r.next})
<1>1. /\ r.next \in Nat \ {0} /\ r.results \in Seq(BOOLEAN) /\ Len(r.results) = r.next - 1
    BY RunMeans
<1>2. PICK more, later : more = Append(r.results, outcome) /\ later = RunAdvanced(r, outcome)
    OBVIOUS
<1>3. /\ more \in Seq(BOOLEAN) /\ Len(more) = Len(r.results) + 1
      /\ \A i \in 1..Len(r.results) : more[i] = r.results[i]
      /\ more[Len(r.results) + 1] = outcome
    BY <1>1, <1>2, AppendProperties
<1>4. /\ later \in Run /\ later.id = r.id /\ later.at = "step"
      /\ later.steps = r.steps /\ later.next = r.next + 1 /\ later.results = more
    <2>1. later = [r EXCEPT !.at = "step", !.next = r.next + 1, !.results = more]
        BY <1>2 DEF Run, RunAdvanced
    <2>2. r.next + 1 \in Nat /\ more \in Seq(BOOLEAN)
        BY <1>1, <1>3
    <2> QED
        BY <2>1, <2>2 DEF Run
<1>5. /\ \A i \in 1..r.next - 1 : i \in 1..later.next - 1 /\ more[i] = r.results[i]
      /\ \A i \in 1..later.next - 1 : i \in 1..r.next - 1 \/ i = r.next
      /\ r.next \in 1..later.next - 1 /\ more[r.next] = outcome
    BY <1>1, <1>3, <1>4
<1>6. Passed(later) = Passed(r) \cup (IF outcome THEN {r.next} ELSE {})
    BY <1>4, <1>5 DEF Passed
<1>7. Missed(later) = Missed(r) \cup (IF outcome THEN {} ELSE {r.next})
    BY <1>4, <1>5 DEF Missed
<1>8. Len(later.results) = later.next - 1
    BY <1>1, <1>3, <1>4
<1> QED
    BY <1>2, <1>4, <1>6, <1>7, <1>8

LEMMA PassedOnMore ==
    ASSUME NEW r \in Run, NEW l, NEW e, NEW c \in Seq(BOOLEAN), Live(r, l, e, c)
    PROVE  /\ PassedOn(r) \in Run /\ PassedOn(r).id = r.id /\ PassedOn(r).at = "step"
           /\ PassedOn(r).steps = r.steps /\ PassedOn(r).next = r.next + 1
           /\ Len(PassedOn(r).results) = PassedOn(r).next - 1
           /\ Passed(PassedOn(r)) = Passed(r) \cup {r.next}
           /\ Missed(PassedOn(r)) = Missed(r)
<1>1. PICK outcome \in BOOLEAN : outcome
    OBVIOUS
<1>2. PassedOn(r) = RunAdvanced(r, outcome)
    BY <1>1 DEF PassedOn, RunAdvanced
<1> QED
    BY <1>1, <1>2, ResultMore

LEMMA MissedOnMore ==
    ASSUME NEW r \in Run, NEW l, NEW e, NEW c \in Seq(BOOLEAN), Live(r, l, e, c)
    PROVE  /\ MissedOn(r) \in Run /\ MissedOn(r).id = r.id /\ MissedOn(r).at = "step"
           /\ MissedOn(r).steps = r.steps /\ MissedOn(r).next = r.next + 1
           /\ Len(MissedOn(r).results) = MissedOn(r).next - 1
           /\ Passed(MissedOn(r)) = Passed(r)
           /\ Missed(MissedOn(r)) = Missed(r) \cup {r.next}
<1>1. PICK outcome \in BOOLEAN : ~outcome
    OBVIOUS
<1>2. MissedOn(r) = RunAdvanced(r, outcome)
    BY <1>1 DEF MissedOn, RunAdvanced
<1> QED
    BY <1>1, <1>2, ResultMore

LEMMA LiveSucceeds ==
    ASSUME NEW r \in Run, NEW l \in Seq(Entry), NEW e \in Seq(Nat), NEW c \in Seq(BOOLEAN),
           Live(r, l, e, c), r.at = "succeeded",
           NEW later, later = PassedOn(r)
    PROVE  /\ later \in Run
           /\ later.id = r.id
           /\ Append(l, Event("step_completed", r.next)) \in Seq(Entry)
           /\ Live(later, Append(l, Event("step_completed", r.next)), e, c)
<1>0. PICK l2 : l2 = Append(l, Event("step_completed", r.next))
    OBVIOUS
<1> USE <1>0
<1>1. /\ later \in Run /\ later.id = r.id /\ later.at = "step"
      /\ later.steps = r.steps /\ later.next = r.next + 1
      /\ Len(later.results) = later.next - 1
      /\ Passed(later) = Passed(r) \cup {r.next}
      /\ Missed(later) = Missed(r)
    BY PassedOnMore
<1>2. /\ l2 \in Seq(Entry) /\ l2 # <<>> /\ Last(l2).kind \notin Ending
      /\ Named(l2, "step_started") = Named(l, "step_started")
      /\ Named(l2, "step_completed") = Named(l, "step_completed") \cup {r.next}
      /\ Named(l2, "step_failed") = Named(l, "step_failed")
    <2>1. r.next \in Nat
        BY RunMeans
    <2>2. "step_completed" \in Kinds
        BY DEF Kinds
    <2>3. PICK n, more : n = r.next /\ more = Append(l, Event("step_completed", n))
        OBVIOUS
    <2>4. n \in Nat /\ more = l2
        BY <2>1, <2>3
    <2>5. /\ more \in Seq(Entry) /\ more # <<>>
          /\ Last(more).kind = "step_completed" /\ Last(more).step = n
          /\ Named(more, "step_completed") = Named(l, "step_completed") \cup {n}
        <3>1. more \in Seq(Entry) /\ more # <<>>
            BY <2>2, <2>3, <2>4, EventAppend
        <3>2. Last(more).kind = "step_completed" /\ Last(more).step = n
            BY <2>2, <2>3, <2>4, EventAppend
        <3>3. Named(more, "step_completed") = Named(l, "step_completed") \cup {n}
            BY <2>2, <2>3, <2>4, EventAppend
        <3> QED
            BY <3>1, <3>2, <3>3
    <2>6. \A other : other # "step_completed" => Named(more, other) = Named(l, other)
        BY <2>2, <2>3, <2>4, EventAppend
    <2> QED
        BY <2>3, <2>4, <2>5, <2>6 DEF Ending
<1>3. r.next \in Nat \ {0} /\ Len(c) \in Nat /\ r.next <= Len(c)
    BY RunMeans DEF Live
<1>4. later.next - 1 = r.next /\ later.next \in 1..Len(c) + 1
    BY <1>1, <1>3
<1>5. Live(later, l2, e, c)
    BY <1>1, <1>2, <1>4 DEF Live
<1> QED
    BY <1>1, <1>2, <1>5

\* A failed step that may fail is passed over, ...
LEMMA LivePasses ==
    ASSUME NEW r \in Run, NEW l \in Seq(Entry), NEW e \in Seq(Nat), NEW c \in Seq(BOOLEAN),
           Live(r, l, e, c), r.at = "failed", c[r.next],
           NEW later, later = MissedOn(r)
    PROVE  /\ later \in Run
           /\ later.id = r.id
           /\ Append(l, Event("step_failed", r.next)) \in Seq(Entry)
           /\ Live(later, Append(l, Event("step_failed", r.next)), e, c)
<1>0. PICK l2 : l2 = Append(l, Event("step_failed", r.next))
    OBVIOUS
<1> USE <1>0
<1>1. /\ later \in Run /\ later.id = r.id /\ later.at = "step"
      /\ later.steps = r.steps /\ later.next = r.next + 1
      /\ Len(later.results) = later.next - 1
      /\ Passed(later) = Passed(r)
      /\ Missed(later) = Missed(r) \cup {r.next}
    BY MissedOnMore
<1>2. /\ l2 \in Seq(Entry) /\ l2 # <<>> /\ Last(l2).kind \notin Ending
      /\ Named(l2, "step_started") = Named(l, "step_started")
      /\ Named(l2, "step_completed") = Named(l, "step_completed")
      /\ Named(l2, "step_failed") = Named(l, "step_failed") \cup {r.next}
    <2>1. r.next \in Nat
        BY RunMeans
    <2>2. "step_failed" \in Kinds
        BY DEF Kinds
    <2>3. PICK n, more : n = r.next /\ more = Append(l, Event("step_failed", n))
        OBVIOUS
    <2>4. n \in Nat /\ more = l2
        BY <2>1, <2>3
    <2>5. /\ more \in Seq(Entry) /\ more # <<>>
          /\ Last(more).kind = "step_failed" /\ Last(more).step = n
          /\ Named(more, "step_failed") = Named(l, "step_failed") \cup {n}
        <3>1. more \in Seq(Entry) /\ more # <<>>
            BY <2>2, <2>3, <2>4, EventAppend
        <3>2. Last(more).kind = "step_failed" /\ Last(more).step = n
            BY <2>2, <2>3, <2>4, EventAppend
        <3>3. Named(more, "step_failed") = Named(l, "step_failed") \cup {n}
            BY <2>2, <2>3, <2>4, EventAppend
        <3> QED
            BY <3>1, <3>2, <3>3
    <2>6. \A other : other # "step_failed" => Named(more, other) = Named(l, other)
        BY <2>2, <2>3, <2>4, EventAppend
    <2> QED
        BY <2>3, <2>4, <2>5, <2>6 DEF Ending
<1>3. r.next \in Nat \ {0} /\ Len(c) \in Nat /\ r.next <= Len(c)
    BY RunMeans DEF Live
<1>4. later.next - 1 = r.next /\ later.next \in 1..Len(c) + 1
    BY <1>1, <1>3
<1>5. Live(later, l2, e, c)
    BY <1>1, <1>2, <1>4 DEF Live
<1> QED
    BY <1>1, <1>2, <1>5

\* ... and one that may not ends the run.
LEMMA LiveFails ==
    ASSUME NEW r \in Run, NEW l \in Seq(Entry), NEW e \in Seq(Nat), NEW c \in Seq(BOOLEAN),
           Live(r, l, e, c), r.at = "failed", ~c[r.next],
           NEW later, later = [r EXCEPT !.at = "failing"]
    PROVE  /\ later \in Run
           /\ later.id = r.id
           /\ Append(l, Event("step_failed", r.next)) \in Seq(Entry)
           /\ Live(later, Append(l, Event("step_failed", r.next)), e, c)
<1>0. PICK l2 : l2 = Append(l, Event("step_failed", r.next))
    OBVIOUS
<1> USE <1>0
<1>1. /\ later \in Run /\ later.id = r.id /\ later.at = "failing"
      /\ later.steps = r.steps /\ later.next = r.next /\ later.results = r.results
    BY DEF Run
<1>2. /\ l2 \in Seq(Entry) /\ l2 # <<>> /\ Last(l2).kind \notin Ending
      /\ Named(l2, "step_started") = Named(l, "step_started")
      /\ Named(l2, "step_completed") = Named(l, "step_completed")
      /\ Named(l2, "step_failed") = Named(l, "step_failed") \cup {r.next}
    <2>1. r.next \in Nat
        BY RunMeans
    <2>2. "step_failed" \in Kinds
        BY DEF Kinds
    <2>3. PICK n, more : n = r.next /\ more = Append(l, Event("step_failed", n))
        OBVIOUS
    <2>4. n \in Nat /\ more = l2
        BY <2>1, <2>3
    <2>5. /\ more \in Seq(Entry) /\ more # <<>>
          /\ Last(more).kind = "step_failed" /\ Last(more).step = n
          /\ Named(more, "step_failed") = Named(l, "step_failed") \cup {n}
        <3>1. more \in Seq(Entry) /\ more # <<>>
            BY <2>2, <2>3, <2>4, EventAppend
        <3>2. Last(more).kind = "step_failed" /\ Last(more).step = n
            BY <2>2, <2>3, <2>4, EventAppend
        <3>3. Named(more, "step_failed") = Named(l, "step_failed") \cup {n}
            BY <2>2, <2>3, <2>4, EventAppend
        <3> QED
            BY <3>1, <3>2, <3>3
    <2>6. \A other : other # "step_failed" => Named(more, other) = Named(l, other)
        BY <2>2, <2>3, <2>4, EventAppend
    <2> QED
        BY <2>3, <2>4, <2>5, <2>6 DEF Ending
<1>3. Passed(later) = Passed(r) /\ Missed(later) = Missed(r)
    BY <1>1 DEF Passed, Missed
<1>4. Live(later, l2, e, c)
    BY <1>1, <1>2, <1>3 DEF Live
<1> QED
    BY <1>1, <1>2, <1>4

\* run_failed: the log names the one step that may not fail.
LEMMA FailedIsSound ==
    ASSUME NEW r \in Run, NEW l \in Seq(Entry), NEW e \in Seq(Nat), NEW c \in Seq(BOOLEAN),
           Live(r, l, e, c), r.at = "failing",
           NEW l2, l2 = Append(l, Event("run_failed", r.next))
    PROVE  l2 \in Seq(Entry) /\ Sound(l2, e, c)
<1>1. /\ l2 \in Seq(Entry) /\ l2 # <<>>
      /\ Last(l2).kind = "run_failed" /\ Last(l2).step = r.next
      /\ Named(l2, "step_started") = Named(l, "step_started")
      /\ Named(l2, "step_completed") = Named(l, "step_completed")
      /\ Named(l2, "step_failed") = Named(l, "step_failed")
    <2>1. r.next \in Nat
        BY RunMeans
    <2>2. "run_failed" \in Kinds
        BY DEF Kinds
    <2>3. PICK n, more : n = r.next /\ more = Append(l, Event("run_failed", n))
        OBVIOUS
    <2>4. n \in Nat /\ more = l2
        BY <2>1, <2>3
    <2>5. /\ more \in Seq(Entry) /\ more # <<>>
          /\ Last(more).kind = "run_failed" /\ Last(more).step = n
          /\ Named(more, "run_failed") = Named(l, "run_failed") \cup {n}
        <3>1. more \in Seq(Entry) /\ more # <<>>
            BY <2>2, <2>3, <2>4, EventAppend
        <3>2. Last(more).kind = "run_failed" /\ Last(more).step = n
            BY <2>2, <2>3, <2>4, EventAppend
        <3>3. Named(more, "run_failed") = Named(l, "run_failed") \cup {n}
            BY <2>2, <2>3, <2>4, EventAppend
        <3> QED
            BY <3>1, <3>2, <3>3
    <2>6. \A other : other # "run_failed" => Named(more, other) = Named(l, other)
        BY <2>2, <2>3, <2>4, EventAppend
    <2> QED
        BY <2>3, <2>4, <2>5, <2>6
<1>2. Sound(l, e, c)
    BY LiveIsSound
<1>3. r.next \in Nat \ {0} /\ ~c[r.next]
    BY RunMeans DEF Live
<1>4. /\ Named(l, "step_completed") = Passed(r)
      /\ Named(l, "step_failed") = Missed(r) \cup {r.next}
      /\ Passed(r) \subseteq ToSet(e)
      /\ \A i \in Missed(r) : c[i]
    BY DEF Live
<1>5. /\ Passed(r) \subseteq 1..r.next - 1 /\ Missed(r) \subseteq 1..r.next - 1
      /\ Passed(r) \cup Missed(r) = 1..r.next - 1
      /\ Passed(r) \cap Missed(r) = {}
    BY RunMeans
<1>6. r.next \notin 1..r.next - 1 /\ 1..r.next = (1..r.next - 1) \cup {r.next}
    BY <1>3
<1>7. Named(l, "step_completed") \cap Named(l, "step_failed") = {}
    BY <1>4, <1>5, <1>6
<1>8. Named(l, "step_completed") \cup Named(l, "step_failed") = 1..r.next
    BY <1>4, <1>5, <1>6
<1>9. {s \in Named(l, "step_failed") : ~c[s]} = {r.next}
    BY <1>3, <1>4
<1>10. Tells(l2, e, c)
    BY <1>1, <1>4, <1>7, <1>8, <1>9 DEF Tells
<1> QED
    BY <1>1, <1>2, <1>10 DEF Sound

\* run_complete: the totals are those of the events.
LEMMA CompletedIsSound ==
    ASSUME NEW r \in Run, NEW l \in Seq(Entry), NEW e \in Seq(Nat), NEW c \in Seq(BOOLEAN),
           Live(r, l, e, c), r.at = "step", r.next > Len(c),
           NEW l2, l2 = Append(l, Total("complete", Cardinality(Passed(r)),
                                                    Cardinality(Missed(r))))
    PROVE  l2 \in Seq(Entry) /\ Sound(l2, e, c)
<1>1. /\ r.next \in Nat \ {0} /\ Len(c) \in Nat
      /\ Passed(r) \in SUBSET (1..r.next - 1) /\ Missed(r) \in SUBSET (1..r.next - 1)
      /\ Passed(r) \cup Missed(r) = 1..r.next - 1
      /\ Passed(r) \cap Missed(r) = {}
    BY RunMeans
<1>2. PICK a, b : a = Cardinality(Passed(r)) /\ b = Cardinality(Missed(r))
    OBVIOUS
<1>3. a \in Nat /\ b \in Nat
    <2>1. PICK k \in Int : k = r.next - 1
        BY <1>1
    <2>2. IsFiniteSet(1..k)
        BY FS_Interval
    <2> QED
        BY <1>1, <1>2, <2>1, <2>2, FS_Subset, FS_CardinalityType
<1>4. PICK new : new = Total("complete", a, b)
    OBVIOUS
<1>5. new \in Entry /\ new.kind = "complete" /\ new.completed = a /\ new.failed = b
    <2>1. "complete" \in Kinds
        BY DEF Kinds
    <2> QED
        BY <1>3, <1>4, <2>1, TotalIsEntry
<1>6. l2 = Append(l, new)
    BY <1>2, <1>4
<1>7. /\ l2 \in Seq(Entry) /\ l2 # <<>> /\ Last(l2) = new
      /\ Named(l2, "step_started") = Named(l, "step_started")
      /\ Named(l2, "step_completed") = Named(l, "step_completed")
      /\ Named(l2, "step_failed") = Named(l, "step_failed")
    <2>1. \A kind : Named(l2, kind) =
            Named(l, kind) \cup (IF new.kind = kind THEN {new.step} ELSE {})
        BY <1>5, <1>6, NamedAppend
    <2>2. \A kind : kind # "complete" => Named(l2, kind) = Named(l, kind)
        BY <1>5, <2>1
    <2> QED
        BY <1>5, <1>6, <2>2, NamedAppend
<1>8. Sound(l, e, c)
    BY LiveIsSound
<1>9. /\ Named(l, "step_completed") = Passed(r)
      /\ Named(l, "step_failed") = Missed(r)
      /\ Passed(r) \subseteq ToSet(e)
    BY DEF Live
<1>10. 1..r.next - 1 = DOMAIN c
    <2>1. DOMAIN c = 1..Len(c) /\ Len(c) \in Nat
        BY LenProperties
    <2>2. r.next \in 1..Len(c) + 1
        BY DEF Live
    <2>3. r.next = Len(c) + 1
        BY <2>1, <2>2
    <2> QED
        BY <2>1, <2>3
<1>11. Tells(l2, e, c)
    BY <1>1, <1>2, <1>5, <1>7, <1>9, <1>10 DEF Tells
<1> QED
    BY <1>7, <1>8, <1>11 DEF Sound

-----------------------------------------------------------------------------
\* The run that a thread is at.
LEMMA RunOf ==
    ASSUME WorkflowInv, NEW t \in Runners, run[t] # NoRun
    PROVE  /\ run[t] \in Run /\ run[t].id \in DOMAIN log
           /\ log[run[t].id] \in Seq(Entry)
           /\ effects[run[t].id] \in Seq(Nat)
           /\ chosen[run[t].id] \in Seq(BOOLEAN)
           /\ Live(run[t], log[run[t].id], effects[run[t].id], chosen[run[t].id])
<1>1. PICK n : n = run[t].id
    OBVIOUS
<1>2. /\ run[t] \in Run /\ n \in DOMAIN log
      /\ Live(run[t], log[n], effects[n], chosen[n])
    BY <1>1 DEF WorkflowInv, WorkflowTyped, RunsInv
<1>3. /\ log \in Seq(Seq(Entry)) /\ effects \in Seq(Seq(Nat)) /\ chosen \in Seq(Seq(BOOLEAN))
      /\ Len(effects) = Len(log) /\ Len(chosen) = Len(log)
    BY DEF WorkflowInv, WorkflowTyped
<1>4. DOMAIN effects = DOMAIN log /\ DOMAIN chosen = DOMAIN log
    BY <1>3, LenProperties
<1>5. log[n] \in Seq(Entry) /\ effects[n] \in Seq(Nat) /\ chosen[n] \in Seq(BOOLEAN)
    BY <1>2, <1>3, <1>4, ElementOfSeq, LenProperties
<1> QED
    BY <1>1, <1>2, <1>5

\* A sequence with one element replaced.
LEMMA Replaced ==
    ASSUME NEW S, NEW q \in Seq(S), NEW n \in DOMAIN q, NEW x \in S
    PROVE  /\ [q EXCEPT ![n] = x] \in Seq(S)
           /\ Len([q EXCEPT ![n] = x]) = Len(q)
           /\ DOMAIN [q EXCEPT ![n] = x] = DOMAIN q
           /\ [q EXCEPT ![n] = x][n] = x
           /\ \A m \in DOMAIN q : m # n => [q EXCEPT ![n] = x][m] = q[m]
<1>1. n \in 1..Len(q)
    BY LenProperties
<1> QED
    BY <1>1, ExceptSeq, LenProperties

\* A step of one run disturbs no other, and no log but its own.
LEMMA RunMoves ==
    ASSUME WorkflowInv, NEW t \in Runners, run[t] # NoRun,
           NEW n, n = run[t].id,
           NEW l2 \in Seq(Entry), NEW e2 \in Seq(Nat), NEW later,
           UNCHANGED <<defined, chosen>>,
           log' = [log EXCEPT ![n] = l2],
           effects' = [effects EXCEPT ![n] = e2],
           run' = [run EXCEPT ![t] = later],
           Sound(l2, e2, chosen[n]),
           \/ later = NoRun
           \/ later \in Run /\ later.id = n /\ Live(later, l2, e2, chosen[n])
    PROVE  WorkflowInv'
<1>1. /\ n \in DOMAIN log
      /\ log \in Seq(Seq(Entry)) /\ effects \in Seq(Seq(Nat))
      /\ Len(effects) = Len(log) /\ Len(log) <= MaxRuns
    BY RunOf DEF WorkflowInv, WorkflowTyped
<1>2. DOMAIN effects = DOMAIN log
    BY <1>1, LenProperties
<1>3. /\ log' \in Seq(Seq(Entry)) /\ Len(log') = Len(log) /\ DOMAIN log' = DOMAIN log
      /\ log'[n] = l2 /\ \A m \in DOMAIN log : m # n => log'[m] = log[m]
    BY <1>1, Replaced
<1>4. /\ effects' \in Seq(Seq(Nat)) /\ Len(effects') = Len(effects)
      /\ effects'[n] = e2 /\ \A m \in DOMAIN log : m # n => effects'[m] = effects[m]
    BY <1>1, <1>2, Replaced
<1>5. /\ run \in [Runners -> Run \cup {NoRun}]
      /\ run' \in [Runners -> Run \cup {NoRun}]
      /\ run'[t] = later /\ \A u \in Runners : u # t => run'[u] = run[u]
    BY DEF WorkflowInv, WorkflowTyped
<1>6. WorkflowTyped'
    BY <1>1, <1>3, <1>4, <1>5 DEF WorkflowInv, WorkflowTyped
<1>7. ASSUME NEW u \in Runners, u # t, run[u] # NoRun
      PROVE  run[u].id # n
    BY <1>7 DEF WorkflowInv, RunsApart
<1>8. RunsInv'
    <2> SUFFICES ASSUME NEW u \in Runners, run'[u] # NoRun
                 PROVE  /\ run'[u].id \in DOMAIN log'
                        /\ Live(run'[u], log'[run'[u].id], effects'[run'[u].id],
                                chosen'[run'[u].id])
        BY DEF RunsInv
    <2>1. CASE u = t
        BY <1>1, <1>3, <1>4, <1>5, <2>1
    <2>2. CASE u # t
        <3>1. run'[u] = run[u] /\ run[u] # NoRun /\ run[u].id # n
            BY <1>5, <1>7, <2>2
        <3>2. /\ run[u].id \in DOMAIN log
              /\ Live(run[u], log[run[u].id], effects[run[u].id], chosen[run[u].id])
            BY <3>1 DEF WorkflowInv, RunsInv
        <3> QED
            BY <1>3, <1>4, <3>1, <3>2
    <2> QED
        BY <2>1, <2>2
<1>9. RunsApart'
    <2> SUFFICES ASSUME NEW u \in Runners, NEW v \in Runners, run'[u] # NoRun, run'[v] # NoRun,
                        run'[u].id = run'[v].id
                 PROVE  u = v
        BY DEF RunsApart
    <2>1. CASE u = t
        BY <1>5, <1>7, <2>1
    <2>2. CASE v = t
        BY <1>5, <1>7, <2>2
    <2>3. CASE u # t /\ v # t
        BY <1>5, <2>3 DEF WorkflowInv, RunsApart
    <2> QED
        BY <2>1, <2>2, <2>3
<1>10. LogsInv'
    <2> SUFFICES ASSUME NEW m \in DOMAIN log
                 PROVE  Sound(log'[m], effects'[m], chosen'[m])
        BY <1>3 DEF LogsInv
    <2>1. CASE m = n
        BY <1>3, <1>4, <2>1
    <2>2. CASE m # n
        BY <1>3, <1>4, <2>2 DEF WorkflowInv, LogsInv
    <2> QED
        BY <2>1, <2>2
<1> QED
    BY <1>6, <1>8, <1>9, <1>10 DEF WorkflowInv

LEMMA ReplacedBySame ==
    ASSUME NEW S, NEW q \in Seq(S), NEW n \in DOMAIN q
    PROVE  q = [q EXCEPT ![n] = q[n]]
<1>1. PICK N \in Nat : q \in [1..N -> S]
    BY SeqDef
<1> QED
    BY <1>1

\* The same for a step that leaves the log, or the effects, alone.
LEMMA RunStays ==
    ASSUME WorkflowInv, NEW t \in Runners, run[t] # NoRun, NEW n, n = run[t].id
    PROVE  log = [log EXCEPT ![n] = log[n]] /\ effects = [effects EXCEPT ![n] = effects[n]]
<1>1. /\ n \in DOMAIN log /\ log \in Seq(Seq(Entry)) /\ effects \in Seq(Seq(Nat))
      /\ Len(effects) = Len(log)
    BY RunOf DEF WorkflowInv, WorkflowTyped
<1>2. n \in DOMAIN effects
    BY <1>1, LenProperties
<1> QED
    BY <1>1, <1>2, ReplacedBySame

LEMMA NotRunning ==
    ASSUME NEW r \in Run
    PROVE  r # NoRun /\ r.at # "none"
BY DEF Run, NoRun

LEMMA AtStep ==
    ASSUME NEW t \in Runners, run[t].at # "none"
    PROVE  run[t] # NoRun
BY DEF NoRun

LEMMA WorkflowStarts ==
    WorkflowInit => WorkflowInv
<1> SUFFICES ASSUME WorkflowInit PROVE WorkflowInv
    OBVIOUS
<1>1. Len(log) = 0 /\ Len(effects) = 0 /\ Len(chosen) = 0 /\ DOMAIN log = {}
    BY DEF WorkflowInit
<1>2. WorkflowTyped
    BY <1>1, WorkflowConstants DEF WorkflowInit, WorkflowTyped
<1>3. \A t \in Runners : run[t] = NoRun
    BY DEF WorkflowInit
<1>4. RunsInv /\ RunsApart
    BY <1>3 DEF RunsInv, RunsApart
<1>5. LogsInv
    BY <1>1 DEF LogsInv
<1> QED
    BY <1>2, <1>4, <1>5 DEF WorkflowInv

LEMMA WorkflowDefines ==
    ASSUME WorkflowInv, NEW steps \in Definitions, Define(steps)
    PROVE  WorkflowInv'
<1>1. WorkflowTyped'
    BY DEF WorkflowInv, WorkflowTyped, Define
<1>2. RunsInv' /\ RunsApart' /\ LogsInv'
    BY DEF WorkflowInv, RunsInv, RunsApart, LogsInv, Define
<1> QED
    BY <1>1, <1>2 DEF WorkflowInv

LEMMA WorkflowDies ==
    ASSUME WorkflowInv, WorkflowCrash
    PROVE  WorkflowInv'
<1>1. \A t \in Runners : run'[t] = NoRun
    BY DEF WorkflowCrash
<1>2. WorkflowTyped'
    BY DEF WorkflowInv, WorkflowTyped, WorkflowCrash
<1>3. RunsInv' /\ RunsApart'
    BY <1>1 DEF RunsInv, RunsApart
<1>4. LogsInv'
    BY DEF WorkflowInv, LogsInv, WorkflowCrash
<1> QED
    BY <1>2, <1>3, <1>4 DEF WorkflowInv

LEMMA WorkflowStartsStep ==
    ASSUME WorkflowInv, NEW t \in Runners, StartStep(t)
    PROVE  WorkflowInv'
<1>1. run[t] # NoRun
    BY DEF StartStep, NoRun
<1>2. PICK r, n, l, e, c : r = run[t] /\ n = r.id /\ l = log[n] /\ e = effects[n] /\ c = chosen[n]
    OBVIOUS
<1>3. /\ r \in Run /\ l \in Seq(Entry) /\ e \in Seq(Nat) /\ c \in Seq(BOOLEAN) /\ Live(r, l, e, c)
    BY <1>1, <1>2, RunOf
<1>4. r.at = "step" /\ r.next <= Len(c)
    BY <1>2, <1>3 DEF StartStep, Live
<1>5. PICK later, l2 : later = [r EXCEPT !.at = "invoke"] /\ l2 = Append(l, Event("step_started", r.next))
    OBVIOUS
<1>6. later \in Run /\ later.id = r.id /\ l2 \in Seq(Entry) /\ Live(later, l2, e, c)
    BY <1>3, <1>4, <1>5, LiveStarts
<1>7. Sound(l2, e, c)
    BY <1>3, <1>6, LiveIsSound
<1>8. /\ log' = [log EXCEPT ![n] = l2] /\ run' = [run EXCEPT ![t] = later]
      /\ UNCHANGED <<defined, effects, chosen>>
    BY <1>2, <1>5 DEF StartStep, Say
<1>9. effects' = [effects EXCEPT ![n] = e]
    BY <1>1, <1>2, <1>8, RunStays
<1> QED
    BY <1>1, <1>2, <1>3, <1>6, <1>7, <1>8, <1>9, RunMoves

LEMMA WorkflowInvokes ==
    ASSUME WorkflowInv, NEW t \in Runners, NEW success \in BOOLEAN, NEW executed \in BOOLEAN,
           InvokeStep(t, success, executed)
    PROVE  WorkflowInv'
<1>1. run[t] # NoRun
    BY DEF InvokeStep, NoRun
<1>2. PICK r, n, l, e, c : r = run[t] /\ n = r.id /\ l = log[n] /\ e = effects[n] /\ c = chosen[n]
    OBVIOUS
<1>3. /\ r \in Run /\ l \in Seq(Entry) /\ e \in Seq(Nat) /\ c \in Seq(BOOLEAN) /\ Live(r, l, e, c)
    BY <1>1, <1>2, RunOf
<1>4. r.at = "invoke" /\ UNCHANGED <<defined, log, chosen>>
    BY <1>2 DEF InvokeStep
<1>5. log' = [log EXCEPT ![n] = l]
    BY <1>1, <1>2, <1>4, RunStays
<1>6. PICK to \in {"succeeded", "failed"} : to = IF success THEN "succeeded" ELSE "failed"
    OBVIOUS
<1>7. PICK later : later = [r EXCEPT !.at = to]
    OBVIOUS
<1>8. run' = [run EXCEPT ![t] = later]
    BY <1>2, <1>6, <1>7 DEF InvokeStep
<1>9. CASE executed
    <2>1. PICK e2 : e2 = Append(e, r.next)
        OBVIOUS
    <2>2. later \in Run /\ later.id = r.id /\ e2 \in Seq(Nat) /\ Live(later, l, e2, c)
        BY <1>3, <1>4, <1>7, <2>1, LiveExecutes
    <2>3. Sound(l, e2, c)
        BY <1>3, <2>2, LiveIsSound
    <2>4. effects' = [effects EXCEPT ![n] = e2]
        BY <1>2, <1>9, <2>1 DEF InvokeStep
    <2> QED
        BY <1>1, <1>2, <1>3, <1>4, <1>5, <1>8, <2>2, <2>3, <2>4, RunMoves
<1>10. CASE ~executed
    <2>1. to = "failed" /\ effects' = effects
        BY <1>6, <1>10 DEF InvokeStep
    <2>2. later \in Run /\ later.id = r.id /\ Live(later, l, e, c)
        BY <1>3, <1>4, <1>7, <2>1, LiveRefused
    <2>3. Sound(l, e, c)
        BY <1>3, <2>2, LiveIsSound
    <2>4. effects' = [effects EXCEPT ![n] = e]
        BY <1>1, <1>2, <2>1, RunStays
    <2> QED
        BY <1>1, <1>2, <1>3, <1>4, <1>5, <1>8, <2>2, <2>3, <2>4, RunMoves
<1> QED
    BY <1>9, <1>10

LEMMA WorkflowSucceeds ==
    ASSUME WorkflowInv, NEW t \in Runners, StepSucceeded(t)
    PROVE  WorkflowInv'
<1>1. run[t] # NoRun
    BY DEF StepSucceeded, NoRun
<1>2. PICK r, n, l, e, c : r = run[t] /\ n = r.id /\ l = log[n] /\ e = effects[n] /\ c = chosen[n]
    OBVIOUS
<1>3. /\ r \in Run /\ l \in Seq(Entry) /\ e \in Seq(Nat) /\ c \in Seq(BOOLEAN) /\ Live(r, l, e, c)
    BY <1>1, <1>2, RunOf
<1>4. r.at = "succeeded" /\ UNCHANGED <<defined, effects, chosen>>
    BY <1>2 DEF StepSucceeded
<1>5. PICK later, l2 : later = PassedOn(r) /\ l2 = Append(l, Event("step_completed", r.next))
    OBVIOUS
<1>6. later \in Run /\ later.id = r.id /\ l2 \in Seq(Entry) /\ Live(later, l2, e, c)
    BY <1>3, <1>4, <1>5, LiveSucceeds
<1>7. Sound(l2, e, c)
    BY <1>3, <1>6, LiveIsSound
<1>8. log' = [log EXCEPT ![n] = l2]
    BY <1>2, <1>5 DEF StepSucceeded, Say
<1>9. run' = [run EXCEPT ![t] = later]
    <2>1. run \in [Runners -> Run \cup {NoRun}]
        BY DEF WorkflowInv, WorkflowTyped
    <2> QED
        BY <1>2, <1>5, <2>1 DEF StepSucceeded, PassedOn
<1>10. effects' = [effects EXCEPT ![n] = e]
    BY <1>1, <1>2, <1>4, RunStays
<1> QED
    BY <1>1, <1>2, <1>3, <1>4, <1>6, <1>7, <1>8, <1>9, <1>10, RunMoves

LEMMA WorkflowFailsStep ==
    ASSUME WorkflowInv, NEW t \in Runners, StepFailed(t)
    PROVE  WorkflowInv'
<1>1. run[t] # NoRun
    BY DEF StepFailed, NoRun
<1>2. PICK r, n, l, e, c : r = run[t] /\ n = r.id /\ l = log[n] /\ e = effects[n] /\ c = chosen[n]
    OBVIOUS
<1>3. /\ r \in Run /\ l \in Seq(Entry) /\ e \in Seq(Nat) /\ c \in Seq(BOOLEAN) /\ Live(r, l, e, c)
    BY <1>1, <1>2, RunOf
<1>4. r.at = "failed" /\ r.steps = c /\ UNCHANGED <<defined, effects, chosen>>
    BY <1>2, <1>3, RunMeans DEF StepFailed
<1>5. PICK l2 : l2 = Append(l, Event("step_failed", r.next))
    OBVIOUS
<1>6. log' = [log EXCEPT ![n] = l2]
    BY <1>2, <1>5 DEF StepFailed, Say
<1>7. effects' = [effects EXCEPT ![n] = e]
    BY <1>1, <1>2, <1>4, RunStays
<1>8. run \in [Runners -> Run \cup {NoRun}]
    BY DEF WorkflowInv, WorkflowTyped
<1>9. CASE c[r.next]
    <2>1. PICK later : later = MissedOn(r)
        OBVIOUS
    <2>2. later \in Run /\ later.id = r.id /\ l2 \in Seq(Entry) /\ Live(later, l2, e, c)
        BY <1>3, <1>4, <1>5, <1>9, <2>1, LivePasses
    <2>3. Sound(l2, e, c)
        BY <1>3, <2>2, LiveIsSound
    <2>4. run' = [run EXCEPT ![t] = later]
        BY <1>2, <1>4, <1>8, <1>9, <2>1 DEF StepFailed, MissedOn
    <2>5. later.id = n /\ Sound(l2, e, chosen[n]) /\ Live(later, l2, e, chosen[n])
        BY <1>2, <2>2, <2>3
    <2>6. n = run[t].id /\ e \in Seq(Nat) /\ UNCHANGED <<defined, chosen>>
        BY <1>2, <1>3, <1>4
    <2> QED
        BY <1>1, <1>6, <1>7, <2>2, <2>4, <2>5, <2>6, RunMoves
<1>10. CASE ~c[r.next]
    <2>1. PICK later : later = [r EXCEPT !.at = "failing"]
        OBVIOUS
    <2>2. later \in Run /\ later.id = r.id /\ l2 \in Seq(Entry) /\ Live(later, l2, e, c)
        BY <1>3, <1>4, <1>5, <1>10, <2>1, LiveFails
    <2>3. Sound(l2, e, c)
        BY <1>3, <2>2, LiveIsSound
    <2>4. run' = [run EXCEPT ![t] = later]
        BY <1>2, <1>4, <1>8, <1>10, <2>1 DEF StepFailed
    <2>5. later.id = n /\ Sound(l2, e, chosen[n]) /\ Live(later, l2, e, chosen[n])
        BY <1>2, <2>2, <2>3
    <2>6. n = run[t].id /\ e \in Seq(Nat) /\ UNCHANGED <<defined, chosen>>
        BY <1>2, <1>3, <1>4
    <2> QED
        BY <1>1, <1>6, <1>7, <2>2, <2>4, <2>5, <2>6, RunMoves
<1> QED
    BY <1>9, <1>10

LEMMA WorkflowFails ==
    ASSUME WorkflowInv, NEW t \in Runners, FailRun(t)
    PROVE  WorkflowInv'
<1>1. run[t] # NoRun
    BY DEF FailRun, NoRun
<1>2. PICK r, n, l, e, c : r = run[t] /\ n = r.id /\ l = log[n] /\ e = effects[n] /\ c = chosen[n]
    OBVIOUS
<1>3. /\ r \in Run /\ l \in Seq(Entry) /\ e \in Seq(Nat) /\ c \in Seq(BOOLEAN) /\ Live(r, l, e, c)
    BY <1>1, <1>2, RunOf
<1>4. r.at = "failing" /\ run' = [run EXCEPT ![t] = NoRun] /\ UNCHANGED <<defined, effects, chosen>>
    BY <1>2 DEF FailRun
<1>5. PICK l2 : l2 = Append(l, Event("run_failed", r.next))
    OBVIOUS
<1>6. l2 \in Seq(Entry) /\ Sound(l2, e, c)
    BY <1>3, <1>4, <1>5, FailedIsSound
<1>7. log' = [log EXCEPT ![n] = l2]
    BY <1>2, <1>5 DEF FailRun, Say
<1>8. effects' = [effects EXCEPT ![n] = e]
    BY <1>1, <1>2, <1>4, RunStays
<1> QED
    BY <1>1, <1>2, <1>3, <1>4, <1>6, <1>7, <1>8, RunMoves

LEMMA WorkflowCompletes ==
    ASSUME WorkflowInv, NEW t \in Runners, CompleteRun(t)
    PROVE  WorkflowInv'
<1>1. run[t] # NoRun
    BY DEF CompleteRun, NoRun
<1>2. PICK r, n, l, e, c : r = run[t] /\ n = r.id /\ l = log[n] /\ e = effects[n] /\ c = chosen[n]
    OBVIOUS
<1>3. /\ r \in Run /\ l \in Seq(Entry) /\ e \in Seq(Nat) /\ c \in Seq(BOOLEAN) /\ Live(r, l, e, c)
    BY <1>1, <1>2, RunOf
<1>4. /\ r.at = "step" /\ run' = [run EXCEPT ![t] = NoRun]
      /\ r.next > Len(r.steps) /\ UNCHANGED <<defined, effects, chosen>>
    BY <1>2 DEF CompleteRun
<1>5. r.steps = c /\ DOMAIN r.results = 1..r.next - 1
    BY <1>3, RunMeans
<1>6. PICK l2 : l2 = Append(l, Total("complete", Cardinality(Passed(r)), Cardinality(Missed(r))))
    OBVIOUS
<1>7. l2 \in Seq(Entry) /\ Sound(l2, e, c)
    BY <1>3, <1>4, <1>5, <1>6, CompletedIsSound
<1>8. log' = [log EXCEPT ![n] = l2]
    <2>1. /\ {i \in DOMAIN r.results : r.results[i] = TRUE} = Passed(r)
          /\ {i \in DOMAIN r.results : r.results[i] = FALSE} = Missed(r)
        BY <1>5 DEF Passed, Missed
    <2>2. log' = [log EXCEPT ![n] = Append(log[n], Total("complete",
                 Cardinality({i \in DOMAIN r.results : r.results[i] = TRUE}),
                 Cardinality({i \in DOMAIN r.results : r.results[i] = FALSE})))]
        BY <1>2 DEF CompleteRun, Say
    <2> QED
        BY <1>2, <1>6, <2>1, <2>2
<1>9. effects' = [effects EXCEPT ![n] = e]
    BY <1>1, <1>2, <1>4, RunStays
<1> QED
    BY <1>1, <1>2, <1>3, <1>4, <1>7, <1>8, <1>9, RunMoves

\* A run whose thread died or ended stays as the evidence tells it: the invariant
\* says all that WorkflowSafe asks.
LEMMA WorkflowInvSafe ==
    WorkflowInv => WorkflowSafe
<1> SUFFICES ASSUME WorkflowInv PROVE WorkflowSafe
    OBVIOUS
<1>1. /\ log \in Seq(Seq(Entry)) /\ effects \in Seq(Seq(Nat)) /\ chosen \in Seq(Seq(BOOLEAN))
      /\ Len(effects) = Len(log) /\ Len(chosen) = Len(log) /\ Len(log) <= MaxRuns
      /\ defined \in Definitions \cup {<<>>}
    BY DEF WorkflowInv, WorkflowTyped
<1>2. DOMAIN effects = DOMAIN log
    BY <1>1, LenProperties
<1>3. WorkflowTypeOK
    <2> SUFFICES ASSUME NEW t \in Runners, run[t] # NoRun
                 PROVE  run[t].id \in DOMAIN log /\ run[t].next \in 1..Len(run[t].steps) + 1
        BY <1>1 DEF WorkflowTypeOK
    <2> QED
        BY DEF WorkflowInv, RunsInv, Live
<1>4. \A n \in DOMAIN log : Sound(log[n], effects[n], chosen[n])
    BY DEF WorkflowInv, LogsInv
<1>5. \A n, kind : Steps(n, kind) = Named(log[n], kind)
    BY DEF Steps, Named
<1>6. StepsInOrder
    <2> SUFFICES ASSUME NEW n \in DOMAIN effects
                 PROVE  /\ \A i, j \in DOMAIN effects[n] : i < j => effects[n][i] < effects[n][j]
                        /\ ToSet(effects[n]) \subseteq Steps(n, "step_started")
                        /\ \A failed \in Steps(n, "step_failed") : \A step \in ToSet(effects[n]) :
                              step > failed => chosen[n][failed]
        BY DEF StepsInOrder
    <2>1. Sound(log[n], effects[n], chosen[n])
        BY <1>2, <1>4
    <2>2. /\ Ascending(effects[n])
          /\ ToSet(effects[n]) \subseteq Named(log[n], "step_started")
          /\ \A failed \in Named(log[n], "step_failed") : \A step \in ToSet(effects[n]) :
                step > failed => chosen[n][failed]
        BY <2>1 DEF Sound
    <2>3. \A i, j \in DOMAIN effects[n] : i < j => effects[n][i] < effects[n][j]
        BY <2>2 DEF Ascending
    <2> QED
        BY <1>5, <2>2, <2>3
<1>7. EvidenceTellsRun
    <2>1. ASSUME NEW n \in DOMAIN log, Ended(n)
          PROVE  Tells(log[n], effects[n], chosen[n])
        BY <1>4, <2>1 DEF Sound, Ended, Ending
    <2> QED
        BY <1>5, <2>1 DEF EvidenceTellsRun, Tells
<1> QED
    BY <1>3, <1>6, <1>7 DEF WorkflowSafe

\* A run that begins: a log with "started" and nothing executed.
LEMMA LiveBegins ==
    ASSUME NEW c \in Seq(BOOLEAN), NEW n \in Nat,
           NEW r, r = [at |-> "step", id |-> n, steps |-> c, next |-> 1, results |-> <<>>]
    PROVE  /\ r \in Run /\ r.id = n
           /\ <<Event("started", 0)>> \in Seq(Entry)
           /\ Live(r, <<Event("started", 0)>>, <<>>, c)
<1>1. /\ r \in Run /\ r.at = "step" /\ r.id = n /\ r.steps = c /\ r.next = 1 /\ r.results = <<>>
    BY DEF Run
<1>2. PICK l : l = <<Event("started", 0)>>
    OBVIOUS
<1>3. PICK new : new = Event("started", 0)
    OBVIOUS
<1>4. new \in Entry /\ new.kind = "started"
    BY <1>3, EventIsEntry DEF Kinds
<1>5. /\ l \in Seq(Entry) /\ l # <<>> /\ Last(l) = new
      /\ \A i \in DOMAIN l : l[i] = new
    BY <1>2, <1>3, <1>4 DEF Last
<1>6. /\ Named(l, "step_started") = {} /\ Named(l, "step_completed") = {}
      /\ Named(l, "step_failed") = {}
    BY <1>4, <1>5 DEF Named
<1>7. Passed(r) = {} /\ Missed(r) = {}
    BY <1>1 DEF Passed, Missed
<1>8. ToSet(<<>>) = {} /\ Ascending(<<>>) /\ Len(c) \in Nat /\ Len(<<>>) = 0
    BY LenProperties DEF ToSet, Ascending
<1>9. Last(l).kind \notin Ending
    BY <1>4, <1>5 DEF Ending
<1>10. 1 \in 1..Len(c) + 1 /\ 1..0 = {}
    BY <1>8
<1>11. PICK e : e = <<>>
    OBVIOUS
<1>12. /\ Named(l, "step_started") = 1..(IF r.at = "step" THEN r.next - 1 ELSE r.next)
       /\ Named(l, "step_completed") = Passed(r)
       /\ Named(l, "step_failed") = Missed(r) \cup (IF r.at = "failing" THEN {r.next} ELSE {})
    <2>1. r.at = "step" /\ r.at # "failing" /\ r.next - 1 = 0
        BY <1>1
    <2>2. (IF r.at = "step" THEN r.next - 1 ELSE r.next) = 0
        BY <2>1
    <2>3. 1..(IF r.at = "step" THEN r.next - 1 ELSE r.next) = {}
        BY <1>10, <2>2
    <2>4. Missed(r) \cup (IF r.at = "failing" THEN {r.next} ELSE {}) = {}
        BY <1>7, <2>1
    <2> QED
        BY <1>6, <1>7, <2>3, <2>4
<1>13. /\ ToSet(e) = {} /\ Ascending(e) /\ Len(r.results) = r.next - 1
       /\ r.next \in 1..Len(c) + 1
    BY <1>1, <1>8, <1>10, <1>11
<1>14. Live(r, l, e, c)
    BY <1>1, <1>5, <1>7, <1>9, <1>12, <1>13 DEF Live
<1> QED
    BY <1>1, <1>2, <1>5, <1>11, <1>14

LEMMA Appended ==
    ASSUME NEW S, NEW q \in Seq(S), NEW x \in S
    PROVE  /\ Append(q, x) \in Seq(S) /\ Len(Append(q, x)) = Len(q) + 1 /\ Len(q) \in Nat
           /\ \A n : n \in DOMAIN Append(q, x) <=> n \in DOMAIN q \/ n = Len(q) + 1
           /\ \A n \in DOMAIN q : Append(q, x)[n] = q[n]
           /\ Append(q, x)[Len(q) + 1] = x
           /\ Len(q) + 1 \notin DOMAIN q
<1>1. PICK more : more = Append(q, x)
    OBVIOUS
<1>2. /\ more \in Seq(S) /\ Len(more) = Len(q) + 1
      /\ \A i \in 1..Len(q) : more[i] = q[i]
      /\ more[Len(q) + 1] = x
    BY <1>1, AppendProperties
<1>3. Len(q) \in Nat /\ DOMAIN q = 1..Len(q) /\ DOMAIN more = 1..Len(q) + 1
    BY <1>2, LenProperties
<1> QED
    BY <1>1, <1>2, <1>3

LEMMA WorkflowBegins ==
    ASSUME WorkflowInv, NEW t \in Runners, StartRun(t)
    PROVE  WorkflowInv'
<1>1. /\ log \in Seq(Seq(Entry)) /\ effects \in Seq(Seq(Nat)) /\ chosen \in Seq(Seq(BOOLEAN))
      /\ Len(effects) = Len(log) /\ Len(chosen) = Len(log)
      /\ defined \in Definitions \cup {<<>>} /\ run \in [Runners -> Run \cup {NoRun}]
    BY DEF WorkflowInv, WorkflowTyped
<1>2. PICK c, n, l : c = defined /\ n = Len(log) + 1 /\ l = <<Event("started", 0)>>
    OBVIOUS
<1>3. c \in Seq(BOOLEAN) /\ n \in Nat
    BY <1>1, <1>2, LenProperties, WorkflowConstants DEF StartRun
<1>4. PICK r : r = [at |-> "step", id |-> n, steps |-> c, next |-> 1, results |-> <<>>]
    OBVIOUS
<1>5. r \in Run /\ r.id = n /\ l \in Seq(Entry) /\ Live(r, l, <<>>, c)
    BY <1>2, <1>3, <1>4, LiveBegins
<1>6. Sound(l, <<>>, c)
    <2>1. PICK e : e = <<>>
        OBVIOUS
    <2> QED
        BY <1>3, <1>5, <2>1, LiveIsSound
<1>7. <<>> \in Seq(Nat)
    OBVIOUS
<1>8. /\ run' = [run EXCEPT ![t] = r] /\ log' = Append(log, l)
      /\ effects' = Append(effects, <<>>) /\ chosen' = Append(chosen, c)
      /\ defined' = defined /\ Len(log) < MaxRuns
    BY <1>2, <1>4 DEF StartRun
<1>9. /\ log' \in Seq(Seq(Entry)) /\ Len(log') = n
      /\ \A m : m \in DOMAIN log' <=> m \in DOMAIN log \/ m = n
      /\ \A m \in DOMAIN log : log'[m] = log[m]
      /\ log'[n] = l /\ n \notin DOMAIN log /\ Len(log) \in Nat
    BY <1>1, <1>2, <1>5, <1>8, Appended
<1>10. /\ effects' \in Seq(Seq(Nat)) /\ Len(effects') = n
       /\ \A m \in DOMAIN effects : effects'[m] = effects[m]
       /\ effects'[n] = <<>>
    BY <1>1, <1>2, <1>7, <1>8, Appended
<1>11. /\ chosen' \in Seq(Seq(BOOLEAN)) /\ Len(chosen') = n
       /\ \A m \in DOMAIN chosen : chosen'[m] = chosen[m]
       /\ chosen'[n] = c
    BY <1>1, <1>2, <1>3, <1>8, Appended
<1>12. DOMAIN effects = DOMAIN log /\ DOMAIN chosen = DOMAIN log
    BY <1>1, LenProperties
<1>13. n <= MaxRuns
    BY <1>2, <1>8, <1>9, WorkflowConstants
<1>14. WorkflowTyped'
    BY <1>1, <1>5, <1>8, <1>9, <1>10, <1>11, <1>13 DEF WorkflowTyped
<1>15. /\ run'[t] = r /\ \A u \in Runners : u # t => run'[u] = run[u]
    BY <1>1, <1>8
<1>16. \A u \in Runners : run[u] # NoRun => run[u].id \in DOMAIN log /\ run[u].id # n
    BY <1>9 DEF WorkflowInv, RunsInv
<1>17. RunsInv'
    <2> SUFFICES ASSUME NEW u \in Runners, run'[u] # NoRun
                 PROVE  /\ run'[u].id \in DOMAIN log'
                        /\ Live(run'[u], log'[run'[u].id], effects'[run'[u].id],
                                chosen'[run'[u].id])
        BY DEF RunsInv
    <2>1. CASE u = t
        BY <1>5, <1>9, <1>10, <1>11, <1>15, <2>1
    <2>2. CASE u # t
        <3>1. run'[u] = run[u] /\ run[u] # NoRun
            BY <1>15, <2>2
        <3>2. /\ run[u].id \in DOMAIN log
              /\ Live(run[u], log[run[u].id], effects[run[u].id], chosen[run[u].id])
            BY <3>1 DEF WorkflowInv, RunsInv
        <3> QED
            BY <1>9, <1>10, <1>11, <1>12, <3>1, <3>2
    <2> QED
        BY <2>1, <2>2
<1>18. RunsApart'
    <2> SUFFICES ASSUME NEW u \in Runners, NEW v \in Runners, run'[u] # NoRun, run'[v] # NoRun,
                        run'[u].id = run'[v].id
                 PROVE  u = v
        BY DEF RunsApart
    <2>1. CASE u = t
        BY <1>5, <1>15, <1>16, <2>1
    <2>2. CASE v = t
        BY <1>5, <1>15, <1>16, <2>2
    <2>3. CASE u # t /\ v # t
        BY <1>15, <2>3 DEF WorkflowInv, RunsApart
    <2> QED
        BY <2>1, <2>2, <2>3
<1>19. LogsInv'
    <2> SUFFICES ASSUME NEW m \in DOMAIN log'
                 PROVE  Sound(log'[m], effects'[m], chosen'[m])
        BY DEF LogsInv
    <2>1. CASE m = n
        BY <1>6, <1>9, <1>10, <1>11, <2>1
    <2>2. CASE m \in DOMAIN log
        BY <1>9, <1>10, <1>11, <1>12, <2>2 DEF WorkflowInv, LogsInv
    <2> QED
        BY <1>9, <2>1, <2>2
<1> QED
    BY <1>14, <1>17, <1>18, <1>19 DEF WorkflowInv

LEMMA WorkflowStep ==
    WorkflowInv /\ [WorkflowNext]_workflowVars => WorkflowInv'
<1> SUFFICES ASSUME WorkflowInv, [WorkflowNext]_workflowVars PROVE WorkflowInv'
    OBVIOUS
<1>1. CASE UNCHANGED workflowVars
    BY <1>1 DEF workflowVars, WorkflowInv, WorkflowTyped, RunsInv, RunsApart, LogsInv
<1>2. CASE \E steps \in Definitions : Define(steps)
    BY <1>2, WorkflowDefines
<1>3. CASE WorkflowCrash
    BY <1>3, WorkflowDies
<1>4. ASSUME NEW t \in Runners, StartRun(t)
      PROVE  WorkflowInv'
    BY <1>4, WorkflowBegins
<1>5. ASSUME NEW t \in Runners, RunStep(t)
      PROVE  WorkflowInv'
    BY <1>5, WorkflowStartsStep, WorkflowInvokes, WorkflowSucceeds, WorkflowFailsStep,
       WorkflowFails, WorkflowCompletes DEF RunStep
<1> QED
    BY <1>1, <1>2, <1>3, <1>4, <1>5 DEF WorkflowNext

\* No step of a workflow runs twice, out of order, unannounced or past a failure
\* that may not be passed over, and the evidence of every run that ended accounts
\* for what it did, whatever the definitions are and however runs, new
\* definitions and the process's death interleave (workflow.py, and the
\* composition adapter's run).
THEOREM WorkflowsStaySafe ==
    WorkflowSpec => []WorkflowSafe
<1>1. WorkflowInit => WorkflowInv
    BY WorkflowStarts
<1>2. WorkflowInv /\ [WorkflowNext]_workflowVars => WorkflowInv'
    BY WorkflowStep
<1>3. WorkflowInv => WorkflowSafe
    BY WorkflowInvSafe
<1> QED
    BY <1>1, <1>2, <1>3, PTL DEF WorkflowSpec

-----------------------------------------------------------------------------
(***************************************************************************)
(* Circuit, for any number of threads, retries, threshold and cooldown.    *)
(***************************************************************************)
\* The attempts that calls under way may still make.
Outstanding == {p \in Askers \X (1..Retries + 1) : p[2] <= asking[p[1]].attempts}

Spare == (Cardinality(Askers) - 1) * (Retries + 1)

\* A call has attempts left while it sends; a thread without a call has none.
AttemptsInv ==
    \A t \in Askers : /\ asking[t].stage = "sending" => asking[t].attempts > 0
                      /\ asking[t].stage = "free" => asking[t].attempts = 0

\* An open circuit lets nobody begin, so that what was sent since it opened and
\* what may still be sent is no more than the others had left then.
SparedInv ==
    /\ sent \in Nat
    /\ IF left = 0 THEN sent = 0 ELSE sent + Cardinality(Outstanding) <= Spare

CircuitInv == CircuitTypeOK /\ AttemptsInv /\ SparedInv

Call == [stage : {"free", "sending", "answered", "failed"}, attempts : 0..Retries + 1]

-----------------------------------------------------------------------------
LEMMA OutstandingFinite ==
    /\ IsFiniteSet(Outstanding) /\ Cardinality(Outstanding) \in Nat
    /\ Cardinality(Askers) \in Nat \ {0} /\ Spare \in Nat
<1>1. IsFiniteSet(Askers) /\ Askers # {} /\ Retries \in Nat /\ IsFiniteSet(1..Retries + 1)
    BY CircuitConstants, FS_Interval DEF CircuitConstants
<1>2. IsFiniteSet(Askers \X (1..Retries + 1))
    BY <1>1, FS_Product
<1>3. Outstanding \in SUBSET (Askers \X (1..Retries + 1))
    BY DEF Outstanding
<1>4. IsFiniteSet(Outstanding) /\ Cardinality(Outstanding) \in Nat
    BY <1>2, <1>3, FS_Subset, FS_CardinalityType
<1>5. Cardinality(Askers) \in Nat \ {0}
    BY <1>1, FS_CardinalityType, FS_EmptySet
<1>6. PICK a, b : a = Cardinality(Askers) - 1 /\ b = Retries + 1 /\ a \in Nat /\ b \in Nat
    BY <1>1, <1>5
<1>7. a * b \in Nat
    BY <1>6
<1> QED
    BY <1>4, <1>5, <1>6, <1>7 DEF Spare

\* What a step of one thread does to the calls.
LEMMA CallMoves ==
    ASSUME CircuitTypeOK, NEW t \in Askers, NEW new \in Call, asking' = [asking EXCEPT ![t] = new]
    PROVE  /\ asking' \in [Askers -> Call]
           /\ \A u \in Askers : asking'[u] = IF u = t THEN new ELSE asking[u]
           /\ new.attempts = asking[t].attempts => Outstanding' = Outstanding
<1>1. asking \in [Askers -> Call]
    BY DEF CircuitTypeOK, Call
<1>2. asking' \in [Askers -> Call] /\ \A u \in Askers : asking'[u] = IF u = t THEN new ELSE asking[u]
    BY <1>1
<1>3. ASSUME new.attempts = asking[t].attempts
      PROVE  Outstanding' = Outstanding
    <2>1. \A u \in Askers : asking'[u].attempts = asking[u].attempts
        BY <1>2, <1>3
    <2> QED
        BY <2>1 DEF Outstanding
<1> QED
    BY <1>2, <1>3

LEMMA CallMeans ==
    ASSUME CircuitTypeOK, NEW t \in Askers
    PROVE  /\ asking[t] \in Call
           /\ asking[t].attempts \in 0..Retries + 1
           /\ asking[t].stage \in {"free", "sending", "answered", "failed"}
BY DEF CircuitTypeOK, Call

LEMMA CircuitStarts == CircuitInit => CircuitInv
<1> SUFFICES ASSUME CircuitInit PROVE CircuitInv
    OBVIOUS
<1>1. Retries \in Nat /\ Threshold \in Nat /\ Cooldown \in Nat
    BY CircuitConstants DEF CircuitConstants
<1>2. Free \in Call
    BY <1>1 DEF Free, Call
<1>3. CircuitTypeOK
    BY <1>1, <1>2 DEF CircuitInit, CircuitTypeOK, Call
<1>4. AttemptsInv
    BY DEF CircuitInit, AttemptsInv, Free
<1>5. SparedInv
    BY DEF CircuitInit, SparedInv
<1> QED
    BY <1>3, <1>4, <1>5 DEF CircuitInv

LEMMA TurnKeeps ==
    ASSUME CircuitInv, Turn
    PROVE  CircuitInv'
<1>1. CircuitTypeOK'
    BY DEF CircuitInv, Turn, CircuitTypeOK
<1>2. AttemptsInv'
    BY DEF CircuitInv, Turn, AttemptsInv
<1>3. Outstanding' = Outstanding
    BY DEF Turn, Outstanding
<1>4. SparedInv'
    BY <1>3 DEF CircuitInv, Turn, SparedInv
<1> QED
    BY <1>1, <1>2, <1>4 DEF CircuitInv

LEMMA PassKeeps ==
    ASSUME CircuitInv, Pass
    PROVE  CircuitInv'
<1>1. left \in 1..Cooldown /\ left' = left - 1 /\ Cooldown \in Nat
    BY CircuitConstants DEF CircuitInv, Pass, CircuitTypeOK, CircuitConstants
<1>2. left' \in 0..Cooldown /\ (left' = 0 <=> left = 1)
    BY <1>1
<1>3. CircuitTypeOK'
    BY <1>1, <1>2 DEF CircuitInv, Pass, CircuitTypeOK
<1>4. AttemptsInv'
    BY DEF CircuitInv, Pass, AttemptsInv
<1>5. Outstanding' = Outstanding
    BY DEF Pass, Outstanding
<1>6. SparedInv'
    BY <1>1, <1>2, <1>5 DEF CircuitInv, Pass, SparedInv
<1> QED
    BY <1>3, <1>4, <1>6 DEF CircuitInv

LEMMA AskKeeps ==
    ASSUME CircuitInv, NEW t \in Askers, Ask(t)
    PROVE  CircuitInv'
<1>1. CASE UNCHANGED circuitVars
    BY <1>1 DEF CircuitInv, circuitVars, CircuitTypeOK, AttemptsInv, SparedInv, Outstanding
<1>2. CASE left = 0 /\ StartCall(t)
    <2>1. PICK attempts \in Allowances : asking' = [asking EXCEPT ![t] = Sending(attempts)]
        BY <1>2 DEF StartCall
    <2>2. Sending(attempts) \in Call /\ attempts > 0
        BY CircuitConstants DEF Allowances, Sending, Call, CircuitConstants
    <2>3. /\ asking' \in [Askers -> Call]
          /\ \A u \in Askers : asking'[u] = IF u = t THEN Sending(attempts) ELSE asking[u]
        BY <2>1, <2>2, CallMoves DEF CircuitInv
    <2>4. CircuitTypeOK'
        BY <1>2, <2>3 DEF CircuitInv, StartCall, CircuitTypeOK, Call
    <2>5. AttemptsInv'
        BY <2>2, <2>3 DEF CircuitInv, AttemptsInv, Sending
    <2>6. SparedInv'
        BY <1>2 DEF CircuitInv, StartCall, SparedInv
    <2> QED
        BY <2>4, <2>5, <2>6 DEF CircuitInv
<1> QED
    BY <1>1, <1>2 DEF Ask

LEMMA AttemptKeeps ==
    ASSUME CircuitInv, NEW t \in Askers, Attempt(t)
    PROVE  CircuitInv'
<1>1. /\ CircuitTypeOK /\ AttemptsInv /\ SparedInv /\ Retries \in Nat
      /\ asking[t].stage = "sending" /\ asking[t].attempts \in 1..Retries + 1
      /\ UNCHANGED <<failures, left, up>>
    BY CallMeans, CircuitConstants DEF CircuitInv, Attempt, AttemptsInv, CircuitConstants
<1>2. PICK n : n = asking[t].attempts
    OBVIOUS
<1>3. PICK new : new = [asking[t] EXCEPT !.stage = IF up THEN "answered" ELSE "failed",
                                         !.attempts = @ - 1]
    OBVIOUS
<1>4. /\ new \in Call /\ new.attempts = n - 1
      /\ new.stage \in {"answered", "failed"}
    <2>1. asking[t] \in Call
        BY <1>1, CallMeans
    <2>2. new = [stage |-> IF up THEN "answered" ELSE "failed", attempts |-> n - 1]
        BY <1>2, <1>3, <2>1 DEF Call
    <2>3. n - 1 \in 0..Retries + 1
        BY <1>1, <1>2
    <2> QED
        BY <2>2, <2>3 DEF Call
<1>5. asking' = [asking EXCEPT ![t] = new]
    BY <1>1, <1>3 DEF Attempt, CircuitTypeOK
<1>6. /\ asking' \in [Askers -> Call]
      /\ \A u \in Askers : asking'[u] = IF u = t THEN new ELSE asking[u]
    BY <1>1, <1>4, <1>5, CallMoves
<1>7. CircuitTypeOK'
    BY <1>1, <1>6 DEF CircuitTypeOK, Call
<1>8. AttemptsInv'
    BY <1>1, <1>4, <1>6 DEF AttemptsInv
<1>9. SparedInv'
    <2>1. CASE left = 0
        BY <1>1, <2>1 DEF Attempt, SparedInv
    <2>2. CASE left # 0
        <3>1. left > 0
            BY <1>1, <2>2 DEF CircuitTypeOK
        <3>2. sent' = sent + 1
            BY <3>1 DEF Attempt
        <3>3. \A u \in Askers : asking[u].attempts \in Nat
            BY <1>1, CallMeans
        <3>4. Outstanding' = Outstanding \ {<<t, n>>} /\ <<t, n>> \in Outstanding
            <4>1. <<t, n>> \in Outstanding
                BY <1>1, <1>2 DEF Outstanding
            <4>2. ASSUME NEW u \in Askers, NEW i \in 1..Retries + 1
                  PROVE  i <= asking'[u].attempts <=> i <= asking[u].attempts /\ <<u, i>> # <<t, n>>
                BY <1>1, <1>2, <1>4, <1>6, <3>3
            <4> QED
                BY <4>1, <4>2 DEF Outstanding
        <3>5. Cardinality(Outstanding') = Cardinality(Outstanding) - 1
            BY <3>4, OutstandingFinite, FS_RemoveElement
        <3>6. sent \in Nat /\ sent + Cardinality(Outstanding) <= Spare
            BY <1>1, <2>2 DEF SparedInv
        <3>7. sent' \in Nat /\ sent' + Cardinality(Outstanding') <= Spare
            BY <3>2, <3>5, <3>6, OutstandingFinite
        <3> QED
            BY <1>1, <2>2, <3>7 DEF SparedInv, Spare
    <2> QED
        BY <2>1, <2>2
<1> QED
    BY <1>7, <1>8, <1>9 DEF CircuitInv

LEMMA TryAgainKeeps ==
    ASSUME CircuitInv, NEW t \in Askers, TryAgain(t)
    PROVE  CircuitInv'
<1>1. /\ CircuitTypeOK /\ AttemptsInv /\ SparedInv
      /\ asking[t].attempts > 0
      /\ UNCHANGED <<failures, left, up, sent>>
    BY DEF CircuitInv, TryAgain
<1>2. PICK new : new = [asking[t] EXCEPT !.stage = "sending"]
    OBVIOUS
<1>3. new \in Call /\ new.attempts = asking[t].attempts /\ new.stage = "sending"
    BY <1>1, <1>2, CallMeans DEF Call
<1>4. asking' = [asking EXCEPT ![t] = new]
    BY <1>1, <1>2 DEF TryAgain, CircuitTypeOK
<1>5. /\ asking' \in [Askers -> Call]
      /\ \A u \in Askers : asking'[u] = IF u = t THEN new ELSE asking[u]
      /\ Outstanding' = Outstanding
    BY <1>1, <1>3, <1>4, CallMoves
<1>6. CircuitTypeOK'
    BY <1>1, <1>5 DEF CircuitTypeOK, Call
<1>7. AttemptsInv'
    BY <1>1, <1>3, <1>5 DEF AttemptsInv
<1>8. SparedInv'
    BY <1>1, <1>5 DEF SparedInv, Spare
<1> QED
    BY <1>6, <1>7, <1>8 DEF CircuitInv

LEMMA FreeIsCall == Free \in Call /\ Free.attempts = 0 /\ Free.stage = "free"
BY CircuitConstants DEF Free, Call, CircuitConstants

LEMMA FailKeeps ==
    ASSUME CircuitInv, NEW t \in Askers, Fail(t)
    PROVE  CircuitInv'
<1>1. /\ CircuitTypeOK /\ AttemptsInv /\ SparedInv
      /\ asking[t].attempts = 0
      /\ asking' = [asking EXCEPT ![t] = Free]
      /\ UNCHANGED <<up, sent>>
    BY DEF CircuitInv, Fail
<1>2. /\ asking' \in [Askers -> Call]
      /\ \A u \in Askers : asking'[u] = IF u = t THEN Free ELSE asking[u]
      /\ Outstanding' = Outstanding
    BY <1>1, FreeIsCall, CallMoves
<1>3. Threshold \in Nat \ {0} /\ Cooldown \in Nat \ {0} /\ Retries \in Nat
    BY CircuitConstants DEF CircuitConstants
<1>4. /\ failures' \in 0..Threshold
      /\ left' \in 0..Cooldown
      /\ left' > 0 => failures' = Threshold
      /\ left' = left \/ left' > 0
    BY <1>1, <1>3 DEF Fail, CountFailure, CircuitTypeOK
<1>5. CircuitTypeOK'
    BY <1>1, <1>2, <1>4 DEF CircuitTypeOK, Call
<1>6. AttemptsInv'
    BY <1>1, <1>2, FreeIsCall DEF AttemptsInv
<1>7. SparedInv'
    <2>1. CASE left' = 0
        BY <1>1, <1>4, <2>1 DEF SparedInv
    <2>2. CASE left' # 0 /\ left # 0
        BY <1>1, <1>2, <2>2 DEF SparedInv, Spare
    <2>3. CASE left' # 0 /\ left = 0
        <3>1. sent = 0
            BY <1>1, <2>3 DEF SparedInv
        <3> DEFINE others == Askers \ {t}
        <3>2. Outstanding \in SUBSET (others \X (1..Retries + 1))
            BY <1>1 DEF Outstanding
        <3>3. IsFiniteSet(others) /\ Cardinality(others) = Cardinality(Askers) - 1
            BY CircuitConstants, FS_RemoveElement DEF CircuitConstants
        <3>4. IsFiniteSet(1..Retries + 1) /\ Cardinality(1..Retries + 1) = Retries + 1
            BY <1>3, FS_Interval
        <3> HIDE DEF others
        <3>5. /\ IsFiniteSet(others \X (1..Retries + 1))
              /\ Cardinality(others \X (1..Retries + 1)) = Spare
            BY <3>3, <3>4, FS_Product DEF Spare
        <3>6. Cardinality(Outstanding) <= Spare
            BY <3>2, <3>5, FS_Subset
        <3> QED
            BY <1>1, <1>2, <2>3, <3>1, <3>6, OutstandingFinite DEF SparedInv, Spare
    <2> QED
        BY <2>1, <2>2, <2>3
<1> QED
    BY <1>5, <1>6, <1>7 DEF CircuitInv

LEMMA SucceedKeeps ==
    ASSUME CircuitInv, NEW t \in Askers, Succeed(t)
    PROVE  CircuitInv'
<1>1. /\ CircuitTypeOK /\ AttemptsInv
      /\ failures' = 0 /\ left' = 0 /\ sent' = 0 /\ UNCHANGED up
      /\ asking' = [asking EXCEPT ![t] = Free]
    BY DEF CircuitInv, Succeed, CountSuccess
<1>2. /\ asking' \in [Askers -> Call]
      /\ \A u \in Askers : asking'[u] = IF u = t THEN Free ELSE asking[u]
    BY <1>1, FreeIsCall, CallMoves
<1>3. CircuitTypeOK'
    BY <1>1, <1>2, CircuitConstants DEF CircuitTypeOK, Call, CircuitConstants
<1>4. AttemptsInv'
    BY <1>1, <1>2, FreeIsCall DEF AttemptsInv
<1>5. SparedInv'
    BY <1>1 DEF SparedInv
<1> QED
    BY <1>3, <1>4, <1>5 DEF CircuitInv

LEMMA CircuitStep == CircuitInv /\ [CircuitNext]_circuitVars => CircuitInv'
<1> SUFFICES ASSUME CircuitInv, [CircuitNext]_circuitVars
             PROVE  CircuitInv'
    OBVIOUS
<1>1. CASE Turn \/ Pass
    BY <1>1, TurnKeeps, PassKeeps
<1>2. ASSUME NEW t \in Askers, Ask(t) \/ GoesOn(t)
      PROVE  CircuitInv'
    BY <1>2, AskKeeps, AttemptKeeps, TryAgainKeeps, FailKeeps, SucceedKeeps DEF GoesOn
<1>3. CASE UNCHANGED circuitVars
    BY <1>3 DEF CircuitInv, circuitVars, CircuitTypeOK, AttemptsInv, SparedInv, Outstanding, Spare
<1> QED
    BY <1>1, <1>2, <1>3 DEF CircuitNext

LEMMA CircuitInvSafe == CircuitInv => CircuitSafe
<1> SUFFICES ASSUME CircuitInv PROVE CircuitSafe
    OBVIOUS
<1>1. sent <= Spare
    BY OutstandingFinite DEF CircuitInv, SparedInv
<1> QED
    BY <1>1 DEF CircuitInv, CircuitSafe, OriginSpared, Spare

\* However many threads share an origin, an open circuit lets through no more
\* than the attempts of the calls that had found it closed (chp-adapter-http).
THEOREM CircuitStaysSafe == CircuitSpec => []CircuitSafe
<1>1. CircuitInit => CircuitInv
    BY CircuitStarts
<1> QED
    BY <1>1, CircuitStep, CircuitInvSafe, PTL DEF CircuitSpec

-----------------------------------------------------------------------------
(***************************************************************************)
(* ModelCache, for any models, number of threads and size of the cache.    *)
(***************************************************************************)
Frame ==
    [stage : {"none", "load", "insert", "use"}, key : Models \cup {<<>>},
     load : SUBSET Loads, evicted : Seq(Loads)]

KeysOf(q) == {q[n][1] : n \in DOMAIN q}

ValuesOf(q) == {q[n][2] : n \in DOMAIN q}

Keyed(q) == \A m, n \in DOMAIN q : q[m][1] = q[n][1] => m = n

FrameSound(f) ==
    /\ f.stage \in {"none", "load"} => f.load = {}
    /\ f.stage \in {"insert", "use"} => \E x \in Loads : f.load = {x}
    /\ f.stage \in {"load", "insert"} => f.key \in Models
    /\ f.evicted # <<>> => f.stage = "use" /\ Len(f.evicted) = 1

CacheTyped ==
    /\ cache \in Seq(Models \X Loads)
    /\ Len(cache) <= MaxCached
    /\ Keyed(cache)
    /\ using \in [Users -> Frame]
    /\ resident \in SUBSET Loads

\* The threads that have models to release; that is so only where the cache is full.
Evicting == {t \in Users : using[t].evicted # <<>>}

\* Those that are loading again what is cached already ...
Doubling == {t \in Users : using[t].stage = "load" /\ using[t].key \in KeysOf(cache)}

\* ... and those that have loaded what is not cached yet.
Bringing == {t \in Users : using[t].stage = "insert" /\ using[t].key \notin KeysOf(cache)}

FramesInv ==
    \A t \in Users :
        /\ FrameSound(using[t])
        /\ using[t].load \cup Elements(using[t].evicted) \subseteq resident
        /\ using[t].evicted # <<>> => Len(cache) = MaxCached

HeldInv == ValuesOf(cache) \subseteq resident

\* A thread that keeps nothing from being given back that counts against the bound.
Idle(t) ==
    \/ using[t].stage = "none"
    \/ using[t].stage = "load" /\ using[t].key \notin KeysOf(cache)
    \/ using[t].stage = "insert" /\ using[t].key \notin KeysOf(cache)
    \/ using[t].stage = "use" /\ using[t].load \subseteq ValuesOf(cache)

IdleInv == cache # <<>> => \E t \in Users : Idle(t)

Bound == 2 * Cardinality(Users) * MaxCached + Cardinality(Users) * (Cardinality(Users) + 1)

\* Twice what is in memory, with what the threads can still add to it before one of
\* them releases a model: each once for every place that is free in the cache, and
\* once more until it is the one to evict.
Promised(size, evicting, doubling, bringing, room) ==
    LET free == Cardinality(Users) - evicting
    IN  2 * size + 2 * free * room + free * (free + 1) + 2 * doubling - 2 * bringing

PromiseInv ==
    Promised(Cardinality(resident), Cardinality(Evicting), Cardinality(Doubling),
             Cardinality(Bringing), MaxCached - Len(cache)) <= Bound

CacheInv == CacheTyped /\ FramesInv /\ HeldInv /\ IdleInv /\ PromiseInv

-----------------------------------------------------------------------------
(***************************************************************************)
(* The cache as a sequence of keyed entries                                *)
(***************************************************************************)
\* The cache without the entry of a key.
LEMMA OthersMeans ==
    ASSUME CacheTyped, NEW key, NEW q, q = Others(key)
    PROVE  /\ q \in Seq(Models \X Loads) /\ Keyed(q)
           /\ KeysOf(q) = KeysOf(cache) \ {key}
           /\ ValuesOf(q) \subseteq ValuesOf(cache)
           /\ Len(q) = Len(cache) - (IF key \in KeysOf(cache) THEN 1 ELSE 0)
<1>1. /\ cache \in Seq(Models \X Loads) /\ Len(cache) \in Nat /\ DOMAIN cache = 1..Len(cache)
      /\ \A m, n \in 1..Len(cache) : cache[m][1] = cache[n][1] => m = n
      /\ \A n \in 1..Len(cache) : cache[n] \in Models \X Loads
    BY ElementOfSeq, LenProperties DEF CacheTyped, Keyed
<1>2. Cached(key) = {} <=> key \notin KeysOf(cache)
    BY DEF Cached, Elements, KeysOf
<1>3. CASE key \notin KeysOf(cache)
    <2>1. q = cache
        BY <1>2, <1>3 DEF Others
    <2> QED
        BY <1>1, <1>3, <2>1 DEF CacheTyped
<1>4. CASE key \in KeysOf(cache)
    <2>1. PICK at : at = CHOOSE n \in DOMAIN cache : cache[n][1] = key
        OBVIOUS
    <2>2. at \in 1..Len(cache) /\ cache[at][1] = key
        BY <1>1, <1>4, <2>1 DEF KeysOf
    <2>3. PICK c : c = Len(cache)
        OBVIOUS
    <2>4. c \in Nat /\ at \in 1..c
        BY <1>1, <2>2, <2>3
    <2>5. q = [n \in 1..c - 1 |-> IF n < at THEN cache[n] ELSE cache[n + 1]]
        BY <1>2, <1>4, <2>1, <2>3 DEF Others
    <2>6. \A n \in 1..c - 1 : q[n] = IF n < at THEN cache[n] ELSE cache[n + 1]
        BY <2>5
    <2>7. \A n \in 1..c - 1 : /\ n < at => q[n] = cache[n]
                              /\ ~(n < at) => q[n] = cache[n + 1]
        BY <2>6
    <2>8. \A n \in 1..c - 1 : n \in 1..c /\ n + 1 \in 1..c
        BY <2>4
    <2>9. \A n \in 1..c - 1 : q[n] \in Models \X Loads
        BY <1>1, <2>3, <2>7, <2>8
    <2>10. c - 1 \in Nat /\ DOMAIN q = 1..c - 1
        BY <2>4, <2>5
    <2>11. q \in Seq(Models \X Loads) /\ Len(q) = c - 1
        <3>1. q \in [1..c - 1 -> Models \X Loads]
            BY <2>5, <2>9
        <3>2. q \in Seq(Models \X Loads)
            BY <2>10, <3>1, SeqDef
        <3> QED
            BY <2>10, <3>2, LenProperties
    <2>12. Keyed(q)
        <3> SUFFICES ASSUME NEW m \in 1..c - 1, NEW n \in 1..c - 1, q[m][1] = q[n][1]
                     PROVE  m = n
            BY <2>10 DEF Keyed
        <3> QED
            BY <1>1, <2>3, <2>4, <2>7, <2>8
    <2>13. \A n \in 1..c - 1 : \E m \in 1..c : m # at /\ q[n] = cache[m]
        BY <2>4, <2>7, <2>8
    <2>14. \A m \in 1..c : m # at => \E n \in 1..c - 1 : q[n] = cache[m]
        <3> SUFFICES ASSUME NEW m \in 1..c, m # at
                     PROVE  \E n \in 1..c - 1 : q[n] = cache[m]
            OBVIOUS
        <3>1. CASE m < at
            BY <2>4, <2>7, <3>1
        <3>2. CASE at < m
            <4>1. m - 1 \in 1..c - 1 /\ ~(m - 1 < at) /\ (m - 1) + 1 = m
                BY <2>4, <3>2
            <4> QED
                BY <2>7, <4>1
        <3> QED
            BY <2>4, <3>1, <3>2
    <2>15. \A m \in 1..c : cache[m][1] = key <=> m = at
        BY <1>1, <2>2, <2>3
    <2>16. /\ \A n \in DOMAIN q : \E m \in DOMAIN cache : m # at /\ q[n] = cache[m]
           /\ \A m \in DOMAIN cache : m # at => \E n \in DOMAIN q : q[n] = cache[m]
           /\ \A m \in DOMAIN cache : cache[m][1] = key <=> m = at
        <3>1. DOMAIN cache = 1..c /\ DOMAIN q = 1..c - 1
            BY <1>1, <2>3, <2>10
        <3>2. \A n \in DOMAIN q : \E m \in DOMAIN cache : m # at /\ q[n] = cache[m]
            BY <2>13, <3>1, Zenon
        <3>3. \A m \in DOMAIN cache : m # at => \E n \in DOMAIN q : q[n] = cache[m]
            BY <2>14, <3>1, Zenon
        <3>4. \A m \in DOMAIN cache : cache[m][1] = key <=> m = at
            BY <2>15, <3>1, Zenon
        <3> QED
            BY <3>2, <3>3, <3>4
    <2>17. KeysOf(q) = KeysOf(cache) \ {key}
        <3>1. ASSUME NEW n \in DOMAIN q
              PROVE  q[n][1] \in KeysOf(cache) \ {key}
            <4>1. PICK m \in DOMAIN cache : m # at /\ q[n] = cache[m]
                BY <2>16
            <4> QED
                BY <2>16, <4>1 DEF KeysOf
        <3>2. ASSUME NEW m \in DOMAIN cache, cache[m][1] # key
              PROVE  cache[m][1] \in KeysOf(q)
            <4>1. PICK n \in DOMAIN q : q[n] = cache[m]
                BY <2>16, <3>2
            <4> QED
                BY <4>1 DEF KeysOf
        <3> QED
            BY <3>1, <3>2 DEF KeysOf
    <2>18. ValuesOf(q) \subseteq ValuesOf(cache)
        <3> SUFFICES ASSUME NEW n \in DOMAIN q
                     PROVE  q[n][2] \in ValuesOf(cache)
            BY DEF ValuesOf
        <3>1. PICK m \in DOMAIN cache : q[n] = cache[m]
            BY <2>16
        <3> QED
            BY <3>1 DEF ValuesOf
    <2> QED
        BY <1>4, <2>3, <2>11, <2>12, <2>17, <2>18
<1> QED
    BY <1>3, <1>4

\* An entry added at the end.
LEMMA EntryAdded ==
    ASSUME NEW q \in Seq(Models \X Loads), Keyed(q), NEW key \in Models, key \notin KeysOf(q),
           NEW x \in Loads
    PROVE  /\ Append(q, <<key, x>>) \in Seq(Models \X Loads)
           /\ Keyed(Append(q, <<key, x>>))
           /\ KeysOf(Append(q, <<key, x>>)) = KeysOf(q) \cup {key}
           /\ ValuesOf(Append(q, <<key, x>>)) = ValuesOf(q) \cup {x}
           /\ Len(Append(q, <<key, x>>)) = Len(q) + 1 /\ Len(q) \in Nat
<1>1. PICK more, new : new = <<key, x>> /\ more = Append(q, new)
    OBVIOUS
<1>2. new \in Models \X Loads /\ new[1] = key /\ new[2] = x
    BY <1>1
<1>3. /\ more \in Seq(Models \X Loads) /\ Len(more) = Len(q) + 1
      /\ \A i \in 1..Len(q) : more[i] = q[i]
      /\ more[Len(q) + 1] = new
    BY <1>1, <1>2, AppendProperties
<1>4. Len(q) \in Nat /\ DOMAIN q = 1..Len(q) /\ DOMAIN more = 1..Len(q) + 1
    BY <1>3, LenProperties
<1>5. \A i \in DOMAIN more : i \in DOMAIN q \/ i = Len(q) + 1
    BY <1>4
<1>6. /\ \A i \in DOMAIN q : i \in DOMAIN more /\ more[i] = q[i]
      /\ Len(q) + 1 \in DOMAIN more
    BY <1>3, <1>4
<1>7. \A i \in DOMAIN q : q[i][1] # key
    BY DEF KeysOf
<1>8. Keyed(more)
    <2> SUFFICES ASSUME NEW m \in DOMAIN more, NEW n \in DOMAIN more, more[m][1] = more[n][1]
                 PROVE  m = n
        BY DEF Keyed
    <2> QED
        BY <1>2, <1>3, <1>5, <1>6, <1>7 DEF Keyed
<1>9. KeysOf(more) = KeysOf(q) \cup {key} /\ ValuesOf(more) = ValuesOf(q) \cup {x}
    BY <1>2, <1>3, <1>5, <1>6 DEF KeysOf, ValuesOf
<1> QED
    BY <1>1, <1>3, <1>4, <1>8, <1>9

\* The oldest entry dropped.
LEMMA OldestDropped ==
    ASSUME NEW q \in Seq(Models \X Loads), Keyed(q), Len(q) >= 2,
           NEW rest, rest = SubSeq(q, 2, Len(q))
    PROVE  /\ rest \in Seq(Models \X Loads) /\ Keyed(rest) /\ Len(rest) = Len(q) - 1
           /\ KeysOf(rest) \subseteq KeysOf(q)
           /\ ValuesOf(rest) \subseteq ValuesOf(q)
           /\ q[Len(q)][1] \in KeysOf(rest) /\ q[Len(q)][2] \in ValuesOf(rest)
           /\ KeysOf(q) \subseteq KeysOf(rest) \cup {q[1][1]}
           /\ q[1][2] \in ValuesOf(q) /\ q[1][2] \in Loads
<1>1. PICK c : c = Len(q)
    OBVIOUS
<1>2. c \in Nat /\ c >= 2 /\ DOMAIN q = 1..c
    BY <1>1, LenProperties
<1>3. \A n \in 2..c : q[n] \in Models \X Loads
    BY <1>1, <1>2, ElementOfSeq
<1>4. /\ rest \in Seq(Models \X Loads) /\ Len(rest) = c - 1
      /\ \A i \in 1..c - 1 : rest[i] = q[i + 1]
    <2>1. \A i \in 2..c : q[i] \in Models \X Loads
        BY <1>3
    <2>2. /\ rest \in Seq(Models \X Loads) /\ Len(rest) = IF 2 <= c THEN c - 2 + 1 ELSE 0
          /\ \A i \in 1..c - 2 + 1 : rest[i] = q[2 + i - 1]
        BY <1>1, <1>2, <2>1, SubSeqProperties
    <2>3. \A i \in 1..c - 1 : i \in 1..c - 2 + 1 /\ 2 + i - 1 = i + 1
        BY <1>2
    <2> QED
        BY <1>2, <2>2, <2>3
<1>5. DOMAIN rest = 1..c - 1
    BY <1>4, LenProperties
<1>6. \A i \in DOMAIN rest : i + 1 \in DOMAIN q /\ rest[i] = q[i + 1] /\ i \in Int
    BY <1>2, <1>4, <1>5
<1>7. \A i \in DOMAIN q : i = 1 \/ (i - 1 \in DOMAIN rest /\ rest[i - 1] = q[i])
    <2> SUFFICES ASSUME NEW i \in 1..c, i # 1
                 PROVE  i - 1 \in 1..c - 1 /\ rest[i - 1] = q[i]
        BY <1>2, <1>5
    <2>1. i - 1 \in 1..c - 1 /\ (i - 1) + 1 = i
        BY <1>2
    <2> QED
        BY <1>4, <2>1
<1>8. Keyed(rest)
    <2> SUFFICES ASSUME NEW m \in DOMAIN rest, NEW n \in DOMAIN rest, rest[m][1] = rest[n][1]
                 PROVE  m = n
        BY DEF Keyed
    <2>1. m + 1 = n + 1 /\ m \in Int /\ n \in Int
        BY <1>6 DEF Keyed
    <2> QED
        BY <2>1
<1>9. KeysOf(rest) \subseteq KeysOf(q) /\ ValuesOf(rest) \subseteq ValuesOf(q)
    BY <1>6 DEF KeysOf, ValuesOf
<1>10. c \in DOMAIN q /\ c # 1 /\ 1 \in DOMAIN q
    BY <1>2
<1>11. q[c][1] \in KeysOf(rest) /\ q[c][2] \in ValuesOf(rest)
    BY <1>7, <1>10 DEF KeysOf, ValuesOf
<1>12. KeysOf(q) \subseteq KeysOf(rest) \cup {q[1][1]}
    <2> SUFFICES ASSUME NEW i \in DOMAIN q
                 PROVE  q[i][1] \in KeysOf(rest) \cup {q[1][1]}
        BY DEF KeysOf
    <2>1. CASE i = 1
        BY <2>1
    <2>2. CASE i # 1
        <3>1. i - 1 \in DOMAIN rest /\ rest[i - 1] = q[i]
            BY <1>7, <2>2
        <3> QED
            BY <3>1 DEF KeysOf
    <2> QED
        BY <2>1, <2>2
<1>13. q[1][2] \in ValuesOf(q) /\ q[1][2] \in Loads
    <2>1. q[1] \in Models \X Loads
        BY <1>1, <1>2, ElementOfSeq
    <2> QED
        BY <1>10, <2>1 DEF ValuesOf
<1> QED
    BY <1>1, <1>4, <1>8, <1>9, <1>11, <1>12, <1>13

-----------------------------------------------------------------------------
(***************************************************************************)
(* Counting                                                                *)
(***************************************************************************)
\* What a function makes of a finite set is no more than the set.
LEMMA ImageSmall ==
    ASSUME NEW S, IsFiniteSet(S), NEW f, NEW T, \A y \in T : \E x \in S : y = f[x]
    PROVE  IsFiniteSet(T) /\ Cardinality(T) <= Cardinality(S)
<1>1. PICK R, g : R = {x \in S : f[x] \in T} /\ g = [x \in R |-> f[x]]
    OBVIOUS
<1>2. g \in Surjection(R, T)
    BY <1>1 DEF Surjection
<1>3. IsFiniteSet(R) /\ Cardinality(R) <= Cardinality(S)
    BY <1>1, FS_Subset
<1>4. IsFiniteSet(T) /\ Cardinality(T) <= Cardinality(R)
    BY <1>2, <1>3, FS_Surjection
<1>5. Cardinality(S) \in Nat /\ Cardinality(R) \in Nat /\ Cardinality(T) \in Nat
    BY <1>3, <1>4, FS_CardinalityType
<1> QED
    BY <1>3, <1>4, <1>5

LEMMA UsersCounted ==
    ASSUME NEW S \in SUBSET Users
    PROVE  /\ IsFiniteSet(S) /\ Cardinality(S) \in Nat
           /\ Cardinality(S) <= Cardinality(Users) /\ Cardinality(Users) \in Nat
<1>1. IsFiniteSet(Users)
    BY ModelCacheConstants
<1>2. IsFiniteSet(S) /\ Cardinality(S) <= Cardinality(Users)
    BY <1>1, FS_Subset
<1> QED
    BY <1>1, <1>2, FS_CardinalityType

\* Sets of threads that share none have no more than all of the threads.
LEMMA ThreadsApart ==
    ASSUME NEW S \in SUBSET Users, NEW T \in SUBSET Users, S \cap T = {}
    PROVE  Cardinality(S \cup T) = Cardinality(S) + Cardinality(T)
<1>1. IsFiniteSet(S) /\ IsFiniteSet(T) /\ Cardinality(S) \in Nat /\ Cardinality(T) \in Nat
    BY UsersCounted
<1>2. Cardinality(S \cup T) = Cardinality(S) + Cardinality(T) - Cardinality(S \cap T)
    BY <1>1, FS_Union
<1>3. Cardinality(S \cap T) = 0
    BY FS_EmptySet
<1> QED
    BY <1>1, <1>2, <1>3

LEMMA ThreadsCounted ==
    /\ Evicting \in SUBSET Users /\ Doubling \in SUBSET Users /\ Bringing \in SUBSET Users
    /\ Cardinality(Evicting) \in Nat /\ Cardinality(Evicting) <= Cardinality(Users)
    /\ Cardinality(Doubling) \in Nat /\ Cardinality(Bringing) \in Nat
    /\ Cardinality(Users) \in Nat
<1>1. Evicting \in SUBSET Users /\ Doubling \in SUBSET Users /\ Bringing \in SUBSET Users
    BY DEF Evicting, Doubling, Bringing
<1> QED
    BY <1>1, UsersCounted

LEMMA ResidentCounted ==
    ASSUME NEW S \in SUBSET Loads
    PROVE  IsFiniteSet(S) /\ Cardinality(S) \in Nat
<1>1. IsFiniteSet(Loads)
    BY ModelCacheConstants
<1>2. IsFiniteSet(S)
    BY <1>1, FS_Subset
<1> QED
    BY <1>2, FS_CardinalityType

\* Threads that wait for a model, or bring it, are not releasing one.
LEMMA BringersFree ==
    ASSUME CacheInv
    PROVE  /\ Evicting \cap Doubling = {} /\ Evicting \cap Bringing = {}
           /\ \A t \in Evicting : using[t].stage = "use"
BY DEF CacheInv, FramesInv, FrameSound, Evicting, Doubling, Bringing

\* The bound, from what the threads can still add: what is in memory alone is no more.
LEMMA PromiseBounds ==
    ASSUME CacheInv
    PROVE  2 * Cardinality(resident) <= Bound
<1>1. PICK u, w, p, q, size, room :
          /\ u = Cardinality(Users) /\ w = Cardinality(Evicting) /\ p = Cardinality(Doubling)
          /\ q = Cardinality(Bringing) /\ size = Cardinality(resident)
          /\ room = MaxCached - Len(cache)
    OBVIOUS
<1>2. /\ u \in Nat /\ w \in Nat /\ p \in Nat /\ q \in Nat /\ w <= u
      /\ Evicting \in SUBSET Users /\ Bringing \in SUBSET Users
    BY <1>1, ThreadsCounted
<1>3. w + q <= u
    <2>1. Cardinality(Evicting \cup Bringing) = w + q
        BY <1>1, <1>2, BringersFree, ThreadsApart
    <2>2. Evicting \cup Bringing \in SUBSET Users
        BY <1>2
    <2> QED
        BY <1>1, <2>1, <2>2, UsersCounted
<1>4. room \in Nat /\ size \in Nat
    <2>1. Len(cache) \in Nat /\ Len(cache) <= MaxCached /\ MaxCached \in Nat
        BY ModelCacheConstants, LenProperties DEF CacheInv, CacheTyped
    <2>2. size \in Nat
        BY <1>1, ResidentCounted DEF CacheInv, CacheTyped
    <2> QED
        BY <1>1, <2>1, <2>2
<1>5. PICK free : free = u - w
    OBVIOUS
<1>6. free \in Nat /\ q <= free
    BY <1>2, <1>3, <1>5
<1>7. 2 * size + 2 * free * room + free * (free + 1) + 2 * p - 2 * q <= Bound
    BY <1>1, <1>5 DEF CacheInv, PromiseInv, Promised
<1>8. free * room >= 0 /\ free * (free + 1) >= 2 * free
    <2>1. free * room \in Nat
        BY <1>4, <1>6
    <2>2. free = 0 \/ free >= 1
        BY <1>6
    <2>3. CASE free = 0
        BY <2>1, <2>3
    <2>4. CASE free >= 1
        <3>1. PICK less \in Nat : less = free - 1
            BY <1>6, <2>4
        <3>2. free * less \in Nat
            BY <1>6
        <3>3. free * (free + 1) = free * less + 2 * free
            BY <1>6, <3>1
        <3> QED
            BY <1>6, <2>1, <3>2, <3>3
    <2> QED
        BY <2>2, <2>3, <2>4
<1>9. Bound \in Int
    <2>1. PICK max \in Nat : max = MaxCached
        BY ModelCacheConstants
    <2>2. 2 * u * max \in Int /\ u * (u + 1) \in Int
        BY <1>2
    <2>3. 2 * u * max + u * (u + 1) \in Int
        BY <2>2
    <2> QED
        BY <1>1, <2>1, <2>3 DEF Bound
<1>10. PICK fr, ff : fr = free * room /\ ff = free * (free + 1)
    OBVIOUS
<1>11. fr \in Int /\ ff \in Int /\ fr >= 0 /\ ff >= 2 * free
    BY <1>4, <1>6, <1>8, <1>10
<1>12. 2 * size + 2 * fr + ff + 2 * p - 2 * q <= Bound
    <2>1. 2 * free * room = 2 * fr
        BY <1>4, <1>6, <1>10
    <2> QED
        BY <1>7, <1>10, <2>1
<1>13. 2 * size <= Bound
    BY <1>2, <1>4, <1>6, <1>9, <1>11, <1>12
<1> QED
    BY <1>1, <1>13

LEMMA BoundHolds ==
    ASSUME CacheInv
    PROVE  /\ MemoryBounded
           /\ Cardinality(resident) < Cardinality(Loads)
<1>1. PICK u, half, um, size : /\ u = Cardinality(Users) /\ half = (u * (u + 1)) \div 2
                               /\ um = u * MaxCached /\ size = Cardinality(resident)
    OBVIOUS
<1>2. u \in Nat /\ MaxCached \in Nat /\ size \in Nat
    BY <1>1, ThreadsCounted, ModelCacheConstants, ResidentCounted DEF CacheInv, CacheTyped
<1>3. um \in Nat /\ u * (u + 1) \in Nat
    BY <1>1, <1>2
<1>4. 2 * size <= 2 * um + u * (u + 1)
    <2>1. 2 * size <= 2 * u * MaxCached + u * (u + 1)
        BY <1>1, PromiseBounds DEF Bound
    <2>2. 2 * u * MaxCached = 2 * um
        BY <1>1, <1>2
    <2> QED
        BY <2>1, <2>2
<1>5. PICK x : x = u * (u + 1)
    OBVIOUS
<1>6. half = x \div 2 /\ x \in Nat /\ 2 * size <= 2 * um + x
    BY <1>1, <1>3, <1>4, <1>5
<1>7. size <= um + half
    BY <1>2, <1>3, <1>6
<1>8. MemoryBounded
    BY <1>1, <1>7 DEF MemoryBounded
<1>9. Cardinality(Loads) > um + half /\ Cardinality(Loads) \in Nat /\ half \in Int
    BY <1>1, <1>6, ModelCacheConstants, ResidentCounted
<1>10. size < Cardinality(Loads)
    BY <1>2, <1>3, <1>7, <1>9
<1> QED
    BY <1>1, <1>8, <1>10

\* There is a load that is a new one.
LEMMA LoadFresh ==
    ASSUME CacheInv, NEW fresh, fresh = CHOOSE load \in Loads : load \notin resident
    PROVE  fresh \in Loads
<1>1. resident \in SUBSET Loads
    BY DEF CacheInv, CacheTyped
<1>2. resident # Loads
    BY <1>1, BoundHolds, ResidentCounted
<1> QED
    BY <1>1, <1>2

-----------------------------------------------------------------------------
(***************************************************************************)
(* The steps                                                               *)
(***************************************************************************)
\* A step of one thread leaves the frames of the others as they were.
LEMMA FrameMoves ==
    ASSUME CacheInv, NEW t \in Users, NEW f \in Frame,
           using' = [using EXCEPT ![t] = f], FrameSound(f),
           f.load \cup Elements(f.evicted) \subseteq resident',
           f.evicted # <<>> => Len(cache') = MaxCached,
           \A s \in Users : s # t =>
              using[s].load \cup Elements(using[s].evicted) \subseteq resident',
           Len(cache) <= Len(cache'), Len(cache') <= MaxCached, Len(cache') \in Nat
    PROVE  /\ FramesInv' /\ using' \in [Users -> Frame]
           /\ using'[t] = f /\ \A s \in Users : s # t => using'[s] = using[s]
<1>1. /\ using \in [Users -> Frame] /\ Len(cache) \in Nat /\ MaxCached \in Nat
    BY ModelCacheConstants, LenProperties DEF CacheInv, CacheTyped
<1>2. /\ using' \in [Users -> Frame] /\ using'[t] = f
      /\ \A s \in Users : s # t => using'[s] = using[s]
    BY <1>1
<1>3. FramesInv'
    <2> SUFFICES ASSUME NEW s \in Users
                 PROVE  /\ FrameSound(using'[s])
                        /\ using'[s].load \cup Elements(using'[s].evicted) \subseteq resident'
                        /\ using'[s].evicted # <<>> => Len(cache') = MaxCached
        BY DEF FramesInv, FrameSound, Elements
    <2>1. CASE s = t
        BY <1>2, <2>1
    <2>2. CASE s # t
        <3>1. /\ FrameSound(using[s]) /\ using'[s] = using[s]
              /\ using[s].evicted # <<>> => Len(cache) = MaxCached
            BY <1>2, <2>2 DEF CacheInv, FramesInv
        <3> QED
            BY <1>1, <2>2, <3>1
    <2> QED
        BY <2>1, <2>2
<1> QED
    BY <1>2, <1>3

\* What the frames refer to is still there where nothing is given back.
LEMMA FramesKept ==
    ASSUME CacheInv, resident \subseteq resident'
    PROVE  \A s \in Users : using[s].load \cup Elements(using[s].evicted) \subseteq resident'
BY DEF CacheInv, FramesInv

LEMMA FrameOf ==
    ASSUME CacheInv, NEW t \in Users
    PROVE  /\ using[t] \in Frame /\ FrameSound(using[t])
           /\ using[t].load \cup Elements(using[t].evicted) \subseteq resident
           /\ using[t].evicted # <<>> => Len(cache) = MaxCached
BY DEF CacheInv, CacheTyped, FramesInv

LEMMA AsideIsFrame ==
    /\ Aside \in Frame /\ FrameSound(Aside) /\ Aside.stage = "none"
    /\ Aside.load = {} /\ Aside.evicted = <<>> /\ Elements(<<>>) = {}
<1>1. <<>> \in Seq(Loads)
    OBVIOUS
<1> QED
    BY <1>1 DEF Aside, Frame, FrameSound, Elements

\* Memory and the threads that count move together, the cache being no larger.
LEMMA PromiseKept ==
    ASSUME CacheInv, Cardinality(Evicting') = Cardinality(Evicting), Len(cache') = Len(cache),
           Cardinality(resident') \in Nat, Cardinality(Doubling') \in Nat,
           Cardinality(Bringing') \in Nat,
           Cardinality(resident') + Cardinality(Doubling') - Cardinality(Bringing') <=
             Cardinality(resident) + Cardinality(Doubling) - Cardinality(Bringing)
    PROVE  PromiseInv'
<1>1. PICK u, w, p, q, p2, q2, size, size2, c :
          /\ u = Cardinality(Users) /\ w = Cardinality(Evicting) /\ p = Cardinality(Doubling)
          /\ q = Cardinality(Bringing) /\ size = Cardinality(resident)
          /\ p2 = Cardinality(Doubling') /\ q2 = Cardinality(Bringing')
          /\ size2 = Cardinality(resident') /\ c = Len(cache)
    OBVIOUS
<1>2. /\ u \in Nat /\ w \in Nat /\ p \in Nat /\ q \in Nat /\ p2 \in Nat /\ q2 \in Nat
      /\ size \in Nat /\ size2 \in Nat /\ c \in Nat /\ MaxCached \in Nat
    BY <1>1, ThreadsCounted, ResidentCounted, ModelCacheConstants, LenProperties
       DEF CacheInv, CacheTyped
<1>3. PICK fr, ff : fr = 2 * (u - w) * (MaxCached - c) /\ ff = (u - w) * ((u - w) + 1)
    OBVIOUS
<1>4. fr \in Int /\ ff \in Int
    BY <1>2, <1>3
<1>5. 2 * size + fr + ff + 2 * p - 2 * q <= Bound
    BY <1>1, <1>3 DEF CacheInv, PromiseInv, Promised
<1>6. size2 + p2 - q2 <= size + p - q
    BY <1>1
<1>7. Bound \in Int
    <2>1. 2 * u * MaxCached + u * (u + 1) \in Int
        BY <1>2
    <2> QED
        BY <1>1, <2>1 DEF Bound
<1>8. 2 * size2 + fr + ff + 2 * p2 - 2 * q2 <= Bound
    BY <1>2, <1>4, <1>5, <1>6, <1>7
<1>9. Bound' = Bound
    BY DEF Bound
<1> QED
    BY <1>1, <1>3, <1>8, <1>9 DEF PromiseInv, Promised

LEMMA CountedNext ==
    /\ Evicting' \in SUBSET Users /\ Doubling' \in SUBSET Users /\ Bringing' \in SUBSET Users
    /\ Cardinality(Evicting') \in Nat /\ Cardinality(Doubling') \in Nat
    /\ Cardinality(Bringing') \in Nat
<1>1. Evicting' \in SUBSET Users /\ Doubling' \in SUBSET Users /\ Bringing' \in SUBSET Users
    BY DEF Evicting, Doubling, Bringing
<1> QED
    BY <1>1, UsersCounted

\* A step that brings its thread to where it counts neither way.
LEMMA CountsSame ==
    ASSUME CacheInv, NEW t \in Users, NEW f \in Frame,
           using' \in [Users -> Frame], using'[t] = f,
           \A s \in Users : s # t => using'[s] = using[s],
           KeysOf(cache') = KeysOf(cache),
           (f.evicted # <<>>) <=> (using[t].evicted # <<>>),
           t \in Doubling' <=> t \in Doubling,
           t \in Bringing' <=> t \in Bringing
    PROVE  Evicting' = Evicting /\ Doubling' = Doubling /\ Bringing' = Bringing
<1>1. ASSUME NEW s \in Users
      PROVE  s \in Evicting' <=> s \in Evicting
    BY DEF Evicting
<1>2. ASSUME NEW s \in Users
      PROVE  s \in Doubling' <=> s \in Doubling
    <2>1. CASE s = t
        BY <2>1
    <2>2. CASE s # t
        BY <2>2 DEF Doubling
    <2> QED
        BY <2>1, <2>2
<1>3. ASSUME NEW s \in Users
      PROVE  s \in Bringing' <=> s \in Bringing
    <2>1. CASE s = t
        BY <2>1
    <2>2. CASE s # t
        BY <2>2 DEF Bringing
    <2> QED
        BY <2>1, <2>2
<1> QED
    BY <1>1, <1>2, <1>3, ThreadsCounted, CountedNext

LEMMA CacheStarts ==
    CacheInit => CacheInv
<1> SUFFICES ASSUME CacheInit PROVE CacheInv
    OBVIOUS
<1>1. /\ cache = <<>> /\ Len(cache) = 0 /\ DOMAIN cache = {} /\ resident = {}
      /\ using = [t \in Users |-> Aside] /\ \A t \in Users : using[t] = Aside
    BY DEF CacheInit
<1>2. CacheTyped
    BY <1>1, AsideIsFrame, ModelCacheConstants DEF CacheTyped, Keyed
<1>3. FramesInv
    BY <1>1, AsideIsFrame DEF FramesInv
<1>4. HeldInv /\ IdleInv
    BY <1>1 DEF HeldInv, ValuesOf, IdleInv
<1>5. Evicting = {} /\ Doubling = {} /\ Bringing = {}
    BY <1>1, AsideIsFrame DEF Evicting, Doubling, Bringing
<1>6. Cardinality({}) = 0
    BY FS_EmptySet
<1>7. PICK u : u = Cardinality(Users)
    OBVIOUS
<1>8. u \in Nat /\ MaxCached \in Nat
    BY <1>7, ThreadsCounted, ModelCacheConstants
<1>9. PromiseInv
    <2>1. 2 * 0 + 2 * (u - 0) * (MaxCached - 0) + (u - 0) * ((u - 0) + 1) + 2 * 0 - 2 * 0
            <= 2 * u * MaxCached + u * (u + 1)
        BY <1>8
    <2> QED
        BY <1>1, <1>5, <1>6, <1>7, <2>1 DEF PromiseInv, Promised, Bound
<1> QED
    BY <1>2, <1>3, <1>4, <1>9 DEF CacheInv

\* The call ends.
LEMMA UseEnds ==
    ASSUME CacheInv, NEW t \in Users, EndUse(t)
    PROVE  CacheInv'
<1>1. /\ using[t].stage = "use" /\ using[t].evicted = <<>>
      /\ using' = [using EXCEPT ![t] = Aside] /\ cache' = cache /\ resident' = resident
    BY DEF EndUse
<1>2. Len(cache) \in Nat /\ Len(cache) <= MaxCached
    BY LenProperties DEF CacheInv, CacheTyped
<1>3. /\ FramesInv' /\ using' \in [Users -> Frame]
      /\ using'[t] = Aside /\ \A s \in Users : s # t => using'[s] = using[s]
    <2>1. /\ Len(cache) <= Len(cache') /\ Len(cache') <= MaxCached /\ Len(cache') \in Nat
          /\ resident \subseteq resident'
        BY <1>1, <1>2
    <2>2. \A s \in Users : s # t =>
             using[s].load \cup Elements(using[s].evicted) \subseteq resident'
        BY <2>1, FramesKept
    <2>3. PICK f : f = Aside
        OBVIOUS
    <2>4. /\ f \in Frame /\ FrameSound(f) /\ f.load \cup Elements(f.evicted) \subseteq resident'
          /\ f.evicted = <<>> /\ using' = [using EXCEPT ![t] = f]
        BY <1>1, <2>3, AsideIsFrame
    <2> QED
        BY <2>1, <2>2, <2>3, <2>4, FrameMoves
<1>4. CacheTyped' /\ HeldInv'
    BY <1>1, <1>3 DEF CacheInv, CacheTyped, HeldInv
<1>5. IdleInv'
    BY <1>3, AsideIsFrame DEF IdleInv, Idle
<1>6. /\ t \notin Doubling /\ t \notin Bringing /\ t \notin Doubling' /\ t \notin Bringing'
    BY <1>1, <1>3, AsideIsFrame DEF Doubling, Bringing
<1>7. Evicting' = Evicting /\ Doubling' = Doubling /\ Bringing' = Bringing
    BY <1>1, <1>3, <1>6, AsideIsFrame, CountsSame
<1>8. PromiseInv'
    BY <1>1, <1>7 DEF CacheInv, PromiseInv, Promised, Bound
<1> QED
    BY <1>3, <1>4, <1>5, <1>8 DEF CacheInv

\* The look-up that misses.
LEMMA LookUpMisses ==
    ASSUME CacheInv, NEW t \in Users, NEW key \in Models, using[t].stage = "none",
           Cached(key) = {},
           using' = [using EXCEPT ![t] = [Aside EXCEPT !.stage = "load", !.key = key]],
           UNCHANGED <<cache, resident>>
    PROVE  CacheInv'
<1>1. PICK f : f = [Aside EXCEPT !.stage = "load", !.key = key]
    OBVIOUS
<1>2. f.stage = "load" /\ f.key = key /\ f.load = {} /\ f.evicted = <<>>
    BY <1>1 DEF Aside
<1>3. f \in Frame
    <2>1. <<>> \in Seq(Loads)
        OBVIOUS
    <2> QED
        BY <1>1, <2>1 DEF Aside, Frame
<1>4. FrameSound(f) /\ f.load \cup Elements(f.evicted) = {}
    BY <1>2, AsideIsFrame DEF FrameSound
<1>5. Len(cache) \in Nat /\ Len(cache) <= MaxCached
    BY LenProperties DEF CacheInv, CacheTyped
<1>6. using' = [using EXCEPT ![t] = f]
    BY <1>1
<1>7. /\ FramesInv' /\ using' \in [Users -> Frame]
      /\ using'[t] = f /\ \A s \in Users : s # t => using'[s] = using[s]
    <2>1. /\ Len(cache) <= Len(cache') /\ Len(cache') <= MaxCached /\ Len(cache') \in Nat
          /\ resident \subseteq resident'
        BY <1>5
    <2>2. \A s \in Users : s # t =>
             using[s].load \cup Elements(using[s].evicted) \subseteq resident'
        BY <2>1, FramesKept
    <2>3. f.load \cup Elements(f.evicted) \subseteq resident'
        BY <1>4
    <2> QED
        BY <1>2, <1>3, <1>4, <1>6, <2>1, <2>2, <2>3, FrameMoves
<1>8. key \notin KeysOf(cache)
    BY DEF Cached, Elements, KeysOf
<1>9. CacheTyped' /\ HeldInv'
    BY <1>7 DEF CacheInv, CacheTyped, HeldInv
<1>10. IdleInv'
    <2>1. Idle(t)'
        BY <1>2, <1>7, <1>8 DEF Idle
    <2> QED
        BY <2>1 DEF IdleInv
<1>11. t \notin Doubling /\ t \notin Bringing /\ t \notin Doubling' /\ t \notin Bringing'
    BY <1>2, <1>7, <1>8 DEF Doubling, Bringing
<1>12. using[t].evicted = <<>>
    BY FrameOf DEF FrameSound
<1>13. Evicting' = Evicting /\ Doubling' = Doubling /\ Bringing' = Bringing
    BY <1>2, <1>3, <1>7, <1>11, <1>12, CountsSame
<1>14. PromiseInv'
    BY <1>13 DEF CacheInv, PromiseInv, Promised, Bound
<1> QED
    BY <1>7, <1>9, <1>10, <1>14 DEF CacheInv

\* A step that gives nothing back leaves what the frames refer to.
LEMMA FrameTurns ==
    ASSUME CacheInv, NEW t \in Users, NEW f \in Frame,
           using' = [using EXCEPT ![t] = f], FrameSound(f),
           f.load \cup Elements(f.evicted) \subseteq resident', resident \subseteq resident',
           f.evicted # <<>> => Len(cache') = MaxCached,
           Len(cache) <= Len(cache'), Len(cache') <= MaxCached, Len(cache') \in Nat
    PROVE  /\ FramesInv' /\ using' \in [Users -> Frame]
           /\ using'[t] = f /\ \A s \in Users : s # t => using'[s] = using[s]
<1>1. \A s \in Users : s # t =>
         using[s].load \cup Elements(using[s].evicted) \subseteq resident'
    BY FramesKept
<1> QED
    BY <1>1, FrameMoves

\* The look-up that hits.
LEMMA LookUpHits ==
    ASSUME CacheInv, NEW t \in Users, NEW key \in Models, using[t].stage = "none",
           NEW entry \in Cached(key),
           cache' = Append(Others(key), entry),
           using' = [using EXCEPT ![t] = [Aside EXCEPT !.stage = "use", !.load = {entry[2]}]],
           UNCHANGED resident
    PROVE  CacheInv'
<1>1. PICK q, x : q = Others(key) /\ x = entry[2]
    OBVIOUS
<1>2. /\ cache \in Seq(Models \X Loads) /\ Len(cache) \in Nat /\ Len(cache) <= MaxCached
      /\ ValuesOf(cache) \subseteq resident
    BY LenProperties DEF CacheInv, CacheTyped, HeldInv
<1>3. entry \in Models \X Loads /\ entry[1] = key /\ x \in ValuesOf(cache) /\ key \in KeysOf(cache)
    <2>1. PICK n \in DOMAIN cache : entry = cache[n] /\ entry[1] = key
        BY DEF Cached, Elements
    <2>2. cache[n] \in Models \X Loads
        BY <1>2, <2>1, ElementOfSeq, LenProperties
    <2> QED
        BY <1>1, <2>1, <2>2 DEF ValuesOf, KeysOf
<1>4. x \in Loads /\ entry = <<key, x>>
    BY <1>1, <1>3
<1>5. /\ q \in Seq(Models \X Loads) /\ Keyed(q)
      /\ KeysOf(q) = KeysOf(cache) \ {key}
      /\ ValuesOf(q) \subseteq ValuesOf(cache)
      /\ Len(q) = Len(cache) - 1
    BY <1>1, <1>3, OthersMeans DEF CacheInv
<1>6. key \notin KeysOf(q)
    BY <1>5
<1>7. cache' = Append(q, <<key, x>>)
    BY <1>1, <1>4
<1>8. /\ cache' \in Seq(Models \X Loads) /\ Keyed(cache')
      /\ KeysOf(cache') = KeysOf(q) \cup {key}
      /\ ValuesOf(cache') = ValuesOf(q) \cup {x}
      /\ Len(cache') = Len(q) + 1
    <2>1. x \in Loads /\ q \in Seq(Models \X Loads) /\ Keyed(q)
        BY <1>4, <1>5
    <2>2. Append(q, <<key, x>>) \in Seq(Models \X Loads)
        BY <1>6, <2>1, EntryAdded
    <2>3. KeysOf(Append(q, <<key, x>>)) = KeysOf(q) \cup {key}
        BY <1>6, <2>1, EntryAdded
    <2>4. Keyed(Append(q, <<key, x>>)) /\ ValuesOf(Append(q, <<key, x>>)) = ValuesOf(q) \cup {x}
        BY <1>6, <2>1, EntryAdded
    <2>5. Len(Append(q, <<key, x>>)) = Len(q) + 1
        BY <1>6, <2>1, EntryAdded
    <2> QED
        BY <1>7, <2>2, <2>3, <2>4, <2>5
<1>9. /\ KeysOf(cache') = KeysOf(cache) /\ ValuesOf(cache') \subseteq ValuesOf(cache)
      /\ x \in ValuesOf(cache') /\ Len(cache') = Len(cache)
    BY <1>2, <1>3, <1>5, <1>8
<1>10. PICK f : f = [Aside EXCEPT !.stage = "use", !.load = {x}]
    OBVIOUS
<1>11. f.stage = "use" /\ f.load = {x} /\ f.evicted = <<>>
    BY <1>10 DEF Aside
<1>12. f \in Frame
    <2>1. <<>> \in Seq(Loads)
        OBVIOUS
    <2> QED
        BY <1>4, <1>10, <2>1 DEF Aside, Frame
<1>13. FrameSound(f) /\ f.load \cup Elements(f.evicted) \subseteq resident'
    BY <1>2, <1>3, <1>4, <1>11, AsideIsFrame DEF FrameSound
<1>14. using' = [using EXCEPT ![t] = f]
    BY <1>1, <1>10
<1>15. /\ Len(cache) <= Len(cache') /\ Len(cache') <= MaxCached /\ Len(cache') \in Nat
       /\ resident \subseteq resident'
    BY <1>2, <1>9
<1>16. /\ FramesInv' /\ using' \in [Users -> Frame]
       /\ using'[t] = f /\ \A s \in Users : s # t => using'[s] = using[s]
    BY <1>11, <1>12, <1>13, <1>14, <1>15, FrameTurns
<1>17. CacheTyped' /\ HeldInv'
    BY <1>2, <1>8, <1>9, <1>15, <1>16 DEF CacheInv, CacheTyped, HeldInv
<1>18. IdleInv'
    <2>1. Idle(t)'
        BY <1>9, <1>11, <1>16 DEF Idle
    <2> QED
        BY <2>1 DEF IdleInv
<1>19. t \notin Doubling /\ t \notin Bringing /\ t \notin Doubling' /\ t \notin Bringing'
    BY <1>11, <1>16 DEF Doubling, Bringing
<1>20. using[t].evicted = <<>>
    BY FrameOf DEF FrameSound
<1>21. Evicting' = Evicting /\ Doubling' = Doubling /\ Bringing' = Bringing
    BY <1>9, <1>11, <1>12, <1>16, <1>19, <1>20, CountsSame
<1>22. PromiseInv'
    BY <1>9, <1>21 DEF CacheInv, PromiseInv, Promised, Bound
<1> QED
    BY <1>16, <1>17, <1>18, <1>22 DEF CacheInv

\* A thread that alone moves, with the cache as it was.
LEMMA IdleKept ==
    ASSUME CacheInv, NEW t \in Users, \A s \in Users : s # t => using'[s] = using[s],
           cache' = cache, Idle(t) => Idle(t)'
    PROVE  IdleInv'
<1> SUFFICES ASSUME cache # <<>> PROVE \E s \in Users : Idle(s)'
    BY DEF IdleInv
<1>1. PICK s \in Users : Idle(s)
    BY DEF CacheInv, IdleInv
<1>2. CASE s = t
    BY <1>1, <1>2
<1>3. CASE s # t
    BY <1>1, <1>3 DEF Idle
<1> QED
    BY <1>2, <1>3

\* The factory raised.
LEMMA LoadRaises ==
    ASSUME CacheInv, NEW t \in Users, using[t].stage = "load",
           using' = [using EXCEPT ![t] = Aside], UNCHANGED <<cache, resident>>
    PROVE  CacheInv'
<1>1. Len(cache) \in Nat /\ Len(cache) <= MaxCached
    BY LenProperties DEF CacheInv, CacheTyped
<1>2. PICK f : f = Aside
    OBVIOUS
<1>3. /\ f \in Frame /\ FrameSound(f) /\ f.load \cup Elements(f.evicted) \subseteq resident'
      /\ f.evicted = <<>> /\ f.stage = "none" /\ using' = [using EXCEPT ![t] = f]
    BY <1>2, AsideIsFrame
<1>4. /\ Len(cache) <= Len(cache') /\ Len(cache') <= MaxCached /\ Len(cache') \in Nat
      /\ resident \subseteq resident'
    BY <1>1
<1>5. /\ FramesInv' /\ using' \in [Users -> Frame]
      /\ using'[t] = f /\ \A s \in Users : s # t => using'[s] = using[s]
    BY <1>3, <1>4, FrameTurns
<1>6. CacheTyped' /\ HeldInv'
    BY <1>5 DEF CacheInv, CacheTyped, HeldInv
<1>7. IdleInv'
    <2>1. Idle(t)'
        BY <1>3, <1>5 DEF Idle
    <2> QED
        BY <2>1 DEF IdleInv
<1>8. using[t].evicted = <<>>
    BY FrameOf DEF FrameSound
<1>9. Evicting' = Evicting
    BY <1>3, <1>5, <1>8 DEF Evicting
<1>10. Bringing' = Bringing
    BY <1>3, <1>5 DEF Bringing
<1>11. Doubling' \subseteq Doubling
    BY <1>3, <1>5 DEF Doubling
<1>12. Cardinality(Doubling') <= Cardinality(Doubling)
    <2>1. IsFiniteSet(Doubling)
        BY ThreadsCounted, UsersCounted
    <2> QED
        BY <1>11, <2>1, FS_Subset
<1>13. PromiseInv'
    <2>1. Cardinality(resident) \in Nat
        BY ResidentCounted DEF CacheInv, CacheTyped
    <2> QED
        BY <1>9, <1>10, <1>12, <2>1, ThreadsCounted, CountedNext, PromiseKept
<1> QED
    BY <1>5, <1>6, <1>7, <1>13 DEF CacheInv

\* The model is loaded.
LEMMA LoadReturns ==
    ASSUME CacheInv, NEW t \in Users, using[t].stage = "load",
           NEW x, x = CHOOSE load \in Loads : load \notin resident,
           using' = [using EXCEPT ![t].stage = "insert", ![t].load = {x}],
           resident' = resident \cup {x}, UNCHANGED cache
    PROVE  CacheInv'
<1>1. Len(cache) \in Nat /\ Len(cache) <= MaxCached /\ resident \in SUBSET Loads
    BY LenProperties DEF CacheInv, CacheTyped
<1>2. x \in Loads
    BY LoadFresh
<1>3. PICK g, f : g = using[t] /\ f = [g EXCEPT !.stage = "insert", !.load = {x}]
    OBVIOUS
<1>4. g \in Frame /\ FrameSound(g) /\ g.stage = "load"
    BY <1>3, FrameOf
<1>5. g.evicted = <<>> /\ g.key \in Models
    BY <1>4 DEF FrameSound
<1>6. /\ f \in Frame /\ f.stage = "insert" /\ f.load = {x} /\ f.evicted = <<>> /\ f.key = g.key
    BY <1>2, <1>3, <1>4, <1>5 DEF Frame
<1>7. FrameSound(f) /\ f.load \cup Elements(f.evicted) \subseteq resident'
    BY <1>2, <1>5, <1>6, AsideIsFrame DEF FrameSound
<1>8. using' = [using EXCEPT ![t] = f]
    <2>1. using \in [Users -> Frame]
        BY DEF CacheInv, CacheTyped
    <2> QED
        BY <1>3, <2>1
<1>9. /\ Len(cache) <= Len(cache') /\ Len(cache') <= MaxCached /\ Len(cache') \in Nat
      /\ resident \subseteq resident'
    BY <1>1
<1>10. /\ FramesInv' /\ using' \in [Users -> Frame]
       /\ using'[t] = f /\ \A s \in Users : s # t => using'[s] = using[s]
    BY <1>6, <1>7, <1>8, <1>9, FrameTurns
<1>11. CacheTyped' /\ HeldInv'
    BY <1>1, <1>2, <1>10 DEF CacheInv, CacheTyped, HeldInv
<1>12. IdleInv'
    <2>1. Idle(t) => Idle(t)'
        BY <1>3, <1>6, <1>10 DEF Idle
    <2> QED
        BY <1>10, <2>1, IdleKept
<1>13. Evicting' = Evicting
    BY <1>3, <1>5, <1>6, <1>10 DEF Evicting
<1>14. IsFiniteSet(resident) /\ Cardinality(resident) \in Nat /\ Cardinality(resident') \in Nat
    BY <1>1, <1>11, ResidentCounted DEF CacheTyped
<1>15. Cardinality(resident') <= Cardinality(resident) + 1
    <2>1. Cardinality(resident \cup {x}) =
            IF x \in resident THEN Cardinality(resident) ELSE Cardinality(resident) + 1
        BY <1>14, FS_AddElement
    <2> QED
        BY <1>14, <2>1
<1>16. IsFiniteSet(Doubling) /\ IsFiniteSet(Bringing)
    BY ThreadsCounted, UsersCounted
<1>17. CASE g.key \in KeysOf(cache)
    <2>1. Bringing' = Bringing
        BY <1>3, <1>4, <1>6, <1>10, <1>17 DEF Bringing
    <2>2. Doubling' = Doubling \ {t} /\ t \in Doubling
        BY <1>3, <1>4, <1>6, <1>10, <1>17 DEF Doubling
    <2>3. Cardinality(Doubling') = Cardinality(Doubling) - 1
        BY <1>16, <2>2, FS_RemoveElement
    <2>4. PromiseInv'
        BY <1>13, <1>14, <1>15, <2>1, <2>3, ThreadsCounted, CountedNext, PromiseKept
    <2> QED
        BY <1>10, <1>11, <1>12, <2>4 DEF CacheInv
<1>18. CASE g.key \notin KeysOf(cache)
    <2>1. Bringing' = Bringing \cup {t} /\ t \notin Bringing
        BY <1>3, <1>4, <1>6, <1>10, <1>18 DEF Bringing
    <2>2. Doubling' = Doubling
        BY <1>3, <1>4, <1>6, <1>10, <1>18 DEF Doubling
    <2>3. Cardinality(Bringing') = Cardinality(Bringing) + 1
        BY <1>16, <2>1, FS_AddElement
    <2>4. PromiseInv'
        BY <1>13, <1>14, <1>15, <2>2, <2>3, ThreadsCounted, CountedNext, PromiseKept
    <2> QED
        BY <1>10, <1>11, <1>12, <2>4 DEF CacheInv
<1> QED
    BY <1>17, <1>18

\* The cache with a load written to it.
LEMMA AddedMeans ==
    ASSUME CacheInv, NEW key \in Models, NEW x \in Loads, NEW more, more = Added(key, x)
    PROVE  /\ more \in Seq(Models \X Loads) /\ Keyed(more) /\ Len(more) \in Nat \ {0}
           /\ KeysOf(more) = KeysOf(cache) \cup {key}
           /\ ValuesOf(more) \subseteq ValuesOf(cache) \cup {x}
           /\ x \in ValuesOf(more)
           /\ key \in KeysOf(cache) => Len(more) = Len(cache)
           /\ key \notin KeysOf(cache) => Len(more) = Len(cache) + 1
           /\ more[Len(more)][2] = x /\ more[Len(more)][1] = key
<1>1. PICK q : q = Others(key)
    OBVIOUS
<1>2. /\ q \in Seq(Models \X Loads) /\ Keyed(q)
      /\ KeysOf(q) = KeysOf(cache) \ {key}
      /\ ValuesOf(q) \subseteq ValuesOf(cache)
    BY <1>1, OthersMeans DEF CacheInv
<1>3. Len(q) = Len(cache) - (IF key \in KeysOf(cache) THEN 1 ELSE 0)
    BY <1>1, OthersMeans DEF CacheInv
<1>4. Len(cache) \in Nat /\ Len(q) \in Nat
    BY <1>2, LenProperties DEF CacheInv, CacheTyped
<1>5. key \notin KeysOf(q)
    BY <1>2
<1>6. more = Append(q, <<key, x>>)
    BY <1>1 DEF Added
<1>7. Append(q, <<key, x>>) \in Seq(Models \X Loads)
    BY <1>2, <1>5, EntryAdded
<1>8. KeysOf(Append(q, <<key, x>>)) = KeysOf(q) \cup {key}
    BY <1>2, <1>5, EntryAdded
<1>9. Keyed(Append(q, <<key, x>>)) /\ ValuesOf(Append(q, <<key, x>>)) = ValuesOf(q) \cup {x}
    BY <1>2, <1>5, EntryAdded
<1>10. Len(Append(q, <<key, x>>)) = Len(q) + 1
    BY <1>2, <1>5, EntryAdded
<1>11. Append(q, <<key, x>>)[Len(q) + 1] = <<key, x>>
    <2>1. PICK new : new = <<key, x>>
        OBVIOUS
    <2>2. new \in Models \X Loads
        BY <2>1
    <2>3. Append(q, new)[Len(q) + 1] = new
        BY <1>2, <2>2, AppendProperties
    <2> QED
        BY <2>1, <2>3
<1>12. /\ more \in Seq(Models \X Loads) /\ Keyed(more) /\ Len(more) = Len(q) + 1
       /\ KeysOf(more) = KeysOf(q) \cup {key} /\ ValuesOf(more) = ValuesOf(q) \cup {x}
       /\ more[Len(more)] = <<key, x>>
    BY <1>6, <1>7, <1>8, <1>9, <1>10, <1>11
<1>13. /\ key \in KeysOf(cache) => Len(more) = Len(cache)
       /\ key \notin KeysOf(cache) => Len(more) = Len(cache) + 1
    <2>1. PICK c, d, m : c = Len(cache) /\ d = Len(q) /\ m = Len(more)
        OBVIOUS
    <2>2. m = d + 1 /\ c \in Nat /\ d \in Nat /\ d = c - (IF key \in KeysOf(cache) THEN 1 ELSE 0)
        BY <1>3, <1>4, <1>12, <2>1
    <2> QED
        BY <2>1, <2>2
<1> QED
    BY <1>2, <1>4, <1>12, <1>13

\* The threads that wait for a key, or bring it.
Awaiting(key) == {s \in Users : using[s].stage = "load" /\ using[s].key = key}

BringingOf(key) == {s \in Users : using[s].stage = "insert" /\ using[s].key = key}

\* A key that comes to the cache counts at most each thread that is not releasing once:
\* those that wait for it now load it again, those that bring it bring nothing new.
LEMMA KeyComes ==
    ASSUME CacheInv, NEW t \in Users, NEW f \in Frame, f.stage = "use", using[t].stage = "insert",
           NEW key, using[t].key = key,
           using'[t] = f, \A s \in Users : s # t => using'[s] = using[s],
           KeysOf(cache') \subseteq KeysOf(cache) \cup {key}
    PROVE  Cardinality(Doubling') - Cardinality(Bringing') <=
             Cardinality(Doubling) - Cardinality(Bringing)
               + (Cardinality(Users) - Cardinality(Evicting))
<1>1. PICK a, b : a = Awaiting(key) /\ b = BringingOf(key)
    OBVIOUS
<1>2. a \in SUBSET Users /\ b \in SUBSET Users
    BY <1>1 DEF Awaiting, BringingOf
<1>3. Doubling' \subseteq Doubling \cup a
    BY <1>1 DEF Doubling, Awaiting
<1>4. Bringing \subseteq Bringing' \cup b
    <2> SUFFICES ASSUME NEW s \in Users, using[s].stage = "insert", using[s].key \notin KeysOf(cache),
                        using[s].key # key
                 PROVE  s \in Bringing'
        BY <1>1 DEF Bringing, BringingOf
    <2>1. s # t /\ using[s].key \notin KeysOf(cache')
        OBVIOUS
    <2> QED
        BY <2>1 DEF Bringing
<1>5. /\ IsFiniteSet(Doubling) /\ IsFiniteSet(a) /\ IsFiniteSet(b) /\ IsFiniteSet(Bringing')
      /\ Cardinality(a) \in Nat /\ Cardinality(b) \in Nat
    BY <1>2, ThreadsCounted, CountedNext, UsersCounted
<1>6. Cardinality(Doubling') <= Cardinality(Doubling) + Cardinality(a)
    <2>1. /\ IsFiniteSet(Doubling \cup a) /\ Cardinality(Doubling \cup a) =
               Cardinality(Doubling) + Cardinality(a) - Cardinality(Doubling \cap a)
        BY <1>5, FS_Union
    <2>2. Cardinality(Doubling') <= Cardinality(Doubling \cup a)
        BY <1>3, <2>1, FS_Subset
    <2>3. Doubling \cap a \in SUBSET Users
        BY <1>2
    <2>4. Cardinality(Doubling \cap a) \in Nat
        BY <2>3, UsersCounted
    <2> QED
        BY <1>5, <2>1, <2>2, <2>4, ThreadsCounted, CountedNext
<1>7. Cardinality(Bringing) <= Cardinality(Bringing') + Cardinality(b)
    <2>1. /\ IsFiniteSet(Bringing' \cup b) /\ Cardinality(Bringing' \cup b) =
               Cardinality(Bringing') + Cardinality(b) - Cardinality(Bringing' \cap b)
        BY <1>5, FS_Union
    <2>2. Cardinality(Bringing) <= Cardinality(Bringing' \cup b)
        BY <1>4, <2>1, FS_Subset
    <2>3. Bringing' \cap b \in SUBSET Users
        BY <1>2
    <2>4. Cardinality(Bringing' \cap b) \in Nat
        BY <2>3, UsersCounted
    <2> QED
        BY <1>5, <2>1, <2>2, <2>4, ThreadsCounted, CountedNext
<1>8. Cardinality(a) + Cardinality(b) <= Cardinality(Users) - Cardinality(Evicting)
    <2>1. a \cap b = {}
        BY <1>1 DEF Awaiting, BringingOf
    <2>2. Cardinality(a \cup b) = Cardinality(a) + Cardinality(b)
        BY <1>2, <2>1, ThreadsApart
    <2>3. (a \cup b) \cap Evicting = {}
        BY <1>1, BringersFree DEF Awaiting, BringingOf
    <2>4. a \cup b \in SUBSET Users /\ Evicting \in SUBSET Users
        BY <1>2, ThreadsCounted
    <2>5. Cardinality((a \cup b) \cup Evicting) = Cardinality(a \cup b) + Cardinality(Evicting)
        BY <2>3, <2>4, ThreadsApart
    <2>6. (a \cup b) \cup Evicting \in SUBSET Users
        BY <2>4
    <2>7. Cardinality((a \cup b) \cup Evicting) <= Cardinality(Users)
        BY <2>6, UsersCounted
    <2> QED
        BY <1>5, <2>2, <2>5, <2>7, ThreadsCounted
<1> QED
    BY <1>5, <1>6, <1>7, <1>8, ThreadsCounted, CountedNext

\* The key was cached already: the last write wins.
LEMMA InsertOver ==
    ASSUME CacheInv, NEW t \in Users, NEW f \in Frame, f.stage = "use", f.evicted = <<>>,
           using[t].stage = "insert", using[t].key \in KeysOf(cache),
           using'[t] = f, \A s \in Users : s # t => using'[s] = using[s],
           using' \in [Users -> Frame],
           KeysOf(cache') = KeysOf(cache), Len(cache') = Len(cache), resident' = resident
    PROVE  PromiseInv'
<1>1. using[t].evicted = <<>>
    BY FrameOf DEF FrameSound
<1>2. t \notin Doubling /\ t \notin Bringing /\ t \notin Doubling' /\ t \notin Bringing'
    BY DEF Doubling, Bringing
<1>3. Evicting' = Evicting /\ Doubling' = Doubling /\ Bringing' = Bringing
    BY <1>1, <1>2, CountsSame
<1> QED
    BY <1>3 DEF CacheInv, PromiseInv, Promised, Bound

\* There is room for the key.
LEMMA InsertGrows ==
    ASSUME CacheInv, NEW t \in Users, NEW f \in Frame, f.stage = "use", f.evicted = <<>>,
           using[t].stage = "insert",
           using'[t] = f, \A s \in Users : s # t => using'[s] = using[s],
           KeysOf(cache') \subseteq KeysOf(cache) \cup {using[t].key},
           Len(cache') = Len(cache) + 1, resident' = resident
    PROVE  PromiseInv'
<1>1. using[t].evicted = <<>>
    BY FrameOf DEF FrameSound
<1>2. Evicting' = Evicting
    BY <1>1 DEF Evicting
<1>3. PICK u, w, p, q, p2, q2, size, c :
          /\ u = Cardinality(Users) /\ w = Cardinality(Evicting) /\ p = Cardinality(Doubling)
          /\ q = Cardinality(Bringing) /\ size = Cardinality(resident)
          /\ p2 = Cardinality(Doubling') /\ q2 = Cardinality(Bringing')
          /\ c = Len(cache)
    OBVIOUS
<1>4. /\ u \in Nat /\ w \in Nat /\ p \in Nat /\ q \in Nat /\ p2 \in Nat /\ q2 \in Nat
      /\ size \in Nat /\ c \in Nat /\ MaxCached \in Nat
    BY <1>3, ThreadsCounted, CountedNext, ResidentCounted, ModelCacheConstants, LenProperties
       DEF CacheInv, CacheTyped
<1>5. p2 - q2 <= p - q + (u - w)
    BY <1>3, KeyComes
<1>6. PICK free, fr, ff :
          free = u - w /\ fr = 2 * free * (MaxCached - c) /\ ff = free * (free + 1)
    OBVIOUS
<1>7. fr \in Int /\ ff \in Int /\ free \in Int
    BY <1>4, <1>6
<1>8. 2 * free * (MaxCached - (c + 1)) = fr - 2 * free
    BY <1>4, <1>6, <1>7
<1>9. 2 * size + fr + ff + 2 * p - 2 * q <= Bound
    BY <1>3, <1>6 DEF CacheInv, PromiseInv, Promised
<1>10. Bound \in Int
    <2>1. 2 * u * MaxCached + u * (u + 1) \in Int
        BY <1>4
    <2> QED
        BY <1>3, <2>1 DEF Bound
<1>11. 2 * size + (fr - 2 * free) + ff + 2 * p2 - 2 * q2 <= Bound
    BY <1>4, <1>5, <1>6, <1>7, <1>9, <1>10
<1>12. 2 * size + 2 * free * (MaxCached - (c + 1)) + ff + 2 * p2 - 2 * q2 <= Bound
    BY <1>8, <1>11
<1>13. Bound' = Bound
    BY DEF Bound
<1> QED
    BY <1>2, <1>3, <1>6, <1>12, <1>13 DEF PromiseInv, Promised

\* There is none: the thread has the oldest model to release.
LEMMA InsertEvicts ==
    ASSUME CacheInv, NEW t \in Users, NEW f \in Frame, f.stage = "use", f.evicted # <<>>,
           using[t].stage = "insert",
           using'[t] = f, \A s \in Users : s # t => using'[s] = using[s],
           KeysOf(cache') \subseteq KeysOf(cache) \cup {using[t].key},
           Len(cache) = MaxCached, Len(cache') = MaxCached, resident' = resident
    PROVE  PromiseInv'
<1>1. using[t].evicted = <<>>
    BY FrameOf DEF FrameSound
<1>2. Evicting' = Evicting \cup {t} /\ t \notin Evicting
    BY <1>1 DEF Evicting
<1>3. PICK u, w, p, q, p2, q2, size :
          /\ u = Cardinality(Users) /\ w = Cardinality(Evicting) /\ p = Cardinality(Doubling)
          /\ q = Cardinality(Bringing) /\ size = Cardinality(resident)
          /\ p2 = Cardinality(Doubling') /\ q2 = Cardinality(Bringing')
    OBVIOUS
<1>4. /\ u \in Nat /\ w \in Nat /\ p \in Nat /\ q \in Nat /\ p2 \in Nat /\ q2 \in Nat
      /\ size \in Nat /\ MaxCached \in Nat
    BY <1>3, ThreadsCounted, CountedNext, ResidentCounted, ModelCacheConstants DEF CacheInv, CacheTyped
<1>5. p2 - q2 <= p - q + (u - w)
    BY <1>3, KeyComes
<1>6. Cardinality(Evicting') = w + 1
    <2>1. IsFiniteSet(Evicting)
        BY ThreadsCounted, UsersCounted
    <2> QED
        BY <1>2, <1>3, <2>1, FS_AddElement
<1>7. PICK free, ff : free = u - w /\ ff = free * (free + 1)
    OBVIOUS
<1>8. ff \in Int /\ free \in Int
    BY <1>4, <1>7
<1>9. (u - (w + 1)) = free - 1 /\ (free - 1) * ((free - 1) + 1) = ff - 2 * free
    BY <1>4, <1>7, <1>8
<1>10. \A x \in Int : 2 * x * (MaxCached - MaxCached) = 0
    BY <1>4
<1>11. 2 * size + ff + 2 * p - 2 * q <= Bound
    <2>1. 2 * size + 2 * free * (MaxCached - MaxCached) + ff + 2 * p - 2 * q <= Bound
        BY <1>3, <1>7 DEF CacheInv, PromiseInv, Promised
    <2> QED
        BY <1>4, <1>8, <1>10, <2>1
<1>12. Bound \in Int
    <2>1. 2 * u * MaxCached + u * (u + 1) \in Int
        BY <1>4
    <2> QED
        BY <1>3, <2>1 DEF Bound
<1>13. 2 * size + (ff - 2 * free) + 2 * p2 - 2 * q2 <= Bound
    BY <1>4, <1>5, <1>7, <1>8, <1>11, <1>12
<1>14. 2 * size + 2 * (free - 1) * (MaxCached - MaxCached)
         + (free - 1) * ((free - 1) + 1) + 2 * p2 - 2 * q2 <= Bound
    <2>1. 2 * (free - 1) * (MaxCached - MaxCached) = 0
        BY <1>8, <1>10
    <2> QED
        BY <1>4, <1>8, <1>9, <1>13, <2>1
<1>15. Bound' = Bound
    BY DEF Bound
<1> QED
    BY <1>3, <1>6, <1>9, <1>14, <1>15 DEF PromiseInv, Promised

\* What is released after an insertion: nothing, or the oldest model.
LEMMA Surplus ==
    ASSUME NEW more \in Seq(Models \X Loads), NEW n \in {0, 1}, n <= Len(more),
           NEW ev, ev = [i \in 1..n |-> more[i][2]]
    PROVE  /\ ev \in Seq(Loads) /\ Len(ev) = n
           /\ n = 0 => ev = <<>>
           /\ n = 1 => ev # <<>> /\ Elements(ev) = {more[1][2]}
<1>1. Len(more) \in Nat /\ \A i \in 1..Len(more) : more[i] \in Models \X Loads
    BY ElementOfSeq, LenProperties
<1>2. \A i \in 1..n : more[i][2] \in Loads
    BY <1>1
<1>3. ev \in [1..n -> Loads] /\ n \in Nat
    BY <1>2
<1>4. ev \in Seq(Loads)
    BY <1>3, SeqDef
<1>5. Len(ev) = n /\ DOMAIN ev = 1..n
    BY <1>3, <1>4, LenProperties
<1>6. <<>> \in Seq(Loads) /\ Len(<<>>) = 0
    BY EmptySeq
<1>7. n = 0 => ev = <<>>
    BY <1>4, <1>5, <1>6, SeqEqual
<1>8. n = 1 => ev # <<>> /\ Elements(ev) = {more[1][2]}
    <2> SUFFICES ASSUME n = 1
                 PROVE  ev # <<>> /\ Elements(ev) = {more[1][2]}
        OBVIOUS
    <2>1. DOMAIN ev = {1} /\ ev[1] = more[1][2]
        BY <1>5
    <2> QED
        BY <1>5, <1>6, <2>1 DEF Elements
<1> QED
    BY <1>4, <1>5, <1>7, <1>8

LEMMA InsertKeeps ==
    ASSUME CacheInv, NEW t \in Users, Insert(t)
    PROVE  CacheInv'
<1>1. PICK load \in using[t].load :
          LET added == Added(using[t].key, load)
              surplus == IF Len(added) > MaxCached THEN Len(added) - MaxCached ELSE 0
          IN  /\ cache' = SubSeq(added, surplus + 1, Len(added))
              /\ using' = [using EXCEPT ![t].stage = "use",
                              ![t].evicted = [n \in 1..surplus |-> added[n][2]]]
    BY DEF Insert
<1>2. PICK g, key, more : g = using[t] /\ key = g.key /\ more = Added(key, load)
    OBVIOUS
<1>3. PICK n : n = IF Len(more) > MaxCached THEN Len(more) - MaxCached ELSE 0
    OBVIOUS
<1>4. /\ g \in Frame /\ FrameSound(g) /\ g.stage = "insert" /\ resident' = resident
      /\ g.load \subseteq resident
    BY <1>2, FrameOf DEF Insert
<1>5. key \in Models /\ g.evicted = <<>> /\ load \in Loads /\ g.load = {load}
    BY <1>2, <1>4 DEF FrameSound
<1>6. /\ more \in Seq(Models \X Loads) /\ Keyed(more) /\ Len(more) \in Nat \ {0}
      /\ KeysOf(more) = KeysOf(cache) \cup {key}
      /\ ValuesOf(more) \subseteq ValuesOf(cache) \cup {load}
      /\ load \in ValuesOf(more)
      /\ key \in KeysOf(cache) => Len(more) = Len(cache)
      /\ key \notin KeysOf(cache) => Len(more) = Len(cache) + 1
      /\ more[Len(more)][2] = load /\ more[Len(more)][1] = key
    BY <1>2, <1>5, AddedMeans
<1>7. /\ Len(cache) \in Nat /\ Len(cache) <= MaxCached /\ MaxCached \in Nat /\ MaxCached >= 1
      /\ ValuesOf(cache) \subseteq resident /\ resident \in SUBSET Loads
      /\ using \in [Users -> Frame]
    BY ModelCacheConstants, LenProperties DEF CacheInv, CacheTyped, HeldInv
<1>8. n \in {0, 1} /\ n <= Len(more)
    <2>1. PICK m, c : m = Len(more) /\ c = Len(cache)
        OBVIOUS
    <2>2. m \in Nat \ {0} /\ (m = c \/ m = c + 1) /\ c <= MaxCached /\ c \in Nat
        BY <1>6, <1>7, <2>1
    <2> QED
        BY <1>3, <1>7, <2>1, <2>2
<1>9. PICK ev, f : ev = [i \in 1..n |-> more[i][2]] /\ f = [g EXCEPT !.stage = "use", !.evicted = ev]
    OBVIOUS
<1>10. /\ ev \in Seq(Loads) /\ Len(ev) = n
       /\ n = 0 => ev = <<>>
       /\ n = 1 => ev # <<>> /\ Elements(ev) = {more[1][2]}
    BY <1>6, <1>8, <1>9, Surplus
<1>11. /\ f \in Frame /\ f.stage = "use" /\ f.load = {load} /\ f.evicted = ev
    BY <1>4, <1>5, <1>9, <1>10 DEF Frame
<1>12. FrameSound(f)
    BY <1>5, <1>8, <1>10, <1>11 DEF FrameSound
<1>13. /\ cache' = SubSeq(more, n + 1, Len(more))
       /\ using' = [using EXCEPT ![t] = f]
    BY <1>1, <1>2, <1>3, <1>7, <1>9
<1>14. load \in resident /\ Elements(<<>>) = {}
    BY <1>4, <1>5, AsideIsFrame
<1>15. CASE n = 0
    <2>1. cache' = more
        BY <1>6, <1>13, <1>15, SubSeqFull
    <2>2. Len(more) <= MaxCached
        BY <1>3, <1>6, <1>7, <1>15
    <2>3. /\ Len(cache) <= Len(cache') /\ Len(cache') <= MaxCached /\ Len(cache') \in Nat
        BY <1>6, <1>7, <2>1, <2>2
    <2>4. /\ f.load \cup Elements(f.evicted) \subseteq resident' /\ resident \subseteq resident'
          /\ f.evicted = <<>>
        BY <1>4, <1>10, <1>11, <1>14, <1>15
    <2>5. /\ FramesInv' /\ using' \in [Users -> Frame]
          /\ using'[t] = f /\ \A s \in Users : s # t => using'[s] = using[s]
        BY <1>11, <1>12, <1>13, <2>3, <2>4, FrameTurns
    <2>6. CacheTyped' /\ HeldInv'
        BY <1>4, <1>6, <1>7, <1>14, <2>1, <2>2, <2>5 DEF CacheTyped, HeldInv
    <2>7. IdleInv'
        <3>1. Idle(t)'
            BY <1>6, <1>11, <2>1, <2>5 DEF Idle
        <3> QED
            BY <3>1 DEF IdleInv
    <2>8. PromiseInv'
        <3>1. CASE key \in KeysOf(cache)
            <4>1. KeysOf(cache') = KeysOf(cache) /\ Len(cache') = Len(cache)
                BY <1>6, <2>1, <3>1
            <4>2. using[t].stage = "insert" /\ using[t].key \in KeysOf(cache)
                BY <1>2, <1>4, <3>1
            <4> QED
                BY <1>4, <1>11, <2>4, <2>5, <4>1, <4>2, InsertOver
        <3>2. CASE key \notin KeysOf(cache)
            <4>1. /\ KeysOf(cache') \subseteq KeysOf(cache) \cup {using[t].key}
                  /\ Len(cache') = Len(cache) + 1 /\ using[t].stage = "insert"
                BY <1>2, <1>4, <1>6, <2>1, <3>2
            <4> QED
                BY <1>4, <1>11, <2>4, <2>5, <4>1, InsertGrows
        <3> QED
            BY <3>1, <3>2
    <2> QED
        BY <2>5, <2>6, <2>7, <2>8 DEF CacheInv
<1>16. CASE n = 1
    <2>1. Len(more) = MaxCached + 1 /\ Len(cache) = MaxCached /\ Len(more) >= 2
        BY <1>3, <1>6, <1>7, <1>16
    <2>2. PICK rest : rest = SubSeq(more, 2, Len(more))
        OBVIOUS
    <2>3. /\ rest \in Seq(Models \X Loads) /\ Keyed(rest) /\ Len(rest) = Len(more) - 1
          /\ KeysOf(rest) \subseteq KeysOf(more) /\ ValuesOf(rest) \subseteq ValuesOf(more)
          /\ load \in ValuesOf(rest) /\ more[1][2] \in ValuesOf(more)
        <3>1. more \in Seq(Models \X Loads) /\ Keyed(more) /\ Len(more) >= 2
            BY <1>6, <2>1
        <3>2. /\ rest \in Seq(Models \X Loads) /\ Keyed(rest) /\ Len(rest) = Len(more) - 1
            BY <2>2, <3>1, OldestDropped
        <3>3. KeysOf(rest) \subseteq KeysOf(more) /\ ValuesOf(rest) \subseteq ValuesOf(more)
            BY <2>2, <3>1, OldestDropped
        <3>4. more[Len(more)][2] \in ValuesOf(rest) /\ more[1][2] \in ValuesOf(more)
            BY <2>2, <3>1, OldestDropped
        <3> QED
            BY <1>6, <3>2, <3>3, <3>4
    <2>4. cache' = rest
        BY <1>13, <1>16, <2>2
    <2>5. Len(cache') = MaxCached
        BY <1>7, <2>1, <2>3, <2>4
    <2>6. /\ f.load \cup Elements(f.evicted) \subseteq resident' /\ resident \subseteq resident'
          /\ f.evicted # <<>>
        BY <1>4, <1>6, <1>7, <1>10, <1>11, <1>14, <1>16, <2>3
    <2>7. /\ Len(cache) <= Len(cache') /\ Len(cache') <= MaxCached /\ Len(cache') \in Nat
        BY <1>7, <2>5
    <2>8. /\ FramesInv' /\ using' \in [Users -> Frame]
          /\ using'[t] = f /\ \A s \in Users : s # t => using'[s] = using[s]
        BY <1>11, <1>12, <1>13, <2>5, <2>6, <2>7, FrameTurns
    <2>9. CacheTyped' /\ HeldInv'
        BY <1>4, <1>6, <1>7, <1>14, <2>3, <2>4, <2>7, <2>8 DEF CacheTyped, HeldInv
    <2>10. IdleInv'
        <3>1. Idle(t)'
            BY <1>11, <2>3, <2>4, <2>8 DEF Idle
        <3> QED
            BY <3>1 DEF IdleInv
    <2>11. PromiseInv'
        <3>1. /\ KeysOf(cache') \subseteq KeysOf(cache) \cup {using[t].key}
              /\ using[t].stage = "insert"
            BY <1>2, <1>4, <1>6, <2>3, <2>4
        <3> QED
            BY <1>4, <1>11, <2>1, <2>5, <2>6, <2>8, <3>1, InsertEvicts
    <2> QED
        BY <2>8, <2>9, <2>10, <2>11 DEF CacheInv
<1> QED
    BY <1>8, <1>15, <1>16

\* Threads that use a model which the cache does not refer to, and those about to add
\* theirs: what they have counts beside the cache.
Keeping ==
    {s \in Users : /\ using[s].stage \in {"insert", "use"}
                   /\ ~(using[s].stage = "use" /\ using[s].load \subseteq ValuesOf(cache))}

\* After a collection there is no more than the cache holds, what these threads have and
\* what waits to be released ...
LEMMA CollectionLeaves ==
    ASSUME CacheInv, NEW t \in Users, using[t].evicted # <<>>,
           resident' = resident \cap (Held \cup Referred'),
           using' \in [Users -> Frame],
           using'[t].load = using[t].load, using'[t].evicted = <<>>,
           \A s \in Users : s # t => using'[s] = using[s]
    PROVE  Cardinality(resident') <=
             MaxCached + Cardinality(Keeping) + (Cardinality(Evicting) - 1)
<1>1. PICK loadOf, evOf, held, A, B, C :
          /\ loadOf = [s \in Users |-> CHOOSE x : x \in using[s].load]
          /\ evOf = [s \in Users |-> using[s].evicted[1]]
          /\ held = [n \in 1..Len(cache) |-> cache[n][2]]
          /\ A = {held[n] : n \in 1..Len(cache)}
          /\ B = {loadOf[s] : s \in Keeping}
          /\ C = {evOf[s] : s \in Evicting \ {t}}
    OBVIOUS
<1>2. Keeping \in SUBSET Users /\ Evicting \in SUBSET Users /\ t \in Evicting
    BY DEF Keeping, Evicting
<1>3. Len(cache) \in Nat /\ DOMAIN cache = 1..Len(cache) /\ Len(cache) <= MaxCached
    BY LenProperties DEF CacheInv, CacheTyped
<1>4. IsFiniteSet(A) /\ Cardinality(A) <= Len(cache)
    <2>1. IsFiniteSet(1..Len(cache)) /\ Cardinality(1..Len(cache)) = Len(cache)
        BY <1>3, FS_Interval
    <2> QED
        <3>1. \A y \in A : \E n \in 1..Len(cache) : y = held[n]
            BY <1>1
        <3> QED
            BY <2>1, <3>1, ImageSmall
<1>5. IsFiniteSet(B) /\ Cardinality(B) <= Cardinality(Keeping) /\ Cardinality(Keeping) \in Nat
    <2>1. IsFiniteSet(Keeping) /\ Cardinality(Keeping) \in Nat
        BY <1>2, UsersCounted
    <2> QED
        <3>1. \A y \in B : \E s \in Keeping : y = loadOf[s]
            BY <1>1
        <3> QED
            BY <2>1, <3>1, ImageSmall
<1>6. IsFiniteSet(C) /\ Cardinality(C) <= Cardinality(Evicting) - 1
    <2>1. IsFiniteSet(Evicting) /\ Cardinality(Evicting) \in Nat
        BY <1>2, UsersCounted
    <2>2. IsFiniteSet(Evicting \ {t}) /\ Cardinality(Evicting \ {t}) = Cardinality(Evicting) - 1
        BY <1>2, <2>1, FS_RemoveElement
    <2> QED
        <3>1. \A y \in C : \E s \in Evicting \ {t} : y = evOf[s]
            BY <1>1
        <3> QED
            BY <2>2, <3>1, ImageSmall
<1>7. A = ValuesOf(cache) /\ Held = ValuesOf(cache)
    BY <1>1, <1>3 DEF ValuesOf, Held, Elements
<1>8. resident' \subseteq (A \cup B) \cup C
    <2> SUFFICES ASSUME NEW y \in resident', y \notin ValuesOf(cache)
                 PROVE  y \in B \cup C
        BY <1>7
    <2>1. y \in Referred'
        BY <1>7
    <2>2. PICK s \in Users : y \in using'[s].load \cup Elements(using'[s].evicted)
        BY <2>1 DEF Referred, Elements
    <2>3. using'[s].load = using[s].load
        BY <2>2
    <2>4. FrameSound(using[s])
        BY <2>2, FrameOf
    <2>5. CASE y \in using[s].load
        <3>1. /\ using[s].stage \in {"insert", "use"} /\ using[s].load = {y}
            BY <2>4, <2>5, FrameOf DEF FrameSound, Frame
        <3>2. s \in Keeping
            BY <2>2, <3>1 DEF Keeping
        <3>3. loadOf[s] = y
            BY <1>1, <2>2, <3>1
        <3> QED
            BY <1>1, <3>2, <3>3
    <2>6. CASE y \in Elements(using'[s].evicted)
        <3>1. s # t
            BY <2>6, AsideIsFrame
        <3>2. y \in Elements(using[s].evicted)
            BY <2>2, <2>6, <3>1
        <3>3. using[s].evicted # <<>> /\ using[s].evicted \in Seq(Loads)
            BY <2>2, <3>2, FrameOf, AsideIsFrame DEF Frame
        <3>4. Len(using[s].evicted) = 1
            BY <2>4, <3>3 DEF FrameSound
        <3>5. DOMAIN using[s].evicted = {1}
            BY <3>3, <3>4, LenProperties
        <3>6. y = using[s].evicted[1]
            BY <3>2, <3>5 DEF Elements
        <3>7. s \in Evicting \ {t} /\ evOf[s] = y
            BY <1>1, <2>2, <3>1, <3>3, <3>6 DEF Evicting
        <3> QED
            BY <1>1, <3>7
    <2> QED
        BY <2>2, <2>3, <2>5, <2>6
<1>9. /\ IsFiniteSet(A \cup B)
      /\ Cardinality(A \cup B) <= Cardinality(A) + Cardinality(B)
      /\ Cardinality(A) \in Nat /\ Cardinality(B) \in Nat /\ Cardinality(A \cup B) \in Nat
    <2>1. IsFiniteSet(A \cap B)
        BY <1>4, FS_Intersection
    <2>2. Cardinality(A \cap B) \in Nat
        BY <2>1, FS_CardinalityType
    <2>3. /\ IsFiniteSet(A \cup B)
          /\ Cardinality(A \cup B) = Cardinality(A) + Cardinality(B) - Cardinality(A \cap B)
        BY <1>4, <1>5, FS_Union
    <2>4. Cardinality(A) \in Nat /\ Cardinality(B) \in Nat /\ Cardinality(A \cup B) \in Nat
        BY <1>4, <1>5, <2>3, FS_CardinalityType
    <2> QED
        BY <2>2, <2>3, <2>4
<1>10. PICK D : D = A \cup B
    OBVIOUS
<1>11. /\ IsFiniteSet(D \cup C) /\ Cardinality(D \cup C) <= Cardinality(D) + Cardinality(C)
       /\ Cardinality(C) \in Nat /\ Cardinality(D \cup C) \in Nat
    <2>1. IsFiniteSet(D)
        BY <1>9, <1>10
    <2>2. IsFiniteSet(D \cap C)
        BY <2>1, FS_Intersection
    <2>3. Cardinality(D \cap C) \in Nat
        BY <2>2, FS_CardinalityType
    <2>4. /\ IsFiniteSet(D \cup C)
          /\ Cardinality(D \cup C) = Cardinality(D) + Cardinality(C) - Cardinality(D \cap C)
        BY <1>6, <2>1, FS_Union
    <2>5. Cardinality(C) \in Nat /\ Cardinality(D) \in Nat /\ Cardinality(D \cup C) \in Nat
        BY <1>6, <2>1, <2>4, FS_CardinalityType
    <2> QED
        BY <2>3, <2>4, <2>5
<1>12. IsFiniteSet(resident') /\ Cardinality(resident') <= Cardinality(D \cup C)
    <2>1. resident' \in SUBSET (D \cup C)
        BY <1>8, <1>10
    <2> QED
        BY <1>11, <2>1, FS_Subset
<1>13. Cardinality(resident') \in Nat /\ Cardinality(D) \in Nat
    BY <1>9, <1>10, <1>12, FS_CardinalityType
<1>14. Cardinality(Evicting) \in Nat /\ MaxCached \in Nat
    BY ThreadsCounted, ModelCacheConstants
<1> QED
    BY <1>3, <1>4, <1>5, <1>6, <1>9, <1>10, <1>11, <1>12, <1>13, <1>14

\* ... and with those that wait for what is cached, without those that bring what is
\* not, they are not all of the threads: one is idle.
LEMMA OneIsIdle ==
    ASSUME CacheInv, cache # <<>>
    PROVE  /\ Cardinality(Keeping) + Cardinality(Doubling) - Cardinality(Bringing) <=
                Cardinality(Users) - 1
           /\ Cardinality(Keeping) \in Nat
<1>1. PICK s \in Users : Idle(s)
    BY DEF CacheInv, IdleInv
<1>2. Keeping \in SUBSET Users /\ Doubling \in SUBSET Users /\ Bringing \in SUBSET Users
    BY DEF Keeping, Doubling, Bringing
<1>3. Keeping \cap Doubling = {}
    BY DEF Keeping, Doubling
<1>4. Bringing \subseteq Keeping
    BY DEF Keeping, Bringing
<1>5. s \notin (Keeping \cup Doubling) \ Bringing
    BY <1>1 DEF Idle, Keeping, Doubling, Bringing
<1>6. PICK Y : Y = Keeping \cup Doubling
    OBVIOUS
<1>7. Y \in SUBSET Users /\ Bringing \subseteq Y /\ s \notin Y \ Bringing
    BY <1>2, <1>4, <1>5, <1>6
<1>8. Cardinality(Y) = Cardinality(Keeping) + Cardinality(Doubling)
    BY <1>2, <1>3, <1>6, ThreadsApart
<1>9. Cardinality(Y \ Bringing) = Cardinality(Y) - Cardinality(Bringing)
    <2>1. IsFiniteSet(Y)
        BY <1>7, UsersCounted
    <2>2. Y \cap Bringing = Bringing
        BY <1>7
    <2> QED
        BY <2>1, <2>2, FS_Difference
<1>10. Cardinality(Y \ Bringing) <= Cardinality(Users) - 1
    <2>1. IsFiniteSet(Users) /\ Cardinality(Users) \in Nat
        BY ModelCacheConstants, FS_CardinalityType
    <2>2. IsFiniteSet(Users \ {s}) /\ Cardinality(Users \ {s}) = Cardinality(Users) - 1
        BY <1>1, <2>1, FS_RemoveElement
    <2>3. Y \ Bringing \in SUBSET (Users \ {s})
        BY <1>7
    <2> QED
        BY <2>2, <2>3, FS_Subset
<1>11. Cardinality(Keeping) \in Nat /\ Cardinality(Doubling) \in Nat /\ Cardinality(Bringing) \in Nat
       /\ Cardinality(Users) \in Nat
    BY <1>2, UsersCounted
<1> QED
    BY <1>8, <1>9, <1>10, <1>11

\* The arithmetic of a release: w threads still have one to release, of u.
LEMMA ReleaseCounts ==
    ASSUME NEW u \in Nat, NEW w \in Nat, NEW max \in Nat \ {0}, u >= w + 1
    PROVE  2 * max + 2 * (u - 1) + 2 * w + (u - w) * ((u - w) + 1) <= 2 * u * max + u * (u + 1)
<1>1. PICK n, m, a : n = u - 1 /\ m = max - 1 /\ a = u - w
    OBVIOUS
<1>2. n \in Nat /\ m \in Nat /\ a \in Nat /\ u = n + 1 /\ max = m + 1 /\ u = a + w
    BY <1>1
<1>3. PICK nm, aw, ww, aa : nm = n * m /\ aw = a * w /\ ww = w * w /\ aa = a * a
    OBVIOUS
<1>4. nm \in Nat /\ aw \in Nat /\ ww \in Nat /\ aa \in Nat
    BY <1>2, <1>3
<1>5. ww >= w
    <2>1. w = 0 \/ w >= 1
        OBVIOUS
    <2>2. CASE w = 0
        BY <1>3, <2>2
    <2>3. CASE w >= 1
        <3>1. w * (w - 1) >= 0
            BY <2>3
        <3>2. w * (w - 1) = ww - w
            BY <1>3
        <3> QED
            BY <1>4, <3>1, <3>2
    <2> QED
        BY <2>1, <2>2, <2>3
<1>6. 2 * u * max = 2 * nm + 2 * n + 2 * m + 2
    BY <1>2, <1>3
<1>7. u * (u + 1) = aa + 2 * aw + ww + a + w
    BY <1>2, <1>3
<1>8. a * (a + 1) = aa + a
    BY <1>2, <1>3
<1>9. 2 * max + 2 * (u - 1) + 2 * w + (aa + a) <=
        (2 * nm + 2 * n + 2 * m + 2) + (aa + 2 * aw + ww + a + w)
    BY <1>2, <1>4, <1>5
<1> QED
    BY <1>1, <1>6, <1>7, <1>8, <1>9

LEMMA ReleaseKeeps ==
    ASSUME CacheInv, NEW t \in Users, Release(t)
    PROVE  CacheInv'
<1>1. PICK g, f : g = using[t] /\ f = [g EXCEPT !.evicted = <<>>]
    OBVIOUS
<1>2. /\ g \in Frame /\ FrameSound(g) /\ g.evicted # <<>>
      /\ g.load \cup Elements(g.evicted) \subseteq resident /\ Len(cache) = MaxCached
    BY <1>1, FrameOf DEF Release
<1>3. Len(g.evicted) = 1 /\ g.stage = "use" /\ g.evicted \in Seq(Loads)
    BY <1>2 DEF FrameSound, Frame
<1>4. SubSeq(g.evicted, 1, Len(g.evicted) - 1) = <<>>
    BY <1>3, SubSeqEmpty
<1>5. using \in [Users -> Frame] /\ MaxCached \in Nat \ {0} /\ resident \in SUBSET Loads
    BY ModelCacheConstants DEF CacheInv, CacheTyped
<1>6. /\ using' = [using EXCEPT ![t] = f] /\ cache' = cache
      /\ resident' = resident \cap (Held \cup Referred')
    BY <1>1, <1>4, <1>5 DEF Release
<1>7. /\ f \in Frame /\ f.stage = "use" /\ f.load = g.load /\ f.evicted = <<>> /\ f.key = g.key
    <2>1. <<>> \in Seq(Loads)
        OBVIOUS
    <2> QED
        BY <1>1, <1>2, <1>3, <2>1 DEF Frame
<1>8. FrameSound(f)
    BY <1>2, <1>3, <1>7 DEF FrameSound
<1>9. /\ using' \in [Users -> Frame] /\ using'[t] = f
      /\ \A s \in Users : s # t => using'[s] = using[s]
    BY <1>5, <1>6, <1>7
<1>10. Held = ValuesOf(cache)
    BY DEF Held, Elements, ValuesOf
<1>11. ASSUME NEW s \in Users
       PROVE  using'[s].load \cup Elements(using'[s].evicted) \subseteq resident'
    <2>1. using'[s].load \cup Elements(using'[s].evicted) \subseteq Referred'
        BY DEF Referred, Elements
    <2>2. using'[s].load \cup Elements(using'[s].evicted) \subseteq resident
        <3>1. CASE s = t
            BY <1>2, <1>7, <1>9, <3>1, AsideIsFrame
        <3>2. CASE s # t
            BY <1>9, <3>2, FrameOf
        <3> QED
            BY <3>1, <3>2
    <2> QED
        BY <1>6, <2>1, <2>2
<1>12. FramesInv'
    <2>1. \A s \in Users : s # t =>
             using[s].load \cup Elements(using[s].evicted) \subseteq resident'
        BY <1>9, <1>11
    <2>2. f.load \cup Elements(f.evicted) \subseteq resident'
        BY <1>9, <1>11
    <2>3. Len(cache) <= Len(cache') /\ Len(cache') <= MaxCached /\ Len(cache') \in Nat
        BY <1>2, <1>5, <1>6
    <2> QED
        BY <1>6, <1>7, <1>8, <2>1, <2>2, <2>3, FrameMoves
<1>13. CacheTyped' /\ HeldInv'
    <2>1. ValuesOf(cache) \subseteq resident'
        BY <1>6, <1>10 DEF CacheInv, HeldInv
    <2> QED
        BY <1>5, <1>6, <1>9, <2>1 DEF CacheInv, CacheTyped, HeldInv
<1>14. IdleInv'
    <2>1. Idle(t) => Idle(t)'
        BY <1>1, <1>3, <1>6, <1>7, <1>9 DEF Idle
    <2> QED
        BY <1>6, <1>9, <2>1, IdleKept
<1>15. Doubling' = Doubling /\ Bringing' = Bringing
    <2>1. t \notin Doubling /\ t \notin Bringing /\ t \notin Doubling' /\ t \notin Bringing'
        BY <1>1, <1>3, <1>7, <1>9 DEF Doubling, Bringing
    <2>2. ASSUME NEW s \in Users, s # t
          PROVE  (s \in Doubling' <=> s \in Doubling) /\ (s \in Bringing' <=> s \in Bringing)
        BY <1>6, <1>9, <2>2 DEF Doubling, Bringing
    <2> QED
        BY <2>1, <2>2, ThreadsCounted, CountedNext
<1>16. Evicting' = Evicting \ {t} /\ t \in Evicting
    <2>1. t \in Evicting /\ t \notin Evicting'
        BY <1>1, <1>2, <1>7, <1>9 DEF Evicting
    <2>2. ASSUME NEW s \in Users, s # t
          PROVE  s \in Evicting' <=> s \in Evicting
        BY <1>9, <2>2 DEF Evicting
    <2> QED
        BY <2>1, <2>2, ThreadsCounted, CountedNext
<1>17. PICK u, w, p, q, size2, k :
          /\ u = Cardinality(Users) /\ w = Cardinality(Evicting) /\ p = Cardinality(Doubling)
          /\ q = Cardinality(Bringing) /\ size2 = Cardinality(resident')
          /\ k = Cardinality(Keeping)
    OBVIOUS
<1>18. cache # <<>>
    BY <1>2, <1>5, EmptySeq
<1>19. /\ u \in Nat /\ w \in Nat /\ p \in Nat /\ q \in Nat /\ w <= u
       /\ k + p - q <= u - 1 /\ k \in Nat
    BY <1>17, <1>18, ThreadsCounted, OneIsIdle
<1>20. Cardinality(Evicting') = w - 1 /\ w >= 1
    <2>1. IsFiniteSet(Evicting)
        BY ThreadsCounted, UsersCounted
    <2>2. Cardinality(Evicting') = w - 1
        BY <1>16, <1>17, <2>1, FS_RemoveElement
    <2> QED
        BY <1>19, <2>2, CountedNext
<1>21. size2 <= MaxCached + k + (w - 1)
    <2>1. using[t].evicted # <<>> /\ using'[t].load = using[t].load /\ using'[t].evicted = <<>>
        BY <1>1, <1>2, <1>7, <1>9
    <2> QED
        BY <1>6, <1>9, <1>17, <2>1, CollectionLeaves
<1>22. size2 \in Nat
    BY <1>13, <1>17, ResidentCounted DEF CacheTyped
<1>23. PICK v, free : v = w - 1 /\ free = u - v
    OBVIOUS
<1>24. v \in Nat /\ u >= v + 1 /\ free \in Nat
    BY <1>19, <1>20, <1>23
<1>25. 2 * MaxCached + 2 * (u - 1) + 2 * v + free * (free + 1) <= 2 * u * MaxCached + u * (u + 1)
    BY <1>5, <1>19, <1>23, <1>24, ReleaseCounts
<1>26. PICK ff : ff = free * (free + 1)
    OBVIOUS
<1>27. ff \in Int
    BY <1>24, <1>26
<1>28. Bound \in Int /\ 2 * MaxCached + 2 * (u - 1) + 2 * v + ff <= Bound
    <2>1. 2 * u * MaxCached + u * (u + 1) \in Int
        BY <1>5, <1>19
    <2> QED
        BY <1>17, <1>25, <1>26, <2>1 DEF Bound
<1>29. 2 * size2 + ff + 2 * p - 2 * q <= Bound
    BY <1>5, <1>19, <1>21, <1>22, <1>23, <1>24, <1>27, <1>28
<1>30. 2 * free * (MaxCached - MaxCached) = 0
    BY <1>5, <1>24
<1>31. 2 * size2 + 2 * free * (MaxCached - MaxCached) + ff + 2 * p - 2 * q <= Bound
    BY <1>19, <1>22, <1>24, <1>27, <1>28, <1>29, <1>30
<1>32. Bound' = Bound /\ Len(cache') = MaxCached
    BY <1>2, <1>6 DEF Bound
<1>33. PromiseInv'
    BY <1>15, <1>17, <1>20, <1>23, <1>26, <1>31, <1>32 DEF PromiseInv, Promised
<1> QED
    BY <1>12, <1>13, <1>14, <1>33 DEF CacheInv

LEMMA CacheStep ==
    CacheInv /\ [CacheNext]_cacheVars => CacheInv'
<1> SUFFICES ASSUME CacheInv, [CacheNext]_cacheVars PROVE CacheInv'
    OBVIOUS
<1>1. CASE UNCHANGED cacheVars
    BY <1>1 DEF cacheVars, CacheInv, CacheTyped, FramesInv, HeldInv, IdleInv, Idle, PromiseInv,
       Promised, Bound, Evicting, Doubling, Bringing
<1>2. ASSUME NEW t \in Users, NEW key \in Models, LookUpModel(t, key)
      PROVE  CacheInv'
    <2>1. using[t].stage = "none" /\ resident' = resident
        BY <1>2 DEF LookUpModel
    <2>2. ASSUME NEW entry \in Cached(key),
                 cache' = Append(Others(key), entry),
                 using' = [using EXCEPT ![t] = [Aside EXCEPT !.stage = "use",
                                                             !.load = {entry[2]}]]
          PROVE  CacheInv'
        BY <2>1, <2>2, LookUpHits
    <2>3. CASE /\ Cached(key) = {}
               /\ using' = [using EXCEPT ![t] = [Aside EXCEPT !.stage = "load", !.key = key]]
               /\ UNCHANGED cache
        BY <2>1, <2>3, LookUpMisses
    <2> QED
        BY <1>2, <2>2, <2>3 DEF LookUpModel
<1>3. ASSUME NEW t \in Users, Load(t)
      PROVE  CacheInv'
    <2>1. using[t].stage = "load" /\ cache' = cache
        BY <1>3 DEF Load
    <2>2. PICK x : x = CHOOSE load \in Loads : load \notin resident
        OBVIOUS
    <2>3. CASE /\ using' = [using EXCEPT ![t].stage = "insert", ![t].load = {x}]
               /\ resident' = resident \cup {x}
        BY <2>1, <2>2, <2>3, LoadReturns
    <2>4. CASE using' = [using EXCEPT ![t] = Aside] /\ UNCHANGED resident
        BY <2>1, <2>4, LoadRaises
    <2> QED
        BY <1>3, <2>2, <2>3, <2>4 DEF Load
<1> QED
    BY <1>1, <1>2, <1>3, InsertKeeps, ReleaseKeeps, UseEnds DEF CacheNext

LEMMA CacheInvSafe ==
    CacheInv => CacheSafe
<1> SUFFICES ASSUME CacheInv PROVE CacheSafe
    OBVIOUS
<1>1. Held = ValuesOf(cache)
    BY DEF Held, Elements, ValuesOf
<1>2. Referred \subseteq resident
    BY DEF CacheInv, FramesInv, Referred
<1>3. \A t \in Users : using[t].stage \in {"none", "load", "insert", "use"}
    BY FrameOf DEF Frame
<1>4. CacheTypeOK
    BY <1>1, <1>2, <1>3 DEF CacheInv, CacheTyped, HeldInv, Keyed, CacheTypeOK
<1> QED
    BY <1>4, BoundHolds DEF CacheSafe

\* No model is given back while the cache or a call has it, and the memory does not
\* grow with every model ever loaded, however look-ups, loads, evictions, releases and
\* collections of the handler threads interleave (_cached of the huggingface adapter).
THEOREM CacheStaysSafe ==
    CacheSpec => []CacheSafe
<1>1. CacheInit => CacheInv
    BY CacheStarts
<1>2. CacheInv /\ [CacheNext]_cacheVars => CacheInv'
    BY CacheStep
<1>3. CacheInv => CacheSafe
    BY CacheInvSafe
<1> QED
    BY <1>1, <1>2, <1>3, PTL DEF CacheSpec

-----------------------------------------------------------------------------
(***************************************************************************)
(* ZenohServer, for any number of queries and workers and any size of the  *)
(* channel.                                                                *)
(***************************************************************************)
\* The queries by where they are.
Placed(place) == {q \in All : stage[q] = place}

\* A queue that holds each member of a set once.
Queue(seq, members) ==
    /\ seq \in Seq(All)
    /\ \A m, n \in DOMAIN seq : seq[m] = seq[n] => m = n
    /\ members = {seq[n] : n \in DOMAIN seq}

ZenohTyped ==
    /\ stage \in [All -> Stages]
    /\ replies \in [All -> 0..2]
    /\ Len(channel) <= QueueSize
    /\ drainer \in {"waiting", "holding", "over"}
    /\ binding \in {"open", "stopping", "undeclared", "closed"}

\* A query is in one queue, once, or in none.
QueuesInv ==
    /\ Queue(wire, Placed("wire"))
    /\ Queue(channel, Placed("channel"))
    /\ Queue(pool, Placed("pool"))

DrainedInv ==
    IF drainer = "holding" THEN \E q \in All : Placed("drained") = {q} ELSE Placed("drained") = {}

\* A health query does not leave the session's thread.
HealthInv == stage[Health] \in {"unsent", "wire", "dropped", "lost"}

Unanswered == {"unsent", "wire", "channel", "drained", "pool", "running", "executed"}

RepliesInv ==
    \A q \in All :
        /\ stage[q] \in Unanswered => replies[q] = 0
        /\ stage[q] = "raised" => replies[q] <= 1
        /\ (stage[q] \in {"replied", "dropped", "lost"} /\ replies[q] = 0) => binding # "open"

ZenohInv == ZenohTyped /\ QueuesInv /\ DrainedInv /\ HealthInv /\ RepliesInv

-----------------------------------------------------------------------------
LEMMA QueueAppend ==
    ASSUME NEW seq, NEW members, Queue(seq, members), NEW q \in All, q \notin members
    PROVE  /\ Queue(Append(seq, q), members \cup {q})
           /\ Len(Append(seq, q)) = Len(seq) + 1
<1>1. /\ seq \in Seq(All) /\ DOMAIN seq = 1..Len(seq) /\ Len(seq) \in Nat
      /\ members = {seq[n] : n \in DOMAIN seq}
      /\ \A m, n \in DOMAIN seq : seq[m] = seq[n] => m = n
    BY LenProperties DEF Queue
<1>2. PICK next : next = Append(seq, q)
    OBVIOUS
<1>3. /\ next \in Seq(All) /\ Len(next) = Len(seq) + 1
      /\ \A n \in 1..Len(seq) : next[n] = seq[n]
      /\ next[Len(seq) + 1] = q
    BY <1>1, <1>2, AppendProperties
<1>4. DOMAIN next = 1..Len(seq) + 1
    BY <1>3, LenProperties
<1>5. \A n \in DOMAIN next : n \in DOMAIN seq \/ n = Len(seq) + 1
    BY <1>1, <1>4
<1>6. members \cup {q} = {next[n] : n \in DOMAIN next}
    BY <1>1, <1>3, <1>4, <1>5
<1>7. \A m, n \in DOMAIN next : next[m] = next[n] => m = n
    BY <1>1, <1>3, <1>5
<1> QED
    BY <1>2, <1>3, <1>6, <1>7 DEF Queue

LEMMA QueueTail ==
    ASSUME NEW seq, NEW members, Queue(seq, members), seq # <<>>
    PROVE  /\ Head(seq) \in All /\ Head(seq) \in members
           /\ Queue(Tail(seq), members \ {Head(seq)})
           /\ Len(Tail(seq)) = Len(seq) - 1
<1>1. /\ seq \in Seq(All) /\ DOMAIN seq = 1..Len(seq) /\ Len(seq) \in Nat
      /\ members = {seq[n] : n \in DOMAIN seq}
      /\ \A m, n \in DOMAIN seq : seq[m] = seq[n] => m = n
    BY LenProperties DEF Queue
<1>2. Len(seq) > 0 /\ Head(seq) = seq[1]
    BY <1>1, EmptySeq
<1>3. PICK rest, first : rest = Tail(seq) /\ first = Head(seq)
    OBVIOUS
<1>4. /\ first \in All /\ rest \in Seq(All) /\ Len(rest) = Len(seq) - 1
      /\ \A n \in 1..Len(rest) : rest[n] = seq[n + 1]
    BY <1>1, <1>3, HeadTailProperties
<1>5. DOMAIN rest = 1..Len(seq) - 1
    BY <1>4, LenProperties
<1>6. \A n \in DOMAIN rest : n + 1 \in DOMAIN seq /\ n + 1 # 1 /\ rest[n] = seq[n + 1]
    BY <1>1, <1>4, <1>5
<1>7. \A m \in DOMAIN seq : m = 1 \/ (m - 1 \in DOMAIN rest /\ rest[m - 1] = seq[m])
    <2> SUFFICES ASSUME NEW m \in DOMAIN seq, m # 1
                 PROVE  m - 1 \in DOMAIN rest /\ rest[m - 1] = seq[m]
        OBVIOUS
    <2>1. m - 1 \in 1..Len(seq) - 1 /\ (m - 1) + 1 = m
        BY <1>1
    <2> QED
        BY <1>4, <1>5, <2>1
<1>8. 1 \in DOMAIN seq /\ first = seq[1]
    BY <1>1, <1>2, <1>3
<1>9. members \ {first} = {rest[n] : n \in DOMAIN rest}
    <2>1. ASSUME NEW x \in members, x # first
          PROVE  \E n \in DOMAIN rest : x = rest[n]
        BY <1>1, <1>7, <1>8, <2>1
    <2>2. ASSUME NEW n \in DOMAIN rest
          PROVE  rest[n] \in members /\ rest[n] # first
        BY <1>1, <1>6, <1>8
    <2> QED
        BY <2>1, <2>2
<1>10. \A m, n \in DOMAIN rest : rest[m] = rest[n] => m = n
    <2> SUFFICES ASSUME NEW m \in DOMAIN rest, NEW n \in DOMAIN rest, rest[m] = rest[n]
                 PROVE  m = n
        OBVIOUS
    <2>1. m + 1 = n + 1
        BY <1>1, <1>6
    <2> QED
        BY <1>1, <1>5, <2>1
<1>11. Queue(rest, members \ {first})
    BY <1>4, <1>9, <1>10 DEF Queue
<1> QED
    BY <1>3, <1>4, <1>8, <1>1, <1>11

LEMMA QueueEmpty == Queue(<<>>, {}) /\ Len(<<>>) = 0
<1>1. <<>> \in Seq(All) /\ Len(<<>>) = 0
    BY EmptySeq
<1>2. DOMAIN <<>> = {}
    OBVIOUS
<1> QED
    BY <1>1, <1>2 DEF Queue

\* What a query that moves leaves and joins.
LEMMA QueryMoves ==
    ASSUME ZenohTyped, HealthInv, NEW q \in All, NEW to \in Stages, Move(q, to),
           q \in Queries \/ to \in {"unsent", "wire", "dropped", "lost"}
    PROVE  /\ stage' \in [All -> Stages]
           /\ \A r \in All : stage'[r] = IF r = q THEN to ELSE stage[r]
           /\ HealthInv'
           /\ \A place : place # to => Placed(place)' = Placed(place) \ {q}
           /\ Placed(to)' = Placed(to) \cup {q}
           /\ \A place : place # stage[q] => q \notin Placed(place)
           /\ \A place : place # to /\ place # stage[q] => Placed(place)' = Placed(place)
<1>1. stage' = [stage EXCEPT ![q] = to] /\ stage \in [All -> Stages]
    BY DEF Move, ZenohTyped
<1>2. stage' \in [All -> Stages] /\ \A r \in All : stage'[r] = IF r = q THEN to ELSE stage[r]
    BY <1>1
<1>3. HealthInv'
    <2>1. Health \in All /\ Health \notin Queries
        BY ZenohConstants DEF Health, All, Queries, ZenohConstants
    <2> QED
        BY <1>2, <2>1 DEF HealthInv
<1>4. \A place : place # to => Placed(place)' = Placed(place) \ {q}
    BY <1>2 DEF Placed
<1>5. Placed(to)' = Placed(to) \cup {q}
    BY <1>2 DEF Placed
<1>6. \A place : place # stage[q] => q \notin Placed(place)
    BY DEF Placed
<1>7. ASSUME NEW place, place # to, place # stage[q]
      PROVE  Placed(place)' = Placed(place)
    <2>1. Placed(place)' = Placed(place) \ {q} /\ q \notin Placed(place)
        BY <1>4, <1>6, <1>7
    <2> QED
        BY <2>1
<1> QED
    BY <1>2, <1>3, <1>4, <1>5, <1>6, <1>7

\* Only a health query is no invocation.
LEMMA PlacedQuery ==
    ASSUME HealthInv, NEW q \in All, stage[q] \notin {"unsent", "wire", "dropped", "lost"}
    PROVE  q \in Queries
BY DEF HealthInv, All

\* What may change of the replies.
LEMMA RepliesKept ==
    ASSUME ZenohTyped, RepliesInv, NEW q \in All, NEW to,
           \A r \in All : stage'[r] = IF r = q THEN to ELSE stage[r],
           replies' \in [All -> 0..2], \A r \in All : r # q => replies'[r] = replies[r],
           binding' = binding,
           to \in Unanswered => replies'[q] = 0,
           to = "raised" => replies'[q] <= 1,
           (to \in {"replied", "dropped", "lost"} /\ replies'[q] = 0) => binding # "open"
    PROVE  RepliesInv'
BY DEF RepliesInv

\* A queue that loses and gains nobody stays as it is.
LEMMA QueueStays ==
    ASSUME NEW seq, NEW members, Queue(seq, members), NEW q, q \notin members
    PROVE  Queue(seq, members \ {q})
<1>1. members \ {q} = members
    OBVIOUS
<1> QED
    BY <1>1

LEMMA OneReplyMore ==
    ASSUME ZenohTyped, NEW q \in All, Reply(q), replies[q] <= 1
    PROVE  /\ replies' \in [All -> 0..2]
           /\ replies'[q] = replies[q] + 1 /\ replies'[q] # 0
           /\ \A r \in All : r # q => replies'[r] = replies[r]
<1>1. replies \in [All -> 0..2] /\ replies' = [replies EXCEPT ![q] = @ + 1]
    BY DEF ZenohTyped, Reply
<1>2. replies[q] \in 0..1
    BY <1>1
<1> QED
    BY <1>1, <1>2

LEMMA ZenohStarts == ZenohInit => ZenohInv
<1> SUFFICES ASSUME ZenohInit PROVE ZenohInv
    OBVIOUS
<1>1. \A place : place # "unsent" => Placed(place) = {}
    BY DEF ZenohInit, Placed
<1>2. ZenohTyped
    BY QueueEmpty, ZenohConstants DEF ZenohInit, ZenohTyped, Stages, ZenohConstants
<1>3. QueuesInv
    BY <1>1, QueueEmpty DEF ZenohInit, QueuesInv
<1>4. DrainedInv
    BY <1>1 DEF ZenohInit, DrainedInv
<1>5. HealthInv
    BY DEF ZenohInit, HealthInv, All
<1>6. RepliesInv
    BY DEF ZenohInit, RepliesInv
<1> QED
    BY <1>2, <1>3, <1>4, <1>5, <1>6 DEF ZenohInv

LEMMA SendKeeps ==
    ASSUME ZenohInv, NEW q \in All, Send(q)
    PROVE  ZenohInv'
<1>1. /\ ZenohTyped /\ QueuesInv /\ DrainedInv /\ HealthInv /\ RepliesInv
      /\ stage[q] = "unsent" /\ wire' = Append(wire, q) /\ Move(q, "wire")
      /\ UNCHANGED <<channel, drainer, pool, replies, binding>>
    BY DEF ZenohInv, Send
<1>2. /\ stage' \in [All -> Stages] /\ HealthInv'
      /\ \A r \in All : stage'[r] = IF r = q THEN "wire" ELSE stage[r]
      /\ Placed("wire")' = Placed("wire") \cup {q}
      /\ Placed("channel")' = Placed("channel") \ {q}
      /\ Placed("pool")' = Placed("pool") \ {q}
      /\ Placed("drained")' = Placed("drained") \ {q}
      /\ q \notin Placed("wire") /\ q \notin Placed("channel") /\ q \notin Placed("pool")
      /\ q \notin Placed("drained")
    BY <1>1, QueryMoves DEF Stages
<1>3. QueuesInv'
    BY <1>1, <1>2, QueueAppend, QueueStays DEF QueuesInv
<1>4. DrainedInv'
    BY <1>1, <1>2 DEF DrainedInv
<1>5. ZenohTyped'
    BY <1>1, <1>2 DEF ZenohTyped
<1>6. replies[q] = 0
    BY <1>1 DEF RepliesInv, Unanswered
<1>7. RepliesInv'
    BY <1>1, <1>2, <1>6, RepliesKept DEF ZenohTyped
<1> QED
    BY <1>2, <1>3, <1>4, <1>5, <1>7 DEF ZenohInv

\* The first query of the wire goes somewhere else.
LEMMA WireMoves ==
    ASSUME ZenohInv, wire # <<>>, wire' = Tail(wire), NEW to \in Stages, to # "wire",
           Move(Head(wire), to), Head(wire) \in Queries \/ to \in {"dropped", "lost"}
    PROVE  /\ Head(wire) \in All /\ stage[Head(wire)] = "wire"
           /\ replies[Head(wire)] = 0
           /\ stage' \in [All -> Stages] /\ HealthInv'
           /\ \A r \in All : stage'[r] = IF r = Head(wire) THEN to ELSE stage[r]
           /\ Queue(wire', Placed("wire")')
           /\ Placed(to)' = Placed(to) \cup {Head(wire)}
           /\ \A place : place # "wire" => Head(wire) \notin Placed(place)
           /\ \A place : place # "wire" /\ place # to => Placed(place)' = Placed(place)
<1>1. PICK q : q = Head(wire)
    OBVIOUS
<1>2. q \in All /\ q \in Placed("wire") /\ Queue(Tail(wire), Placed("wire") \ {q})
    BY <1>1, QueueTail DEF ZenohInv, QueuesInv
<1>3. stage[q] = "wire" /\ replies[q] = 0
    BY <1>2 DEF Placed, ZenohInv, RepliesInv, Unanswered
<1>4. /\ stage' \in [All -> Stages]
      /\ \A r \in All : stage'[r] = IF r = q THEN to ELSE stage[r]
      /\ HealthInv'
      /\ \A place : place # to => Placed(place)' = Placed(place) \ {q}
      /\ Placed(to)' = Placed(to) \cup {q}
      /\ \A place : place # stage[q] => q \notin Placed(place)
      /\ \A place : place # to /\ place # stage[q] => Placed(place)' = Placed(place)
    BY <1>1, <1>2, QueryMoves DEF ZenohInv
<1>5. Queue(wire', Placed("wire")')
    BY <1>1, <1>2, <1>4
<1>6. \A place : place # "wire" => q \notin Placed(place)
    BY <1>3, <1>4
<1>7. \A place : place # "wire" /\ place # to => Placed(place)' = Placed(place)
    BY <1>3, <1>4
<1> QED
    BY <1>1, <1>2, <1>3, <1>4, <1>5, <1>6, <1>7

LEMMA UndeliveredKeeps ==
    ASSUME ZenohInv, Undelivered
    PROVE  ZenohInv'
<1>1. PICK q : q = Head(wire)
    OBVIOUS
<1>2. /\ ZenohTyped /\ QueuesInv /\ DrainedInv /\ RepliesInv
      /\ binding # "open"
      /\ UNCHANGED <<channel, drainer, pool, replies, binding>>
    BY DEF ZenohInv, Undelivered
<1>3. /\ q \in All /\ stage[q] = "wire" /\ replies[q] = 0
      /\ stage' \in [All -> Stages] /\ HealthInv'
      /\ \A r \in All : stage'[r] = IF r = q THEN "lost" ELSE stage[r]
      /\ Queue(wire', Placed("wire")')
      /\ \A place : place # "wire" /\ place # "lost" => Placed(place)' = Placed(place)
    BY <1>1, WireMoves DEF Undelivered, Stages
<1>4. QueuesInv' /\ DrainedInv' /\ ZenohTyped'
    BY <1>2, <1>3 DEF QueuesInv, DrainedInv, ZenohTyped
<1>5. RepliesInv'
    BY <1>2, <1>3, RepliesKept DEF ZenohTyped, Unanswered
<1> QED
    BY <1>3, <1>4, <1>5 DEF ZenohInv

LEMMA AnswerHealthKeeps ==
    ASSUME ZenohInv, AnswerHealth
    PROVE  ZenohInv'
<1>1. /\ ZenohTyped /\ QueuesInv /\ DrainedInv /\ RepliesInv
      /\ Reply(Health) /\ Head(wire) = Health
      /\ UNCHANGED <<channel, drainer, pool, binding>>
    BY DEF ZenohInv, AnswerHealth
<1>2. /\ Health \in All /\ replies[Health] = 0
      /\ stage' \in [All -> Stages] /\ HealthInv'
      /\ \A r \in All : stage'[r] = IF r = Health THEN "dropped" ELSE stage[r]
      /\ Queue(wire', Placed("wire")')
      /\ \A place : place # "wire" /\ place # "dropped" => Placed(place)' = Placed(place)
    BY WireMoves DEF AnswerHealth, Stages
<1>3. /\ replies' \in [All -> 0..2]
      /\ replies'[Health] = replies[Health] + 1 /\ replies'[Health] # 0
      /\ \A r \in All : r # Health => replies'[r] = replies[r]
    BY <1>1, <1>2, OneReplyMore
<1>4. QueuesInv' /\ DrainedInv' /\ ZenohTyped'
    BY <1>1, <1>2, <1>3 DEF QueuesInv, DrainedInv, ZenohTyped
<1>5. RepliesInv'
    BY <1>1, <1>2, <1>3, RepliesKept DEF Unanswered
<1> QED
    BY <1>2, <1>4, <1>5 DEF ZenohInv

LEMMA EnqueueQueryKeeps ==
    ASSUME ZenohInv, EnqueueQuery
    PROVE  ZenohInv'
<1>1. PICK q : q = Head(wire)
    OBVIOUS
<1>2. /\ ZenohTyped /\ QueuesInv /\ DrainedInv /\ RepliesInv
      /\ q # Health
      /\ Len(channel) < QueueSize /\ channel' = Append(channel, q)
      /\ UNCHANGED <<drainer, pool, replies, binding>>
    BY <1>1 DEF ZenohInv, EnqueueQuery
<1>3. q \in Queries
    BY <1>1, <1>2, QueueTail DEF EnqueueQuery, QueuesInv, All
<1>4. /\ q \in All /\ stage[q] = "wire" /\ replies[q] = 0
      /\ stage' \in [All -> Stages] /\ HealthInv'
      /\ \A r \in All : stage'[r] = IF r = q THEN "channel" ELSE stage[r]
      /\ Queue(wire', Placed("wire")')
      /\ Placed("channel")' = Placed("channel") \cup {q}
      /\ q \notin Placed("channel")
      /\ \A place : place # "wire" /\ place # "channel" => Placed(place)' = Placed(place)
    BY <1>1, <1>3, WireMoves DEF EnqueueQuery, Stages
<1>5. Queue(channel', Placed("channel")') /\ Len(channel') = Len(channel) + 1
    BY <1>2, <1>4, QueueAppend DEF QueuesInv
<1>6. QueuesInv' /\ DrainedInv'
    BY <1>2, <1>4, <1>5 DEF QueuesInv, DrainedInv
<1>7. Len(channel') <= QueueSize
    <2>1. Len(channel) \in Nat /\ QueueSize \in Nat
        BY <1>2, LenProperties, ZenohConstants DEF QueuesInv, Queue, ZenohConstants
    <2> QED
        BY <1>2, <1>5, <2>1
<1>8. ZenohTyped'
    BY <1>2, <1>4, <1>7 DEF ZenohTyped
<1>9. RepliesInv'
    BY <1>2, <1>4, RepliesKept DEF ZenohTyped, Unanswered
<1> QED
    BY <1>4, <1>6, <1>8, <1>9 DEF ZenohInv

LEMMA DrainKeeps ==
    ASSUME ZenohInv, Drain
    PROVE  ZenohInv'
<1>1. /\ ZenohTyped /\ QueuesInv /\ DrainedInv /\ HealthInv /\ RepliesInv
      /\ drainer = "waiting" /\ Placed("drained") = {}
      /\ UNCHANGED <<wire, pool, replies, binding>>
    BY DEF ZenohInv, Drain, DrainedInv
<1>2. CASE drainer' = "over" /\ UNCHANGED <<channel, stage>>
    <2>1. \A place : Placed(place)' = Placed(place)
        BY <1>2 DEF Placed
    <2>2. QueuesInv' /\ DrainedInv'
        BY <1>1, <1>2, <2>1 DEF QueuesInv, DrainedInv
    <2>3. ZenohTyped' /\ HealthInv' /\ RepliesInv'
        BY <1>1, <1>2 DEF ZenohTyped, HealthInv, RepliesInv
    <2> QED
        BY <2>2, <2>3 DEF ZenohInv
<1>3. CASE /\ channel # <<>>
           /\ drainer' = "holding"
           /\ channel' = Tail(channel)
           /\ Move(Head(channel), "drained")
    <2>1. PICK q : q = Head(channel)
        OBVIOUS
    <2>2. /\ q \in All /\ q \in Placed("channel")
          /\ Queue(channel', Placed("channel") \ {q})
          /\ Len(channel') = Len(channel) - 1
        BY <1>1, <1>3, <2>1, QueueTail DEF QueuesInv
    <2>3. stage[q] = "channel"
        BY <2>2 DEF Placed
    <2>4. q \in Queries
        BY <1>1, <2>2, <2>3, PlacedQuery
    <2>5. /\ stage' \in [All -> Stages] /\ HealthInv'
          /\ \A r \in All : stage'[r] = IF r = q THEN "drained" ELSE stage[r]
          /\ \A place : place # "drained" => Placed(place)' = Placed(place) \ {q}
          /\ Placed("drained")' = Placed("drained") \cup {q}
          /\ \A place : place # stage[q] => q \notin Placed(place)
        BY <1>1, <1>3, <2>1, <2>2, <2>4, QueryMoves DEF Stages
    <2>6. Placed("wire")' = Placed("wire") /\ Placed("pool")' = Placed("pool")
        BY <2>3, <2>5
    <2>7. QueuesInv'
        BY <1>1, <2>2, <2>5, <2>6 DEF QueuesInv
    <2>8. Placed("drained")' = {q}
        BY <1>1, <2>5
    <2>9. DrainedInv'
        BY <1>3, <2>2, <2>8 DEF DrainedInv
    <2>10. Len(channel') <= QueueSize
        <3>1. Len(channel) \in Nat /\ QueueSize \in Nat
            BY <1>1, LenProperties, ZenohConstants DEF QueuesInv, Queue, ZenohConstants
        <3> QED
            BY <1>1, <2>2, <3>1 DEF ZenohTyped
    <2>11. ZenohTyped'
        BY <1>1, <1>3, <2>5, <2>10 DEF ZenohTyped
    <2>12. replies[q] = 0
        BY <1>1, <2>2, <2>3 DEF RepliesInv, Unanswered
    <2>13. RepliesInv'
        BY <1>1, <2>2, <2>5, <2>12, RepliesKept DEF ZenohTyped
    <2> QED
        BY <2>5, <2>7, <2>9, <2>11, <2>13 DEF ZenohInv
<1> QED
    BY <1>2, <1>3 DEF Drain

LEMMA SubmitKeeps ==
    ASSUME ZenohInv, NEW q \in Queries, Submit(q)
    PROVE  ZenohInv'
<1>1. /\ ZenohTyped /\ QueuesInv /\ DrainedInv /\ HealthInv /\ RepliesInv
      /\ q \in All /\ stage[q] = "drained"
      /\ UNCHANGED <<wire, channel, replies, binding>>
    BY DEF ZenohInv, Submit, All
<1>2. Placed("drained") = {q}
    BY <1>1 DEF DrainedInv, Placed
<1>3. PICK to : to = IF binding # "closed" THEN "pool" ELSE "lost"
    OBVIOUS
<1>4. Move(q, to) /\ drainer' \in {"waiting", "over"}
    BY <1>3 DEF Submit, Around
<1>5. /\ stage' \in [All -> Stages] /\ HealthInv'
      /\ \A r \in All : stage'[r] = IF r = q THEN to ELSE stage[r]
      /\ \A place : place # to => Placed(place)' = Placed(place) \ {q}
      /\ Placed(to)' = Placed(to) \cup {q}
      /\ \A place : place # stage[q] => q \notin Placed(place)
      /\ \A place : place # to /\ place # stage[q] => Placed(place)' = Placed(place)
    BY <1>1, <1>3, <1>4, QueryMoves DEF Stages
<1>6. /\ Placed("wire")' = Placed("wire") /\ Placed("channel")' = Placed("channel")
      /\ q \notin Placed("pool")
      /\ Placed("drained")' = {}
      /\ to # "pool" => Placed("pool")' = Placed("pool")
    <2>1. to \in {"pool", "lost"}
        BY <1>3
    <2>2. Placed("wire")' = Placed("wire") /\ Placed("channel")' = Placed("channel")
        BY <1>1, <1>5, <2>1
    <2>3. q \notin Placed("pool") /\ (to # "pool" => Placed("pool")' = Placed("pool"))
        BY <1>1, <1>5
    <2>4. Placed("drained")' = {}
        BY <1>2, <1>5, <2>1
    <2> QED
        BY <2>2, <2>3, <2>4
<1>7. DrainedInv'
    BY <1>4, <1>6 DEF DrainedInv
<1>8. Queue(pool', Placed("pool")')
    <2>1. CASE binding # "closed"
        <3>1. pool' = Append(pool, q) /\ to = "pool" /\ Queue(pool, Placed("pool"))
            BY <1>1, <1>3, <2>1 DEF Submit, QueuesInv
        <3>2. Placed("pool")' = Placed("pool") \cup {q}
            BY <1>5, <3>1
        <3> QED
            BY <1>1, <1>6, <3>1, <3>2, QueueAppend
    <2>2. CASE binding = "closed"
        BY <1>1, <1>3, <1>5, <1>6, <2>2 DEF QueuesInv, Submit
    <2> QED
        BY <2>1, <2>2
<1>9. QueuesInv'
    BY <1>1, <1>6, <1>8 DEF QueuesInv
<1>10. ZenohTyped'
    BY <1>1, <1>4, <1>5 DEF ZenohTyped
<1>11. replies[q] = 0
    BY <1>1 DEF RepliesInv, Unanswered
<1>12. RepliesInv'
    BY <1>1, <1>3, <1>5, <1>11, RepliesKept DEF ZenohTyped, Unanswered
<1> QED
    BY <1>5, <1>7, <1>9, <1>10, <1>12 DEF ZenohInv

LEMMA StartWorkerKeeps ==
    ASSUME ZenohInv, StartWorker
    PROVE  ZenohInv'
<1>1. /\ ZenohTyped /\ QueuesInv /\ DrainedInv /\ HealthInv /\ RepliesInv
      /\ pool # <<>> /\ pool' = Tail(pool) /\ Move(Head(pool), "running")
      /\ UNCHANGED <<wire, channel, drainer, replies, binding>>
    BY DEF ZenohInv, StartWorker
<1>2. PICK q : q = Head(pool)
    OBVIOUS
<1>3. q \in All /\ q \in Placed("pool") /\ Queue(pool', Placed("pool") \ {q})
    BY <1>1, <1>2, QueueTail DEF QueuesInv
<1>4. stage[q] = "pool"
    BY <1>3 DEF Placed
<1>5. q \in Queries
    BY <1>1, <1>3, <1>4, PlacedQuery
<1>6. /\ stage' \in [All -> Stages] /\ HealthInv'
      /\ \A r \in All : stage'[r] = IF r = q THEN "running" ELSE stage[r]
      /\ \A place : place # "running" => Placed(place)' = Placed(place) \ {q}
      /\ \A place : place # stage[q] => q \notin Placed(place)
      /\ \A place : place # "running" /\ place # stage[q] => Placed(place)' = Placed(place)
    BY <1>1, <1>2, <1>3, <1>5, QueryMoves DEF Stages
<1>7. /\ Placed("wire")' = Placed("wire") /\ Placed("channel")' = Placed("channel")
      /\ Placed("drained")' = Placed("drained") /\ Placed("pool")' = Placed("pool") \ {q}
    BY <1>4, <1>6
<1>8. QueuesInv' /\ DrainedInv'
    BY <1>1, <1>3, <1>7 DEF QueuesInv, DrainedInv
<1>9. ZenohTyped'
    BY <1>1, <1>6 DEF ZenohTyped
<1>10. replies[q] = 0
    BY <1>1, <1>3, <1>4 DEF RepliesInv, Unanswered
<1>11. RepliesInv'
    BY <1>1, <1>3, <1>6, <1>10, RepliesKept DEF ZenohTyped
<1> QED
    BY <1>6, <1>8, <1>9, <1>11 DEF ZenohInv

\* A worker takes an invocation one stage on.
LEMMA WorkKeeps ==
    ASSUME ZenohInv, NEW q \in Queries, stage[q] \in {"running", "executed", "raised", "replied"},
           NEW to \in {"executed", "raised", "replied", "dropped"}, Move(q, to), to # stage[q],
           UNCHANGED <<wire, channel, drainer, pool, binding>>,
           replies' \in [All -> 0..2], \A r \in All : r # q => replies'[r] = replies[r],
           to = "executed" => replies'[q] = 0,
           to = "raised" => replies'[q] <= 1,
           (to \in {"replied", "dropped"} /\ replies'[q] = 0) => binding # "open"
    PROVE  ZenohInv'
<1>1. /\ ZenohTyped /\ QueuesInv /\ DrainedInv /\ HealthInv /\ RepliesInv
      /\ q \in All /\ to \in Stages
    BY DEF ZenohInv, All, Stages
<1>2. /\ stage' \in [All -> Stages] /\ HealthInv'
      /\ \A r \in All : stage'[r] = IF r = q THEN to ELSE stage[r]
      /\ \A place : place # to /\ place # stage[q] => Placed(place)' = Placed(place)
    BY <1>1, QueryMoves
<1>3. /\ Placed("wire")' = Placed("wire") /\ Placed("channel")' = Placed("channel")
      /\ Placed("drained")' = Placed("drained") /\ Placed("pool")' = Placed("pool")
    BY <1>2
<1>4. QueuesInv' /\ DrainedInv'
    BY <1>1, <1>3 DEF QueuesInv, DrainedInv
<1>5. ZenohTyped'
    BY <1>1, <1>2 DEF ZenohTyped
<1>6. RepliesInv'
    BY <1>1, <1>2, RepliesKept DEF Unanswered
<1> QED
    BY <1>2, <1>4, <1>5, <1>6 DEF ZenohInv

LEMMA WorksKeeps ==
    ASSUME ZenohInv, NEW q \in Queries, Works(q)
    PROVE  ZenohInv'
<1>1. ZenohTyped /\ RepliesInv /\ q \in All /\ replies \in [All -> 0..2]
    BY DEF ZenohInv, All, ZenohTyped
<1>2. CASE Handle(q)
    <2>1. stage[q] = "running" /\ replies[q] = 0
        BY <1>1, <1>2 DEF Handle, RepliesInv, Unanswered
    <2>2. CASE Reply(q) /\ Move(q, "replied")
        <3>1. /\ replies' \in [All -> 0..2] /\ replies'[q] # 0
              /\ \A r \in All : r # q => replies'[r] = replies[r]
            BY <1>1, <2>1, <2>2, OneReplyMore
        <3> QED
            BY <1>2, <2>1, <2>2, <3>1, WorkKeeps DEF Handle
    <2>3. CASE Move(q, "executed") /\ UNCHANGED replies
        BY <1>1, <1>2, <2>1, <2>3, WorkKeeps DEF Handle
    <2>4. CASE Move(q, "raised") /\ UNCHANGED replies
        BY <1>1, <1>2, <2>1, <2>4, WorkKeeps DEF Handle
    <2> QED
        BY <1>2, <2>2, <2>3, <2>4 DEF Handle
<1>3. CASE SendResult(q)
    <2>1. stage[q] = "executed" /\ replies[q] = 0
        BY <1>1, <1>3 DEF SendResult, RepliesInv, Unanswered
    <2>2. CASE binding = "closed"
        BY <1>1, <1>3, <2>1, <2>2, WorkKeeps DEF SendResult
    <2>3. CASE binding # "closed"
        <3>1. /\ replies' \in [All -> 0..2] /\ replies'[q] = 1
              /\ \A r \in All : r # q => replies'[r] = replies[r]
            BY <1>1, <1>3, <2>1, <2>3, OneReplyMore DEF SendResult
        <3>2. CASE Move(q, "replied")
            BY <1>3, <2>1, <3>1, <3>2, WorkKeeps DEF SendResult
        <3>3. CASE Move(q, "raised")
            BY <1>3, <2>1, <3>1, <3>3, WorkKeeps DEF SendResult
        <3> QED
            BY <1>3, <2>3, <3>2, <3>3 DEF SendResult
    <2> QED
        BY <2>2, <2>3
<1>4. CASE SendError(q)
    <2>1. stage[q] = "raised" /\ replies[q] <= 1
        BY <1>1, <1>4 DEF SendError, RepliesInv
    <2>2. CASE binding = "closed"
        BY <1>1, <1>4, <2>1, <2>2, WorkKeeps DEF SendError
    <2>3. CASE binding # "closed"
        <3>1. /\ replies' \in [All -> 0..2] /\ replies'[q] # 0
              /\ \A r \in All : r # q => replies'[r] = replies[r]
            BY <1>1, <1>4, <2>1, <2>3, OneReplyMore DEF SendError
        <3> QED
            BY <1>4, <2>1, <3>1, WorkKeeps DEF SendError
    <2> QED
        BY <2>2, <2>3
<1>5. CASE Drop(q)
    <2>1. /\ stage[q] = "replied"
          /\ replies[q] = 0 => binding # "open"
        BY <1>1, <1>5 DEF Drop, RepliesInv
    <2> QED
        BY <1>1, <1>5, <2>1, WorkKeeps DEF Drop
<1> QED
    BY <1>2, <1>3, <1>4, <1>5 DEF Works

LEMMA StopKeeps ==
    ASSUME ZenohInv, Stop
    PROVE  ZenohInv'
<1>1. \A place : Placed(place)' = Placed(place)
    BY DEF Stop, Placed
<1>2. QueuesInv' /\ DrainedInv'
    BY <1>1 DEF ZenohInv, Stop, QueuesInv, DrainedInv
<1>3. ZenohTyped' /\ HealthInv' /\ RepliesInv'
    BY DEF ZenohInv, Stop, ZenohTyped, HealthInv, RepliesInv
<1> QED
    BY <1>2, <1>3 DEF ZenohInv

\* What a step of close does to the queries of a queue.
LEMMA LosePlaced ==
    ASSUME ZenohTyped, HealthInv, NEW place, place \notin {"lost", "unsent", "wire", "dropped"},
           stage' = [q \in All |-> IF stage[q] = place THEN "lost" ELSE stage[q]]
    PROVE  /\ stage' \in [All -> Stages] /\ HealthInv'
           /\ Placed(place)' = {}
           /\ \A other : other # place /\ other # "lost" => Placed(other)' = Placed(other)
<1>1. \A q \in All : stage'[q] = IF stage[q] = place THEN "lost" ELSE stage[q]
    OBVIOUS
<1>2. stage' \in [All -> Stages]
    BY DEF ZenohTyped, Stages
<1>3. Health \in All
    BY DEF All
<1>4. HealthInv'
    BY <1>1, <1>3 DEF HealthInv
<1>5. Placed(place)' = {}
    BY <1>1 DEF Placed
<1>6. \A other : other # place /\ other # "lost" => Placed(other)' = Placed(other)
    BY <1>1 DEF Placed
<1> QED
    BY <1>2, <1>4, <1>5, <1>6

LEMMA UndeclareKeeps ==
    ASSUME ZenohInv, Undeclare
    PROVE  ZenohInv'
<1>1. /\ ZenohTyped /\ QueuesInv /\ DrainedInv /\ HealthInv /\ RepliesInv
      /\ binding' = "undeclared" /\ channel' = <<>>
      /\ stage' = [q \in All |-> IF stage[q] = "channel" THEN "lost" ELSE stage[q]]
      /\ UNCHANGED <<wire, drainer, pool, replies>>
    BY DEF ZenohInv, Undeclare
<1>2. /\ stage' \in [All -> Stages] /\ HealthInv'
      /\ Placed("channel")' = {}
      /\ \A other : other # "channel" /\ other # "lost" => Placed(other)' = Placed(other)
    BY <1>1, LosePlaced
<1>3. /\ Placed("wire")' = Placed("wire") /\ Placed("pool")' = Placed("pool")
      /\ Placed("drained")' = Placed("drained")
    BY <1>2
<1>4. QueuesInv' /\ DrainedInv'
    BY <1>1, <1>2, <1>3, QueueEmpty DEF QueuesInv, DrainedInv
<1>5. ZenohTyped'
    BY <1>1, <1>2, QueueEmpty, ZenohConstants DEF ZenohTyped, ZenohConstants
<1>6. RepliesInv'
    BY <1>1 DEF RepliesInv, Unanswered
<1> QED
    BY <1>2, <1>4, <1>5, <1>6 DEF ZenohInv

LEMMA ShutDownKeeps ==
    ASSUME ZenohInv, ShutDown
    PROVE  ZenohInv'
<1>1. /\ ZenohTyped /\ QueuesInv /\ DrainedInv /\ HealthInv /\ RepliesInv
      /\ binding' = "closed" /\ pool' = <<>>
      /\ stage' = [q \in All |-> IF stage[q] = "pool" THEN "lost" ELSE stage[q]]
      /\ UNCHANGED <<wire, channel, drainer, replies>>
    BY DEF ZenohInv, ShutDown
<1>2. /\ stage' \in [All -> Stages] /\ HealthInv'
      /\ Placed("pool")' = {}
      /\ \A other : other # "pool" /\ other # "lost" => Placed(other)' = Placed(other)
    BY <1>1, LosePlaced
<1>3. /\ Placed("wire")' = Placed("wire") /\ Placed("channel")' = Placed("channel")
      /\ Placed("drained")' = Placed("drained")
    BY <1>2
<1>4. QueuesInv' /\ DrainedInv'
    BY <1>1, <1>2, <1>3, QueueEmpty DEF QueuesInv, DrainedInv
<1>5. ZenohTyped'
    BY <1>1, <1>2 DEF ZenohTyped
<1>6. RepliesInv'
    BY <1>1 DEF RepliesInv, Unanswered
<1> QED
    BY <1>2, <1>4, <1>5, <1>6 DEF ZenohInv

LEMMA ZenohStep == ZenohInv /\ [ZenohNext]_zenohVars => ZenohInv'
<1> SUFFICES ASSUME ZenohInv, [ZenohNext]_zenohVars
             PROVE  ZenohInv'
    OBVIOUS
<1>1. ASSUME NEW q \in All, Send(q)
      PROVE  ZenohInv'
    BY <1>1, SendKeeps
<1>2. CASE Delivers
    BY <1>2, UndeliveredKeeps, AnswerHealthKeeps, EnqueueQueryKeeps DEF Delivers
<1>3. CASE Drain \/ StartWorker
    BY <1>3, DrainKeeps, StartWorkerKeeps
<1>4. ASSUME NEW q \in Queries, Submit(q) \/ Works(q)
      PROVE  ZenohInv'
    BY <1>4, SubmitKeeps, WorksKeeps
<1>5. CASE Stop \/ Undeclare \/ ShutDown
    BY <1>5, StopKeeps, UndeclareKeeps, ShutDownKeeps
<1>6. CASE UNCHANGED zenohVars
    <2>1. UNCHANGED <<wire, channel, drainer, pool, stage, replies, binding>>
        BY <1>6 DEF zenohVars
    <2>2. \A place : Placed(place)' = Placed(place)
        BY <2>1 DEF Placed
    <2>3. QueuesInv' /\ DrainedInv'
        BY <2>1, <2>2 DEF ZenohInv, QueuesInv, DrainedInv
    <2>4. ZenohTyped' /\ HealthInv' /\ RepliesInv'
        BY <2>1 DEF ZenohInv, ZenohTyped, HealthInv, RepliesInv
    <2> QED
        BY <2>3, <2>4 DEF ZenohInv
<1> QED
    BY <1>1, <1>2, <1>3, <1>4, <1>5, <1>6 DEF ZenohNext

LEMMA ZenohInvSafe == ZenohInv => ZenohSafe
<1> SUFFICES ASSUME ZenohInv PROVE ZenohSafe
    OBVIOUS
<1>1. ZenohTyped /\ QueuesInv /\ DrainedInv /\ HealthInv /\ RepliesInv
    BY DEF ZenohInv
<1>2. ASSUME NEW q \in Queries
      PROVE  /\ stage[q] = "channel" <=> \E n \in DOMAIN channel : channel[n] = q
             /\ stage[q] = "pool" <=> \E n \in DOMAIN pool : pool[n] = q
    <2>1. q \in All
        BY DEF All
    <2>2. stage[q] = "channel" <=> q \in Placed("channel")
        BY <2>1 DEF Placed
    <2>3. stage[q] = "pool" <=> q \in Placed("pool")
        BY <2>1 DEF Placed
    <2> QED
        BY <1>1, <2>2, <2>3 DEF QueuesInv, Queue
<1>3. Cardinality({q \in Queries : stage[q] = "drained"}) = (IF drainer = "holding" THEN 1 ELSE 0)
    <2>1. {q \in Queries : stage[q] = "drained"} = Placed("drained")
        BY <1>1 DEF Placed, HealthInv, All
    <2>2. CASE drainer = "holding"
        BY <1>1, <2>1, <2>2, FS_Singleton DEF DrainedInv
    <2>3. CASE drainer # "holding"
        BY <1>1, <2>1, <2>3, FS_EmptySet DEF DrainedInv
    <2> QED
        BY <2>2, <2>3
<1>4. ZenohTypeOK
    BY <1>1, <1>2, <1>3 DEF ZenohTypeOK, ZenohTyped
<1>5. SilentOnlyAtClose
    BY <1>1 DEF RepliesInv, SilentOnlyAtClose
<1> QED
    BY <1>4, <1>5 DEF ZenohSafe

\* Each query is in one place, and one that is over without an answer met a
\* server that closes, whatever raises (chp_transport_zenoh/server.py).
THEOREM ZenohStaysSafe == ZenohSpec => []ZenohSafe
<1> QED
    BY ZenohStarts, ZenohStep, ZenohInvSafe, PTL DEF ZenohSpec

-----------------------------------------------------------------------------
(***************************************************************************)
(* The service: the components side by side, of which one moves.           *)
(***************************************************************************)
\* A step of the service is one of a component, or leaves it as it is.
LEMMA ServiceSteps ==
    [ServiceNext]_serviceVars =>
        /\ [TranscriptNext]_transcriptVars
        /\ [WorkflowNext]_workflowVars
        /\ [CircuitNext]_circuitVars
        /\ [CacheNext]_cacheVars
        /\ [ZenohNext]_zenohVars
<1>1. CASE UNCHANGED serviceVars
    BY <1>1 DEF serviceVars
<1>2. CASE ServiceNext
    <2>1. /\ part # "transcripts" => UNCHANGED transcriptVars
          /\ part # "workflow" => UNCHANGED workflowVars
          /\ part # "circuit" => UNCHANGED circuitVars
          /\ part # "cache" => UNCHANGED cacheVars
          /\ part # "zenoh" => UNCHANGED zenohVars
        BY <1>2 DEF ServiceNext, Stays
    <2>2. \/ part \in {"process", "machine", "admission", "versions"}
          \/ part = "transcripts" /\ TranscriptNext
          \/ part = "workflow" /\ WorkflowNext
          \/ part = "circuit" /\ CircuitNext
          \/ part = "cache" /\ CacheNext
          \/ part = "zenoh" /\ ZenohNext
        BY <1>2 DEF ServiceNext, Moves
    <2> QED
        BY <2>1, <2>2
<1> QED
    BY <1>1, <1>2

LEMMA ServiceStarts ==
    ServiceInit => TranscriptInit /\ WorkflowInit /\ CircuitInit /\ CacheInit /\ ZenohInit
BY DEF ServiceInit

\* What is written down of what happened stays true to it: the transcripts beside the
\* chain account for the responses of the agents, and the evidence of workflow runs for
\* what the runs did (messages and composition adapters, workflow.py).
THEOREM RecordsStaySafe ==
    ServiceSpec => []RecordsSafe
<1>1. ServiceInit => TranscriptInv /\ WorkflowInv
    BY ServiceStarts, TranscriptStarts, WorkflowStarts
<1>2. TranscriptInv /\ WorkflowInv /\ [ServiceNext]_serviceVars => (TranscriptInv /\ WorkflowInv)'
    BY ServiceSteps, TranscriptStep, WorkflowStep
<1>3. TranscriptInv /\ WorkflowInv => RecordsSafe
    BY TranscriptInvSafe, WorkflowInvSafe DEF RecordsSafe
<1> QED
    BY <1>1, <1>2, <1>3, PTL DEF ServiceSpec

\* What the threads of a host share stays safe: the circuits of the http adapter, the
\* warm models of the huggingface adapter, the workers and queues of the Zenoh binding.
THEOREM AdaptersStaySafe ==
    ServiceSpec => []AdaptersSafe
<1>1. ServiceInit => CircuitInv /\ CacheInv /\ ZenohInv
    BY ServiceStarts, CircuitStarts, CacheStarts, ZenohStarts
<1>2. CircuitInv /\ CacheInv /\ ZenohInv /\ [ServiceNext]_serviceVars =>
        (CircuitInv /\ CacheInv /\ ZenohInv)'
    BY ServiceSteps, CircuitStep, CacheStep, ZenohStep
<1>3. CircuitInv /\ CacheInv /\ ZenohInv => AdaptersSafe
    BY CircuitInvSafe, CacheInvSafe, ZenohInvSafe DEF AdaptersSafe
<1> QED
    BY <1>1, <1>2, <1>3, PTL DEF ServiceSpec
=============================================================================
