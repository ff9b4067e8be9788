---------------------------- MODULE EvidenceStore ----------------------------
(***************************************************************************)
(* SQLiteEvidenceStore (chp_core/store.py) together with the retention     *)
(* manager that writes to the same database (chp_core/compliance.py).      *)
(*                                                                         *)
(* The database is one SQLite file in WAL mode.  Several connections       *)
(* (processes, hook entry points, several hosts in one process) have it    *)
(* open: each reads its own view, one at a time may hold the write lock,   *)
(* and the others see the last committed state.  A connection's threads    *)
(* are serialised by SQLiteEvidenceStore._lock, so the connection is the   *)
(* unit of concurrency here.                                               *)
(***************************************************************************)
EXTENDS Integers, Sequences, FiniteSets

CONSTANTS
    Conns,           \* the open store connections
    Events,          \* the evidence events callers hand to the store
    Singles,         \* the events handed over one at a time (append)
    Batches,         \* the batches handed to append_many, sequences of events
    Correlations,
    Capabilities,
    Invocations,
    CorrelationOf,   \* what each event says: its correlation, its capability,
    CapabilityOf,    \* its invocation, its timestamp, whether its payload is
    InvocationOf,    \* the empty object, and whether json.dumps accepts it
    TimestampOf,
    BodyOf,
    Serializable,
    Terminal,        \* the events after which the host records a result
    RetainCutoffs,   \* cut-off times retention may be run with; 0: disabled
    RedactCutoffs,
    PurgeCutoffs,    \* before_ts of an explicit purge; {}: never called
    Patterns,        \* the capability sets the GLOB patterns select
    MaxSequence,     \* bound on the AUTOINCREMENT sequence
    MaxServed,       \* bound on the store heads handed to witnesses
    NoConn

ASSUME StoreConstants ==
    /\ NoConn \notin Conns
    /\ Singles \subseteq Events
    /\ Batches \subseteq Seq(Events)
    /\ CorrelationOf \in [Events -> Correlations]
    /\ CapabilityOf \in [Events -> Capabilities]
    /\ InvocationOf \in [Events -> Invocations]
    /\ TimestampOf \in [Events -> Nat \ {0}]
    /\ BodyOf \in [Events -> {"full", "empty"}]
    /\ Serializable \subseteq Events
    /\ Terminal \subseteq Events
    /\ RetainCutoffs \subseteq Nat
    /\ RedactCutoffs \subseteq Nat
    /\ PurgeCutoffs \subseteq Nat
    /\ Patterns \subseteq SUBSET Capabilities
    /\ MaxSequence \in Nat
    /\ MaxServed \in Nat

VARIABLES
    db,        \* the committed database
    owner,     \* the connection holding the write lock, or NoConn
    pending,   \* what owner sees: db with its uncommitted writes
    batch,     \* the events append_many has still to insert for owner
    tx,        \* the state of each connection that does not hold the lock
    unrecorded,\* invocations whose host thread is about to call record_result
    served     \* the store heads handed to witnesses since the last retention

vars == <<db, owner, pending, batch, tx, unrecorded, served>>

(***************************************************************************)
(* The tables.  A row keeps the columns the properties tell apart; the     *)
(* event's own attributes are read from its id.  A content hash is the     *)
(* collision-free term of what it commits to, NULL the empty tuple.        *)
(***************************************************************************)
Nil == <<>>

HashOf(id, body, prev) == <<id, body, prev>>

NoHead == [seq |-> 0, hash |-> Nil]

RowsOf(rows, c) == {r \in rows : CorrelationOf[r.id] = c}

Tops(rows) == {r \in rows : \A q \in rows : q.seq <= r.seq}

\* Mutant of LastHash: the SELECT without its WHERE correlation_id = ?.
LastHashOfAny(rows, c) ==
    IF rows = {} THEN Nil ELSE (CHOOSE r \in Tops(rows) : TRUE).hash

\* SELECT content_hash ... ORDER BY sequence DESC LIMIT 1
LastHash(rows, c) ==
    LET own == RowsOf(rows, c)
    IN  IF own = {} THEN Nil ELSE (CHOOSE r \in Tops(own) : TRUE).hash

\* The INSERT ... SELECT of _rebuild_heads_locked, for one correlation.
HeadOf(rows, c) ==
    LET own == RowsOf(rows, c)
        top == CHOOSE r \in Tops(own) : TRUE
    IN  IF own = {} THEN NoHead ELSE [seq |-> top.seq, hash |-> top.hash]

RebuildHeads(rows) == [c \in Correlations |-> HeadOf(rows, c)]

Ids(rows) == {r.id : r \in rows}

EmptyDb == [rows |-> {}, seq |-> 0, heads |-> [c \in Correlations |-> NoHead],
            results |-> {}]

TakeSequence(d) ==
    [rows |-> d.rows, seq |-> d.seq + 1, heads |-> d.heads, results |-> d.results]

\* Mutant of NewRow: the next sequence is that of the last row plus one, as
\* without AUTOINCREMENT, and is given out again after a purge.
NewRowReusingSequence(d, e) ==
    LET prev == LastHash(d.rows, CorrelationOf[e])
        last == IF d.rows = {} THEN 0 ELSE (CHOOSE r \in Tops(d.rows) : TRUE).seq
    IN  [seq |-> last + 1, id |-> e, body |-> BodyOf[e],
         hash |-> HashOf(e, BodyOf[e], prev), prev |-> prev]

\* _insert_evidence_locked: next sequence, link to the correlation's last row,
\* row, head upsert.
NewRow(d, e) ==
    LET prev == LastHash(d.rows, CorrelationOf[e])
    IN  [seq |-> d.seq + 1, id |-> e, body |-> BodyOf[e],
         hash |-> HashOf(e, BodyOf[e], prev), prev |-> prev]

\* Mutant of UpsertHead: INSERT OR IGNORE, so the first event stays the head.
UpsertHeadOnce(heads, r) ==
    IF heads[CorrelationOf[r.id]] # NoHead THEN heads
    ELSE [heads EXCEPT ![CorrelationOf[r.id]] = [seq |-> r.seq, hash |-> r.hash]]

UpsertHead(heads, r) ==
    [heads EXCEPT ![CorrelationOf[r.id]] = [seq |-> r.seq, hash |-> r.hash]]

\* Mutant of InsertEvidence: the sequence number is not taken.
InsertWithoutSequence(d, e) ==
    [rows    |-> d.rows \cup {NewRow(d, e)},
     seq     |-> d.seq,
     heads   |-> UpsertHead(d.heads, NewRow(d, e)),
     results |-> d.results]

InsertEvidence(d, e) ==
    [rows    |-> d.rows \cup {NewRow(d, e)},
     seq     |-> d.seq + 1,
     heads   |-> UpsertHead(d.heads, NewRow(d, e)),
     results |-> d.results]

(***************************************************************************)
(* Retention (compliance.py)                                               *)
(***************************************************************************)
Matches(r, cutoff, pattern) ==
    TimestampOf[r.id] < cutoff /\ CapabilityOf[r.id] \in pattern

\* Correlations whose newest event is older than the cut-off and that hold an
\* event of the pattern: they go as a whole.
Expired(rows, cutoff, pattern) ==
    {c \in Correlations :
        /\ \E r \in RowsOf(rows, c) : CapabilityOf[r.id] \in pattern
        /\ \A r \in RowsOf(rows, c) : TimestampOf[r.id] < cutoff}

\* Mutant of RemoveRows: no cascade to invocation_results.
RemoveRowsOnly(d, gone) ==
    [rows |-> d.rows \ gone, seq |-> d.seq, heads |-> RebuildHeads(d.rows \ gone),
     results |-> d.results]

RemoveRows(d, gone) ==
    [rows    |-> d.rows \ gone,
     seq     |-> d.seq,
     heads   |-> RebuildHeads(d.rows \ gone),
     results |-> d.results \ {InvocationOf[r.id] : r \in gone}]

\* Mutant of PurgeExpired: old events go one by one.
PurgeOldEvents(d, cutoff, pattern) ==
    RemoveRows(d, {r \in d.rows : Matches(r, cutoff, pattern)})

PurgeExpired(d, cutoff, pattern) ==
    RemoveRows(d, {r \in d.rows :
                     CorrelationOf[r.id] \in Expired(d.rows, cutoff, pattern)})

RedactRow(r, cutoff, pattern) ==
    IF Matches(r, cutoff, pattern) /\ r.body # "empty"
    THEN [seq |-> r.seq, id |-> r.id, body |-> "empty", hash |-> Nil,
          prev |-> r.prev]
    ELSE r

\* Mutant of RedactRows: the heads are not rebuilt.
RedactKeepingHeads(d, cutoff, pattern) ==
    [rows |-> {RedactRow(r, cutoff, pattern) : r \in d.rows}, seq |-> d.seq,
     heads |-> d.heads, results |-> d.results]

RedactRows(d, cutoff, pattern) ==
    LET rows == {RedactRow(r, cutoff, pattern) : r \in d.rows}
    IN  [rows |-> rows, seq |-> d.seq, heads |-> RebuildHeads(rows),
         results |-> d.results]

Retain(d, retain, redact, pattern) ==
    RedactRows(PurgeExpired(d, retain, pattern), redact, pattern)

WithResults(d, results) ==
    [rows |-> d.rows, seq |-> d.seq, heads |-> d.heads, results |-> results]

\* SQLiteComplianceManager.purge: individual events, not whole correlations.
PurgeMatching(d, before, pattern) ==
    RemoveRows(d, {r \in d.rows : Matches(r, before, pattern)})

(***************************************************************************)
(* Reads                                                                   *)
(***************************************************************************)
\* verify_chain: expected_prev is the hash of the last row before r that has
\* one; a row without a hash is skipped and does not advance it.
HashedBefore(rows, r) ==
    {q \in RowsOf(rows, CorrelationOf[r.id]) : q.seq < r.seq /\ q.hash # Nil}

ExpectedPrev(rows, r) ==
    LET before == HashedBefore(rows, r)
    IN  IF before = {} THEN Nil ELSE (CHOOSE q \in Tops(before) : TRUE).hash

Broken(rows, r) ==
    /\ r.hash # Nil
    /\ \/ HashOf(r.id, r.body, r.prev) # r.hash
       \/ r.prev # ExpectedPrev(rows, r)

VerifyChain(rows, c) == \A r \in RowsOf(rows, c) : ~Broken(rows, r)

\* get_store_head(n, fresh=True): the leaves recomputed from the raw events.
FreshLeaves(rows, n) ==
    [c \in Correlations |-> HeadOf({r \in rows : r.seq <= n}, c)]

\* get_store_head(n): the leaves from the cache; a correlation whose head has
\* moved past n is point-queried.
CachedLeaves(d, n) ==
    [c \in Correlations |->
        IF d.heads[c].seq <= n THEN d.heads[c]
        ELSE HeadOf({r \in d.rows : r.seq <= n}, c)]

\* The sequence get_store_head() stamps: the largest cached head sequence.
HeadSequence(d) ==
    CHOOSE n \in 0..d.seq : /\ \E c \in Correlations : d.heads[c].seq = n
                            /\ \A c \in Correlations : d.heads[c].seq <= n

-----------------------------------------------------------------------------
(***************************************************************************)
(* Transactions.  tx[w] is "none" in autocommit; "begun" when a refused    *)
(* write has left BEGIN behind; "pinned" when a read inside it has pinned  *)
(* a snapshot; "stale" once another connection has committed past it, from *)
(* when SQLite refuses every upgrade to a write (SQLITE_BUSY_SNAPSHOT).    *)
(***************************************************************************)
View(w) == IF owner = w THEN pending ELSE db

\* w holds _lock (no append_many of w is half way) and gets the write lock.
CanWrite(w) ==
    /\ owner \in {NoConn, w}
    /\ owner = w => batch = <<>>
    /\ tx[w] # "stale"

Commit(w, d) ==
    /\ db' = d
    /\ pending' = d
    /\ owner' = NoConn
    /\ batch' = <<>>
    /\ tx' = [v \in Conns |-> IF v = w THEN "none"
                              ELSE IF tx[v] = "pinned" /\ d # db THEN "stale"
                              ELSE tx[v]]

Rollback(w) ==
    /\ owner' = NoConn
    /\ pending' = db
    /\ batch' = <<>>
    /\ tx' = [tx EXCEPT ![w] = "none"]
    /\ UNCHANGED db

\* json.dumps raises TypeError after the sequence row was inserted: neither
\* committed nor rolled back.
LeaveOpen(w, d) ==
    /\ owner' = w
    /\ pending' = TakeSequence(d)
    /\ batch' = <<>>
    /\ tx' = [tx EXCEPT ![w] = "none"]
    /\ UNCHANGED db

Elements(s) == {s[i] : i \in DOMAIN s}

-----------------------------------------------------------------------------
Init ==
    /\ db = EmptyDb
    /\ owner = NoConn
    /\ pending = EmptyDb
    /\ batch = <<>>
    /\ tx = [w \in Conns |-> "none"]
    /\ unrecorded = [w \in Conns |-> {}]
    /\ served = {}

\* _append_evidence: commit, or roll back on a duplicate event_id; any other
\* error leaves the transaction open.  The host thread that appended a terminal
\* event goes on to record the result.
AppendEvidence(w, e) ==
    /\ CanWrite(w)
    /\ \/ /\ e \notin Serializable
          /\ View(w).seq < MaxSequence
          /\ LeaveOpen(w, View(w))
          /\ UNCHANGED unrecorded
       \/ /\ e \in Serializable \ Ids(View(w).rows)
          /\ View(w).seq < MaxSequence
          /\ Commit(w, InsertEvidence(View(w), e))
          /\ unrecorded' = IF e \in Terminal
                           THEN [unrecorded EXCEPT ![w] = @ \cup {InvocationOf[e]}]
                           ELSE unrecorded
       \/ /\ e \in Serializable \cap Ids(View(w).rows)
          /\ Rollback(w)
          /\ UNCHANGED unrecorded
    /\ UNCHANGED served

\* append_many takes _lock and, with its first insert, the write lock ...
BeginBatch(w, b) ==
    /\ CanWrite(w)
    /\ View(w).seq + Len(b) <= MaxSequence
    /\ b # <<>>
    /\ owner' = w
    /\ pending' = View(w)
    /\ batch' = b
    /\ tx' = [tx EXCEPT ![w] = "none"]
    /\ UNCHANGED <<db, unrecorded, served>>

\* Mutant of InsertNext: every event of the batch is its own transaction.
CommitEach ==
    LET d == InsertEvidence(pending, Head(batch))
    IN  /\ batch # <<>>
        /\ Head(batch) \in Serializable \ Ids(pending.rows)
        /\ db' = d
        /\ pending' = d
        /\ batch' = Tail(batch)
        /\ owner' = IF Len(batch) = 1 THEN NoConn ELSE owner
        /\ UNCHANGED <<tx, unrecorded, served>>

\* ... inserts the events one by one, and commits after the last.
InsertNext ==
    LET e == Head(batch)
    IN  /\ batch # <<>>
        /\ \/ /\ e \notin Serializable
              /\ LeaveOpen(owner, pending)
           \/ /\ e \in Serializable \cap Ids(pending.rows)
              /\ Rollback(owner)
           \/ /\ e \in Serializable \ Ids(pending.rows)
              /\ Len(batch) > 1
              /\ pending' = InsertEvidence(pending, e)
              /\ batch' = Tail(batch)
              /\ UNCHANGED <<db, owner, tx>>
           \/ /\ e \in Serializable \ Ids(pending.rows)
              /\ Len(batch) = 1
              /\ Commit(owner, InsertEvidence(pending, e))
        /\ UNCHANGED <<unrecorded, served>>

ApplyRetention(w) ==
    /\ CanWrite(w)
    /\ \E retain \in RetainCutoffs, redact \in RedactCutoffs, p \in Patterns :
          Commit(w, Retain(View(w), retain, redact, p))
    /\ served' = {}
    /\ UNCHANGED unrecorded

Purge(w) ==
    /\ CanWrite(w)
    /\ \E before \in PurgeCutoffs, p \in Patterns :
          Commit(w, PurgeMatching(View(w), before, p))
    /\ served' = {}
    /\ UNCHANGED unrecorded

\* record_result: INSERT OR IGNORE.
RecordResult(w, i) ==
    /\ CanWrite(w)
    /\ i \in unrecorded[w]
    /\ Commit(w, WithResults(View(w), View(w).results \cup {i}))
    /\ unrecorded' = [unrecorded EXCEPT ![w] = @ \ {i}]
    /\ UNCHANGED served

\* delete_result, called by the resume gate; lookup_result's TTL sweep.
DropResults(w, gone) ==
    /\ CanWrite(w)
    /\ gone \subseteq View(w).results
    /\ Commit(w, WithResults(View(w), View(w).results \ gone))
    /\ UNCHANGED <<unrecorded, served>>

\* A write that gets no lock within busy_timeout, or whose snapshot is stale:
\* "database is locked".  Only IntegrityError is rolled back.  A result that
\* cannot be recorded is given up (_record_result is best effort).
Refused(w) ==
    /\ owner \notin {NoConn, w} \/ tx[w] = "stale"
    /\ tx' = [tx EXCEPT ![w] = IF @ = "none" THEN "begun" ELSE @]
    /\ \E given \in SUBSET unrecorded[w] :
          unrecorded' = [unrecorded EXCEPT ![w] = @ \ given]
    /\ UNCHANGED <<db, owner, pending, batch, served>>

\* Any SELECT: inside a transaction left behind, it pins the snapshot.
PinSnapshot(w) == [tx EXCEPT ![w] = IF @ = "begun" THEN "pinned" ELSE @]

Read(w) ==
    /\ owner # w
    /\ tx' = PinSnapshot(w)
    /\ UNCHANGED <<db, owner, pending, batch, unrecorded, served>>

\* get_store_head() for a witness.  (A stale connection serves an older
\* committed head; the properties do not tell that apart.)
ServeHead(w) ==
    LET d == View(w)
        n == HeadSequence(d)
    IN  /\ owner = w => batch = <<>>
        /\ tx[w] # "stale"
        /\ served' = served \cup {[at |-> n, leaves |-> CachedLeaves(d, n)]}
        /\ Cardinality(served') <= MaxServed
        /\ tx' = PinSnapshot(w)
        /\ UNCHANGED <<db, owner, pending, batch, unrecorded>>

\* backup_to commits before it copies.
Backup(w) ==
    /\ owner = w => batch = <<>>
    /\ IF owner = w THEN Commit(w, pending)
       ELSE /\ tx' = [tx EXCEPT ![w] = "none"]
            /\ UNCHANGED <<db, owner, pending, batch>>
    /\ UNCHANGED <<unrecorded, served>>

\* The process dies and opens the store again.
Crash(w) ==
    /\ IF owner = w THEN Rollback(w)
       ELSE /\ tx' = [tx EXCEPT ![w] = "none"]
            /\ UNCHANGED <<db, owner, pending, batch>>
    /\ unrecorded' = [unrecorded EXCEPT ![w] = {}]
    /\ UNCHANGED served

Retention(w) == ApplyRetention(w) \/ Purge(w)

Next ==
    \/ \E w \in Conns, e \in Singles : AppendEvidence(w, e)
    \/ \E w \in Conns, b \in Batches : BeginBatch(w, b)
    \/ InsertNext
    \/ \E w \in Conns : Retention(w)
    \/ \E w \in Conns, i \in Invocations : RecordResult(w, i)
    \/ \E w \in Conns : \E gone \in SUBSET Invocations : DropResults(w, gone)
    \/ \E w \in Conns :
          Refused(w) \/ Read(w) \/ ServeHead(w) \/ Backup(w) \/ Crash(w)

Spec == Init /\ [][Next]_vars

-----------------------------------------------------------------------------
(***************************************************************************)
(* Properties                                                              *)
(***************************************************************************)
TypeOKDb(d) ==
    /\ \A r \in d.rows : r.seq \in 1..d.seq /\ r.id \in Events
    /\ d.seq \in Nat
    /\ DOMAIN d.heads = Correlations
    /\ d.results \subseteq Invocations

\* Type correctness of the database, the open transaction and the connections.
TypeOK ==
    /\ TypeOKDb(db)
    /\ TypeOKDb(pending)
    /\ owner \in Conns \cup {NoConn}
    /\ batch \in Seq(Events)
    /\ tx \in [Conns -> {"none", "begun", "pinned", "stale"}]
    /\ unrecorded \in [Conns -> SUBSET Invocations]

\* verify_chain accepts every correlation after any interleaving of appends,
\* batches, roll-backs, crashes and whole-correlation retention by any
\* connection.  (It fails once redaction or an explicit purge has cut a
\* correlation: see RedactionHonest.)
ChainIntact ==
    \A c \in Correlations : VerifyChain(db.rows, c) /\ VerifyChain(pending.rows, c)

\* The serving cache never lies: for every sequence a witness may ask about,
\* get_store_head gives the same leaves from correlation_heads as from the raw
\* events, also inside an open transaction and after every kind of retention.
HeadPathsAgree ==
    \A d \in {db, pending} : \A n \in 0..d.seq : CachedLeaves(d, n) = FreshLeaves(d.rows, n)

\* "Chains are append-only and the sequence never rewinds, so the head AS-OF
\* any witnessed N is recomputable later": no step but retention changes the
\* head as of a sequence already committed.
WitnessedHeadStable ==
    [][\/ \E w \in Conns : Retention(w)
       \/ \A n \in 0..db.seq : FreshLeaves(db'.rows, n) = FreshLeaves(db.rows, n)]_vars

\* A store head handed to a witness can be recomputed from the committed events
\* at every later time, until retention lawfully removes or redacts evidence.
ServedRecomputable ==
    \A s \in served : FreshLeaves(db.rows, s.at) = s.leaves

\* append_many is one transaction: a step that commits one event of a batch
\* commits the whole batch.
BatchAtomic ==
    [][\A b \in Batches :
          (Ids(db'.rows) \ Ids(db.rows)) \cap Elements(b) \in {{}, Elements(b)}]_vars

\* Purge cascade (spec section 13): a step that removes every event of an
\* invocation leaves no recorded result of it behind.
PurgeCascades ==
    [][\A i \in Invocations :
          (/\ \E r \in db.rows : InvocationOf[r.id] = i
           /\ \A r \in db'.rows : InvocationOf[r.id] # i)
          => i \notin db'.results]_vars

\* "a lawfully purged invocation must not remain replayable": a recorded result
\* always has evidence.
PurgedNotReplayable ==
    \A i \in db.results : \E r \in db.rows : InvocationOf[r.id] = i

\* A redacted event "becomes honestly unverified in verify_chain" and does not
\* fail "as if tampered": verify_chain blames nobody for redaction.
RedactionHonest == \A c \in Correlations : VerifyChain(db.rows, c)

\* A connection that lost one wait for the write lock writes again once the
\* contention is over.
WriterRecovers == \A w \in Conns : tx[w] # "none" ~> tx[w] = "none"

FairSpec ==
    /\ Spec
    /\ WF_vars(InsertNext)
    /\ \A w \in Conns : WF_vars(\E e \in Singles : AppendEvidence(w, e))

-----------------------------------------------------------------------------
(***************************************************************************)
(* The committed rows of each correlation in sequence order are a Ledger,  *)
(* as long as no explicit purge runs.                                      *)
(***************************************************************************)
Rank(rows, r) == Cardinality({q \in rows : q.seq <= r.seq})

LogOf(rows) ==
    [i \in 1..Cardinality(rows) |-> (CHOOSE r \in rows : Rank(rows, r) = i).id]

L == INSTANCE Ledger
       WITH log <- [c \in Correlations |-> LogOf(RowsOf(db.rows, c))]

\* The store implements the ledger under appends, batches, duplicate events,
\* crashes, whole-correlation retention and redaction by every connection.
ImplementsLedger == L!Spec
=============================================================================
