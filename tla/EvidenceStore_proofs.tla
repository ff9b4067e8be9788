------------------------- MODULE EvidenceStore_proofs -------------------------
(***************************************************************************)
(* Proofs about EvidenceStore, for every number of connections, events and *)
(* correlations.                                                           *)
(***************************************************************************)
EXTENDS EvidenceStore, NaturalsInduction, WellFoundedInduction, SequenceTheorems,
        FiniteSetTheorems, TLAPS

-----------------------------------------------------------------------------
(***************************************************************************)
(* Lemmas about the tables                                                 *)
(***************************************************************************)
\* A non-empty set of rows with bounded sequence numbers has a last row.
LEMMA TopsExist ==
    ASSUME NEW rows, NEW n \in Nat, rows # {}, \A r \in rows : r.seq \in 1..n
    PROVE  \E r \in rows : r \in Tops(rows)
<1> DEFINE T == {n - r.seq : r \in rows}
<1>1. T \subseteq Nat /\ T # {}
  OBVIOUS
<1>2. PICK x \in T : \A y \in T : ~ (<<y, x>> \in OpToRel(<, Nat))
  <2> HIDE DEF T
  <2> QED BY <1>1, NatLessThanWellFounded, WFMin
<1>3. \A y \in T : x <= y
  <2>1. \A a, b \in Nat : a < b => <<a, b>> \in OpToRel(<, Nat)
    BY DEF OpToRel
  <2> HIDE DEF T
  <2>2. SUFFICES ASSUME NEW y \in T PROVE x <= y
    OBVIOUS
  <2>3. x \in Nat /\ y \in Nat
    BY <1>1
  <2>4. ~ (y < x)
    BY <1>2, <2>1, <2>3
  <2> QED BY <2>3, <2>4
<1>4. PICK r \in rows : x = n - r.seq
  OBVIOUS
<1>5. ASSUME NEW q \in rows PROVE q.seq <= r.seq
  <2>1. n - r.seq <= n - q.seq
    BY <1>3, <1>4
  <2>2. q.seq \in Int /\ r.seq \in Int
    OBVIOUS
  <2> QED BY <2>1, <2>2
<1> QED BY <1>5 DEF Tops

\* The part of the invariant about one view of the database: typed rows, one
\* row per sequence number, none above the AUTOINCREMENT counter, and the
\* maintained heads equal to the heads recomputed from the rows.
RowsOK(d) ==
    /\ d.seq \in Nat
    /\ \A r \in d.rows : r.seq \in 1..d.seq /\ r.id \in Events
    /\ \A r, q \in d.rows : r.seq = q.seq => r = q
    /\ d.results \subseteq Invocations

DbOK(d) == RowsOK(d) /\ d.heads = RebuildHeads(d.rows)

\* Every row of the correlation of a fresh row comes before it.
LEMMA FreshRowOnTop ==
    ASSUME NEW d, RowsOK(d), NEW e \in Events
    PROVE  /\ NewRow(d, e).seq = d.seq + 1
           /\ NewRow(d, e).id = e
           /\ RowsOf(d.rows \cup {NewRow(d, e)}, CorrelationOf[e])
                = RowsOf(d.rows, CorrelationOf[e]) \cup {NewRow(d, e)}
           /\ Tops(RowsOf(d.rows \cup {NewRow(d, e)}, CorrelationOf[e]))
                = {NewRow(d, e)}
<1> DEFINE nr == NewRow(d, e)
<1> DEFINE c == CorrelationOf[e]
<1>1. nr.seq = d.seq + 1 /\ nr.id = e
  BY DEF NewRow
<1>2. RowsOf(d.rows \cup {nr}, c) = RowsOf(d.rows, c) \cup {nr}
  <2> HIDE DEF nr
  <2> QED BY <1>1 DEF RowsOf
<1>3. \A r \in d.rows : r.seq \in Nat /\ r.seq < nr.seq
  BY <1>1 DEF RowsOK
<1>4. nr.seq \in Nat
  BY <1>1 DEF RowsOK
<1>5. Tops(RowsOf(d.rows, c) \cup {nr}) = {nr}
  <2> HIDE DEF nr
  <2>1. RowsOf(d.rows, c) \subseteq d.rows
    BY DEF RowsOf
  <2>2. nr \in Tops(RowsOf(d.rows, c) \cup {nr})
    BY <1>3, <1>4, <2>1 DEF Tops
  <2>3. ASSUME NEW r \in Tops(RowsOf(d.rows, c) \cup {nr}) PROVE r = nr
    <3>1. nr.seq <= r.seq
      BY DEF Tops
    <3>2. CASE r \in d.rows
      BY <3>1, <3>2, <1>3, <1>4
    <3> QED BY <3>2, <2>1 DEF Tops
  <2> QED BY <2>2, <2>3
<1> QED BY <1>1, <1>2, <1>5

\* _insert_evidence_locked keeps rows, sequence and heads consistent.
LEMMA InsertOK ==
    ASSUME NEW d, DbOK(d), NEW e \in Events
    PROVE  DbOK(InsertEvidence(d, e))
<1> DEFINE nr == NewRow(d, e)
<1> DEFINE c == CorrelationOf[e]
<1> DEFINE d2 == InsertEvidence(d, e)
<1>1. d2.rows = d.rows \cup {nr} /\ d2.seq = d.seq + 1 /\ d2.results = d.results
      /\ d2.heads = UpsertHead(d.heads, nr)
  BY DEF InsertEvidence
<1>2. nr.seq = d.seq + 1 /\ nr.id = e
  BY FreshRowOnTop DEF DbOK
<1>3. RowsOK(d2)
  <2> HIDE DEF nr, d2
  <2>1. \A r \in d.rows : r.seq \in 1..d.seq
    BY DEF DbOK, RowsOK
  <2>2. d.seq \in Nat
    BY DEF DbOK, RowsOK
  <2>3. \A r \in d2.rows : r.seq \in 1..d2.seq /\ r.id \in Events
    BY <1>1, <1>2, <2>1, <2>2 DEF DbOK, RowsOK
  <2>4. \A r \in d.rows : r.seq # nr.seq
    BY <1>2, <2>1, <2>2
  <2>5. \A r, q \in d2.rows : r.seq = q.seq => r = q
    BY <1>1, <2>4 DEF DbOK, RowsOK
  <2> QED BY <1>1, <2>2, <2>3, <2>5 DEF DbOK, RowsOK
<1>4. d2.heads = RebuildHeads(d2.rows)
  <2>1. c \in Correlations
    BY StoreConstants
  <2>2. HeadOf(d2.rows, c) = [seq |-> nr.seq, hash |-> nr.hash]
    <3>1. Tops(RowsOf(d2.rows, c)) = {nr} /\ RowsOf(d2.rows, c) # {}
      BY <1>1, FreshRowOnTop DEF DbOK
    <3>2. (CHOOSE r \in Tops(RowsOf(d2.rows, c)) : TRUE) = nr
      BY <3>1
    <3> HIDE DEF nr, d2, c
    <3> QED BY <3>1, <3>2 DEF HeadOf
  <2>3. \A b \in Correlations \ {c} : HeadOf(d2.rows, b) = HeadOf(d.rows, b)
    <3> HIDE DEF nr, d2
    <3>1. \A b \in Correlations \ {c} : RowsOf(d2.rows, b) = RowsOf(d.rows, b)
      BY <1>1, <1>2 DEF RowsOf
    <3> QED BY <3>1 DEF HeadOf
  <2>4. d2.heads = [d.heads EXCEPT ![c] = [seq |-> nr.seq, hash |-> nr.hash]]
    BY <1>1, <1>2 DEF UpsertHead
  <2>5. d.heads = [b \in Correlations |-> HeadOf(d.rows, b)]
    BY DEF DbOK, RebuildHeads
  <2> HIDE DEF nr, d2, c
  <2> QED BY <2>1, <2>2, <2>3, <2>4, <2>5 DEF RebuildHeads
<1> QED BY <1>3, <1>4 DEF DbOK

\* A purge rebuilds the heads, so it keeps them consistent.
LEMMA RemoveOK ==
    ASSUME NEW d, DbOK(d), NEW gone
    PROVE  DbOK(RemoveRows(d, gone))
BY DEF DbOK, RowsOK, RemoveRows

\* Redaction keeps sequences and rebuilds the heads.
LEMMA RedactOK ==
    ASSUME NEW d, DbOK(d), NEW cutoff, NEW pattern
    PROVE  DbOK(RedactRows(d, cutoff, pattern))
<1> DEFINE d2 == RedactRows(d, cutoff, pattern)
<1>1. d2.rows = {RedactRow(r, cutoff, pattern) : r \in d.rows} /\ d2.seq = d.seq
      /\ d2.results = d.results /\ d2.heads = RebuildHeads(d2.rows)
  BY DEF RedactRows
<1>2. \A r \in d.rows : /\ RedactRow(r, cutoff, pattern).seq = r.seq
                        /\ RedactRow(r, cutoff, pattern).id = r.id
  BY DEF RedactRow
<1>3. RowsOK(d2)
  <2> HIDE DEF d2
  <2> QED BY <1>1, <1>2 DEF DbOK, RowsOK
<1> QED BY <1>1, <1>3 DEF DbOK

\* What a transaction other than retention's can make of a view d ...
Grows(d, d2) ==
    \/ d2 = d
    \/ d2 = TakeSequence(d)
    \/ \E e \in Events : d2 = InsertEvidence(d, e)
    \/ \E S : S \subseteq d.results \cup Invocations /\ d2 = WithResults(d, S)

\* ... and what retention can.
Shrinks(d, d2) ==
    \/ \E retain \in RetainCutoffs, redact \in RedactCutoffs, p \in Patterns :
          d2 = Retain(d, retain, redact, p)
    \/ \E before \in PurgeCutoffs, p \in Patterns : d2 = PurgeMatching(d, before, p)

\* Writing forward keeps a database consistent.
LEMMA GrowsOK ==
    ASSUME NEW d, DbOK(d), NEW d2, Grows(d, d2)
    PROVE  DbOK(d2)
<1>1. CASE d2 = d
  BY <1>1
<1>2. CASE d2 = TakeSequence(d)
  BY <1>2 DEF TakeSequence, DbOK, RowsOK
<1>3. CASE \E e \in Events : d2 = InsertEvidence(d, e)
  BY <1>3, InsertOK
<1>4. CASE \E S : S \subseteq d.results \cup Invocations /\ d2 = WithResults(d, S)
  BY <1>4 DEF WithResults, DbOK, RowsOK
<1> QED BY <1>1, <1>2, <1>3, <1>4 DEF Grows

\* Retention keeps a database consistent.
LEMMA ShrinksOK ==
    ASSUME NEW d, DbOK(d), NEW d2, Shrinks(d, d2)
    PROVE  DbOK(d2)
BY RemoveOK, RedactOK DEF Shrinks, Retain, PurgeExpired, PurgeMatching

-----------------------------------------------------------------------------
(***************************************************************************)
(* The inductive invariant                                                 *)
(***************************************************************************)
ControlOK ==
    /\ owner \in Conns \cup {NoConn}
    /\ batch \in Seq(Events)
    /\ batch # <<>> => owner \in Conns
    /\ owner = NoConn => pending = db
    /\ tx \in [Conns -> {"none", "begun", "pinned", "stale"}]
    /\ unrecorded \in [Conns -> SUBSET Invocations]

\* The open transaction holds the committed rows and later ones.
Ahead ==
    /\ db.rows \subseteq pending.rows
    /\ db.seq <= pending.seq
    /\ \A r \in pending.rows : r \in db.rows \/ r.seq > db.seq

IInv == DbOK(db) /\ DbOK(pending) /\ ControlOK /\ Ahead

\* The empty database satisfies the invariant.
LEMMA InitIInv == Init => IInv
<1> SUFFICES ASSUME Init PROVE IInv
  OBVIOUS
<1>1. DbOK(EmptyDb)
  BY DEF DbOK, RowsOK, EmptyDb, RebuildHeads, HeadOf, RowsOf
<1>2. ControlOK
  BY DEF Init, ControlOK
<1>3. Ahead
  BY <1>1 DEF Init, Ahead, EmptyDb
<1> QED BY <1>1, <1>2, <1>3 DEF Init, IInv

\* How a step other than retention moves the committed state and the open
\* transaction: it ends the transaction, or it leaves the committed state alone.
Moves ==
    \/ pending' = db' /\ \E d \in {db, pending} : Grows(d, db')
    \/ db' = db /\ \E d \in {db, pending} : Grows(d, pending')

\* A connection sees the committed state or its own transaction.
LEMMA ViewIsDbOrPending == \A w : View(w) \in {db, pending}
BY DEF View

\* A commit hands the lock back and types the connection states.
LEMMA CommitControl ==
    ASSUME ControlOK, NEW w \in Conns, NEW d, Commit(w, d),
           unrecorded' \in [Conns -> SUBSET Invocations]
    PROVE  ControlOK'
<1>1. tx' \in [Conns -> {"none", "begun", "pinned", "stale"}]
  BY DEF Commit, ControlOK
<1>2. owner' = NoConn /\ pending' = db' /\ batch' = <<>>
  BY DEF Commit
<1>3. batch' \in Seq(Events)
  BY <1>2
<1> QED BY <1>1, <1>2, <1>3 DEF ControlOK

\* A commit of a forward write moves the store forward.
LEMMA CommitMoves ==
    ASSUME ControlOK, NEW w \in Conns, NEW d, Grows(View(w), d), Commit(w, d),
           unrecorded' \in [Conns -> SUBSET Invocations]
    PROVE  Moves /\ ControlOK'
<1>1. Moves
  BY ViewIsDbOrPending DEF Commit, Moves
<1> QED BY <1>1, CommitControl

\* A roll-back returns to the committed state.
LEMMA RollbackMoves ==
    ASSUME ControlOK, NEW w \in Conns, Rollback(w),
           unrecorded' \in [Conns -> SUBSET Invocations]
    PROVE  Moves /\ ControlOK'
<1>1. Moves
  BY DEF Rollback, Moves, Grows
<1>2. batch' \in Seq(Events)
  BY DEF Rollback
<1> QED BY <1>1, <1>2 DEF Rollback, ControlOK

\* A transaction left open has only used up a sequence number.
LEMMA LeaveOpenMoves ==
    ASSUME ControlOK, NEW w \in Conns, NEW d \in {db, pending}, LeaveOpen(w, d),
           unrecorded' \in [Conns -> SUBSET Invocations]
    PROVE  Moves /\ ControlOK'
<1>1. Moves
  BY DEF LeaveOpen, Moves, Grows
<1>2. batch' \in Seq(Events)
  BY DEF LeaveOpen
<1> QED BY <1>1, <1>2, StoreConstants DEF LeaveOpen, ControlOK

\* append: insert, roll back or leave open.
LEMMA AppendMoves ==
    ASSUME IInv, NEW w \in Conns, NEW e \in Singles, AppendEvidence(w, e)
    PROVE  Moves /\ ControlOK'
<1>1. e \in Events /\ InvocationOf[e] \in Invocations /\ NoConn \notin Conns
  BY StoreConstants
<1>2. unrecorded' \in [Conns -> SUBSET Invocations]
  BY <1>1 DEF AppendEvidence, IInv, ControlOK
<1>3. CASE LeaveOpen(w, View(w))
  BY <1>1, <1>2, <1>3, LeaveOpenMoves, ViewIsDbOrPending DEF IInv, ControlOK
<1>4. CASE Rollback(w)
  BY <1>2, <1>4, RollbackMoves DEF IInv, ControlOK
<1>5. CASE Commit(w, InsertEvidence(View(w), e))
  <2>1. Grows(View(w), InsertEvidence(View(w), e))
    BY <1>1 DEF Grows
  <2> QED BY <2>1, <1>2, <1>5, CommitMoves DEF IInv, ControlOK
<1> QED BY <1>3, <1>4, <1>5 DEF AppendEvidence

\* append_many takes the lock without changing a row.
LEMMA BeginBatchMoves ==
    ASSUME IInv, NEW w \in Conns, NEW b \in Batches, BeginBatch(w, b)
    PROVE  Moves /\ ControlOK'
<1>1. b \in Seq(Events) /\ NoConn \notin Conns
  BY StoreConstants
<1>2. Moves
  BY ViewIsDbOrPending DEF BeginBatch, Moves, Grows
<1> QED BY <1>1, <1>2 DEF BeginBatch, IInv, ControlOK

\* Each insert of a batch moves the transaction forward.
LEMMA InsertNextMoves ==
    ASSUME IInv, InsertNext
    PROVE  Moves /\ ControlOK'
<1> DEFINE e == Head(batch)
<1>1. e \in Events /\ Tail(batch) \in Seq(Events) /\ owner \in Conns
  BY DEF InsertNext, IInv, ControlOK
<1>2. View(owner) = pending /\ UNCHANGED unrecorded /\ NoConn \notin Conns
  BY StoreConstants DEF View, InsertNext
<1>3. Grows(pending, InsertEvidence(pending, e))
  BY <1>1 DEF Grows
<1>4. CASE LeaveOpen(owner, pending)
  BY <1>1, <1>2, <1>4, LeaveOpenMoves DEF IInv, ControlOK
<1>5. CASE Rollback(owner)
  BY <1>1, <1>2, <1>5, RollbackMoves DEF IInv, ControlOK
<1>6. CASE Commit(owner, InsertEvidence(pending, e))
  BY <1>1, <1>2, <1>3, <1>6, CommitMoves DEF IInv, ControlOK
<1>7. CASE /\ pending' = InsertEvidence(pending, e)
           /\ batch' = Tail(batch)
           /\ UNCHANGED <<db, owner, tx>>
  <2>1. Moves
    BY <1>3, <1>7 DEF Moves, Grows
  <2> QED BY <2>1, <1>1, <1>2, <1>7 DEF IInv, ControlOK
<1> QED BY <1>4, <1>5, <1>6, <1>7 DEF InsertNext

\* Retention commits a database shrunk from the one it saw.
LEMMA RetentionMoves ==
    ASSUME IInv, NEW w \in Conns, Retention(w)
    PROVE  /\ pending' = db'
           /\ \E d \in {db, pending} : Shrinks(d, db')
           /\ ControlOK'
<1>1. PICK d : Shrinks(View(w), d) /\ Commit(w, d) /\ UNCHANGED unrecorded
  BY DEF Retention, ApplyRetention, Purge, Shrinks
<1> QED BY <1>1, CommitControl, ViewIsDbOrPending DEF Commit, IInv, ControlOK

\* The result cache is written without touching a row.
LEMMA ResultsMoves ==
    ASSUME IInv, NEW w \in Conns,
           \/ \E i \in Invocations : RecordResult(w, i)
           \/ \E gone \in SUBSET Invocations : DropResults(w, gone)
    PROVE  Moves /\ ControlOK'
<1>1. CASE \E i \in Invocations : RecordResult(w, i)
  <2>1. PICK i \in Invocations : RecordResult(w, i)
    BY <1>1
  <2>2. Grows(View(w), WithResults(View(w), View(w).results \cup {i}))
    BY DEF Grows
  <2> QED BY <2>1, <2>2, CommitMoves DEF RecordResult, IInv, ControlOK
<1>2. CASE \E gone \in SUBSET Invocations : DropResults(w, gone)
  <2>1. PICK gone \in SUBSET Invocations : DropResults(w, gone)
    BY <1>2
  <2>2. Grows(View(w), WithResults(View(w), View(w).results \ gone))
    BY DEF Grows
  <2> QED BY <2>1, <2>2, CommitMoves DEF DropResults, IInv, ControlOK
<1> QED BY <1>1, <1>2

\* Refused writes and reads change no table.
LEMMA ReadsMove ==
    ASSUME IInv, NEW w \in Conns, Refused(w) \/ Read(w) \/ ServeHead(w)
    PROVE  Moves /\ ControlOK'
<1>1. UNCHANGED <<db, owner, pending, batch>>
  BY DEF Refused, Read, ServeHead
<1>2. tx' \in [Conns -> {"none", "begun", "pinned", "stale"}]
  BY DEF Refused, Read, ServeHead, PinSnapshot, IInv, ControlOK
<1>3. unrecorded' \in [Conns -> SUBSET Invocations]
  BY DEF Refused, Read, ServeHead, IInv, ControlOK
<1> QED BY <1>1, <1>2, <1>3 DEF Moves, Grows, IInv, ControlOK

\* A backup commits what is pending, a crash drops it.
LEMMA BackupCrashMove ==
    ASSUME IInv, NEW w \in Conns, Backup(w) \/ Crash(w)
    PROVE  Moves /\ ControlOK'
<1>1. unrecorded' \in [Conns -> SUBSET Invocations]
  BY DEF Backup, Crash, IInv, ControlOK
<1>2. CASE owner = w /\ Backup(w)
  <2>1. Commit(w, pending) /\ Grows(View(w), pending)
    BY <1>2 DEF Backup, View, Grows
  <2> QED BY <1>1, <2>1, CommitMoves DEF IInv, ControlOK
<1>3. CASE owner = w /\ Crash(w)
  <2>1. Rollback(w)
    BY <1>3 DEF Crash
  <2> QED BY <1>1, <2>1, RollbackMoves DEF IInv, ControlOK
<1>4. CASE owner # w
  <2>1. UNCHANGED <<db, owner, pending, batch>> /\ tx' = [tx EXCEPT ![w] = "none"]
    BY <1>4 DEF Backup, Crash
  <2> QED BY <1>1, <2>1 DEF Moves, Grows, IInv, ControlOK
<1> QED BY <1>2, <1>3, <1>4

\* Every step moves the store forward or is retention.
LEMMA NextMoves ==
    ASSUME IInv, [Next]_vars
    PROVE  ControlOK' /\ (Moves \/ \E w \in Conns : Retention(w))
<1>1. CASE Next
  BY <1>1, AppendMoves, BeginBatchMoves, InsertNextMoves, RetentionMoves,
     ResultsMoves, ReadsMove, BackupCrashMove DEF Next
<1>2. CASE UNCHANGED vars
  BY <1>2 DEF vars, Moves, Grows, IInv, ControlOK
<1> QED BY <1>1, <1>2

\* What a forward write adds lies past the old sequence.
LEMMA GrowsAhead ==
    ASSUME NEW d, DbOK(d), NEW d2, Grows(d, d2)
    PROVE  /\ d.rows \subseteq d2.rows
           /\ d.seq <= d2.seq
           /\ \A r \in d2.rows : r \in d.rows \/ r.seq > d.seq
<1>1. CASE \E e \in Events : d2 = InsertEvidence(d, e)
  <2>1. PICK e \in Events : d2 = InsertEvidence(d, e)
    BY <1>1
  <2>2. NewRow(d, e).seq = d.seq + 1 /\ d.seq \in Nat
    BY DEF NewRow, DbOK, RowsOK
  <2> QED BY <2>1, <2>2 DEF InsertEvidence
<1> QED BY <1>1 DEF Grows, TakeSequence, WithResults, DbOK, RowsOK

\* Moving forward keeps both databases consistent and in order.
LEMMA MovesIInv ==
    ASSUME IInv, Moves
    PROVE  DbOK(db)' /\ DbOK(pending)' /\ Ahead'
<1>1. CASE pending' = db' /\ \E d \in {db, pending} : Grows(d, db')
  <2>1. DbOK(db')
    BY <1>1, GrowsOK DEF IInv
  <2> QED BY <1>1, <2>1 DEF Ahead, DbOK, RowsOK
<1>2. CASE db' = db /\ \E d \in {db, pending} : Grows(d, pending')
  <2>1. DbOK(db') /\ DbOK(pending')
    BY <1>2, GrowsOK DEF IInv
  <2>2. PICK d \in {db, pending} : Grows(d, pending')
    BY <1>2
  <2>3. /\ d.rows \subseteq pending'.rows
        /\ d.seq <= pending'.seq
        /\ \A r \in pending'.rows : r \in d.rows \/ r.seq > d.seq
    BY <2>2, GrowsAhead DEF IInv
  <2>4. /\ db.rows \subseteq d.rows
        /\ db.seq <= d.seq
        /\ \A r \in d.rows : r \in db.rows \/ r.seq > db.seq
        /\ db.seq \in Nat /\ d.seq \in Nat
    BY <2>2 DEF IInv, Ahead, DbOK, RowsOK
  <2>5. \A r \in pending'.rows : r.seq \in Nat
    BY <2>1 DEF DbOK, RowsOK
  <2>6. db.seq <= pending'.seq
    BY <2>1, <2>3, <2>4 DEF DbOK, RowsOK
  <2>7. \A r \in pending'.rows : r \in db.rows \/ r.seq > db.seq
    BY <2>3, <2>4, <2>5
  <2> QED BY <1>2, <2>1, <2>3, <2>4, <2>6, <2>7 DEF Ahead, DbOK
<1> QED BY <1>1, <1>2 DEF Moves

\* The invariant is inductive ...
LEMMA NextIInv == IInv /\ [Next]_vars => IInv'
<1> SUFFICES ASSUME IInv, [Next]_vars PROVE IInv'
  OBVIOUS
<1>1. CASE Moves
  BY <1>1, MovesIInv, NextMoves DEF IInv
<1>2. CASE \E w \in Conns : Retention(w)
  <2>1. pending' = db' /\ \E d \in {db, pending} : Shrinks(d, db')
    BY <1>2, RetentionMoves
  <2>2. DbOK(db')
    BY <2>1, ShrinksOK DEF IInv
  <2>3. Ahead'
    BY <2>1, <2>2 DEF Ahead, DbOK, RowsOK
  <2> QED BY <2>1, <2>2, <2>3, NextMoves DEF IInv
<1> QED BY <1>1, <1>2, NextMoves

\* ... and holds always.
LEMMA Invariance == Spec => []IInv
BY InitIInv, NextIInv, PTL DEF Spec

\* The tables, the write lock and the connection states keep their types.
THEOREM TypeCorrect == Spec => []TypeOK
<1>1. IInv => TypeOK
  BY DEF IInv, DbOK, RowsOK, ControlOK, TypeOK, TypeOKDb, RebuildHeads
<1> QED BY <1>1, Invariance, PTL

\* The heads cache and the raw events give the same leaves.
LEMMA PathsAgree ==
    ASSUME NEW d, DbOK(d), NEW n \in 0..d.seq
    PROVE  CachedLeaves(d, n) = FreshLeaves(d.rows, n)
<1>1. ASSUME NEW c \in Correlations, HeadOf(d.rows, c).seq <= n
      PROVE  HeadOf(d.rows, c) = HeadOf({r \in d.rows : r.seq <= n}, c)
  <2> DEFINE own == RowsOf(d.rows, c)
  <2>1. CASE own = {}
    <3>1. RowsOf({r \in d.rows : r.seq <= n}, c) = {}
      BY <2>1 DEF RowsOf
    <3> QED BY <2>1, <3>1 DEF HeadOf
  <2>2. CASE own # {}
    <3>1. \E r \in own : r \in Tops(own)
      BY <2>2, TopsExist DEF RowsOf, DbOK, RowsOK
    <3>2. PICK top : top = (CHOOSE r \in Tops(own) : TRUE) /\ top \in Tops(own)
      BY <3>1
    <3>3. top.seq <= n
      BY <1>1, <2>2, <3>2 DEF HeadOf
    <3>4. \A r \in own : r.seq \in Nat /\ r.seq <= top.seq /\ top.seq \in Nat
      BY <3>2 DEF Tops, RowsOf, DbOK, RowsOK
    <3>5. \A r \in own : r.seq <= n
      BY <3>3, <3>4 DEF DbOK, RowsOK
    <3>6. RowsOf({r \in d.rows : r.seq <= n}, c) = own
      BY <3>5 DEF RowsOf
    <3> QED BY <3>6 DEF HeadOf
  <2> QED BY <2>1, <2>2
<1>2. \A c \in Correlations : d.heads[c] = HeadOf(d.rows, c)
  BY DEF DbOK, RebuildHeads
<1> QED BY <1>1, <1>2 DEF CachedLeaves, FreshLeaves

\* The heads cache and the raw events give the same leaves for every sequence,
\* in the committed state and in the open transaction.
THEOREM HeadPathsAlwaysAgree == Spec => []HeadPathsAgree
<1>1. IInv => HeadPathsAgree
  BY PathsAgree DEF IInv, HeadPathsAgree
<1> QED BY <1>1, Invariance, PTL

\* No append, batch, roll-back, crash or cache operation changes the store head
\* as of a committed sequence, so a witness can recompute the head it signed.
THEOREM HeadsStayWitnessable == Spec => WitnessedHeadStable
<1> DEFINE Stable == \A n \in 0..db.seq : FreshLeaves(db'.rows, n) = FreshLeaves(db.rows, n)
<1>1. ASSUME IInv, Moves PROVE Stable
  <2>1. DbOK(db) /\ DbOK(db') /\ DbOK(pending)
    BY <1>1, MovesIInv DEF IInv, DbOK, RowsOK, RebuildHeads
  <2>2. /\ db.rows \subseteq db'.rows
        /\ \A r \in db'.rows : r \in db.rows \/ r.seq > db.seq
    <3>1. CASE db' = db
      BY <3>1
    <3>2. CASE pending' = db' /\ \E d \in {db, pending} : Grows(d, db')
      <4>1. PICK d \in {db, pending} : Grows(d, db')
        BY <3>2
      <4>2. /\ d.rows \subseteq db'.rows
            /\ \A r \in db'.rows : r \in d.rows \/ r.seq > d.seq
        BY <2>1, <4>1, GrowsAhead
      <4>3. /\ db.rows \subseteq d.rows
            /\ db.seq <= d.seq
            /\ \A r \in d.rows : r \in db.rows \/ r.seq > db.seq
            /\ db.seq \in Nat /\ d.seq \in Nat
        BY <1>1, <2>1 DEF IInv, Ahead, DbOK, RowsOK
      <4>4. \A r \in db'.rows : r.seq \in Nat
        BY <2>1 DEF DbOK, RowsOK
      <4> QED BY <4>2, <4>3, <4>4
    <3> QED BY <1>1, <3>1, <3>2 DEF Moves
  <2>3. ASSUME NEW n \in 0..db.seq
        PROVE  {r \in db'.rows : r.seq <= n} = {r \in db.rows : r.seq <= n}
    <3>1. \A r \in db'.rows : r.seq > db.seq => ~(r.seq <= n)
      BY <2>1 DEF DbOK, RowsOK
    <3> QED BY <2>2, <3>1
  <2> QED BY <2>3 DEF FreshLeaves
<1>2. IInv /\ [Next]_vars => [(\E w \in Conns : Retention(w)) \/ Stable]_vars
  BY <1>1, NextMoves
<1> HIDE DEF Stable
<1>3. []IInv /\ [][Next]_vars => [][(\E w \in Conns : Retention(w)) \/ Stable]_vars
  BY <1>2, PTL
<1>4. [][(\E w \in Conns : Retention(w)) \/ Stable]_vars
        => WitnessedHeadStable
  BY PTL DEF Stable, WitnessedHeadStable
<1> QED BY <1>3, <1>4, Invariance, PTL DEF Spec

-----------------------------------------------------------------------------
(***************************************************************************)
(* Chain integrity, for a deployment whose policies neither redact nor     *)
(* purge individual events                                                 *)
(***************************************************************************)
WholeCorrelationsOnly == RedactCutoffs \subseteq {0} /\ PurgeCutoffs = {}

\* Every row's hash commits to it, and links to the row before it.
ChainOK(rows) ==
    \A r \in rows : /\ r.hash = HashOf(r.id, r.body, r.prev)
                    /\ r.prev = ExpectedPrev(rows, r)

\* A content hash is never NULL.
LEMMA HashNotNil == \A id, body, prev : HashOf(id, body, prev) # Nil
BY DEF HashOf, Nil

\* A new row links to the last one of its correlation.
LEMMA InsertChainOK ==
    ASSUME NEW d, DbOK(d), ChainOK(d.rows), NEW e \in Events
    PROVE  ChainOK(InsertEvidence(d, e).rows)
<1> DEFINE nr == NewRow(d, e)
<1> DEFINE c == CorrelationOf[e]
<1> DEFINE rows2 == d.rows \cup {nr}
<1>1. nr.seq = d.seq + 1 /\ nr.id = e /\ nr.prev = LastHash(d.rows, c)
      /\ nr.hash = HashOf(nr.id, nr.body, nr.prev)
  BY DEF NewRow
<1>2. \A r \in d.rows : r.seq \in Nat /\ r.seq < nr.seq /\ nr.seq \in Nat
  BY <1>1 DEF DbOK, RowsOK
<1>3. ASSUME NEW r \in d.rows PROVE ExpectedPrev(rows2, r) = ExpectedPrev(d.rows, r)
  <2> HIDE DEF nr
  <2>1. HashedBefore(rows2, r) = HashedBefore(d.rows, r)
    BY <1>2 DEF RowsOf, HashedBefore
  <2> HIDE DEF rows2
  <2> QED BY <2>1 DEF ExpectedPrev
<1>4. ExpectedPrev(rows2, nr) = nr.prev
  <2>1. \A q \in d.rows : q.hash # Nil
    BY HashNotNil DEF ChainOK
  <2>2. HashedBefore(rows2, nr) = RowsOf(d.rows, c)
    <3>1. \A q \in RowsOf(rows2, c) : q.seq < nr.seq => q \in RowsOf(d.rows, c)
      <4> HIDE DEF nr
      <4>1. nr.seq \in Nat
        BY <1>1 DEF DbOK, RowsOK
      <4> QED BY <4>1 DEF RowsOf
    <3>2. \A q \in RowsOf(d.rows, c) :
             q \in RowsOf(rows2, c) /\ q.seq < nr.seq /\ q.hash # Nil
      <4> HIDE DEF nr
      <4> QED BY <1>2, <2>1 DEF RowsOf
    <3>3. CorrelationOf[nr.id] = c
      BY <1>1
    <3> HIDE DEF nr, rows2, c
    <3> QED BY <3>1, <3>2, <3>3 DEF HashedBefore
  <2> HIDE DEF nr, rows2, c
  <2> QED BY <1>1, <2>2 DEF ExpectedPrev, LastHash
<1>5. InsertEvidence(d, e).rows = rows2
  BY DEF InsertEvidence
<1> HIDE DEF nr
<1> QED BY <1>1, <1>3, <1>4, <1>5 DEF ChainOK

\* Removing whole correlations breaks no link.
LEMMA PurgeExpiredChainOK ==
    ASSUME NEW d, DbOK(d), ChainOK(d.rows), NEW cutoff, NEW p
    PROVE  ChainOK(PurgeExpired(d, cutoff, p).rows)
<1> DEFINE gone == {r \in d.rows : CorrelationOf[r.id] \in Expired(d.rows, cutoff, p)}
<1> DEFINE kept == d.rows \ gone
<1>1. PurgeExpired(d, cutoff, p).rows = kept
  BY DEF PurgeExpired, RemoveRows
<1>2. ASSUME NEW r \in kept PROVE ExpectedPrev(kept, r) = ExpectedPrev(d.rows, r)
  <2>1. RowsOf(kept, CorrelationOf[r.id]) = RowsOf(d.rows, CorrelationOf[r.id])
    BY DEF RowsOf
  <2> HIDE DEF kept
  <2> QED BY <2>1 DEF ExpectedPrev, HashedBefore
<1> HIDE DEF gone
<1> QED BY <1>1, <1>2 DEF ChainOK

\* Redaction that is disabled changes no row.
LEMMA RedactNothing ==
    ASSUME NEW d, DbOK(d), NEW p
    PROVE  RedactRows(d, 0, p).rows = d.rows
<1>1. \A r \in d.rows : ~ Matches(r, 0, p)
  BY StoreConstants DEF Matches, DbOK, RowsOK
<1>2. \A r \in d.rows : RedactRow(r, 0, p) = r
  BY <1>1 DEF RedactRow
<1> QED BY <1>2 DEF RedactRows

\* Retention of whole correlations keeps every chain intact.
LEMMA ShrinksChainOK ==
    ASSUME WholeCorrelationsOnly, NEW d, DbOK(d), ChainOK(d.rows), NEW d2, Shrinks(d, d2)
    PROVE  ChainOK(d2.rows)
<1>1. PICK retain \in RetainCutoffs, p \in Patterns : d2 = Retain(d, retain, 0, p)
  BY DEF Shrinks, WholeCorrelationsOnly
<1>2. DbOK(PurgeExpired(d, retain, p))
  BY RemoveOK DEF PurgeExpired
<1>3. d2.rows = PurgeExpired(d, retain, p).rows
  BY <1>1, <1>2, RedactNothing DEF Retain
<1> QED BY <1>3, PurgeExpiredChainOK

\* Writing forward keeps every chain intact.
LEMMA GrowsChainOK ==
    ASSUME NEW d, DbOK(d), ChainOK(d.rows), NEW d2, Grows(d, d2)
    PROVE  ChainOK(d2.rows)
BY InsertChainOK DEF Grows, TakeSequence, WithResults

Chained == ChainOK(db.rows) /\ ChainOK(pending.rows)

\* However connections interleave, fail or crash, verify_chain accepts every
\* correlation when retention only removes whole correlations.
THEOREM ChainAlwaysIntact ==
    ASSUME WholeCorrelationsOnly
    PROVE  Spec => []ChainIntact
<1>1. Init => Chained
  BY DEF Init, EmptyDb, Chained, ChainOK
<1>2. IInv /\ Chained /\ [Next]_vars => Chained'
  <2> SUFFICES ASSUME IInv, Chained, [Next]_vars PROVE Chained'
    OBVIOUS
  <2>1. CASE Moves
    <3>1. \A d \in {db, pending} : DbOK(d) /\ ChainOK(d.rows)
      BY DEF IInv, Chained
    <3> QED BY <2>1, <3>1, GrowsChainOK DEF Moves, Chained
  <2>2. CASE \E w \in Conns : Retention(w)
    <3>1. pending' = db' /\ \E d \in {db, pending} : Shrinks(d, db')
      BY <2>2, RetentionMoves
    <3> QED BY <3>1, ShrinksChainOK DEF IInv, Chained
  <2> QED BY <2>1, <2>2, NextMoves
<1>3. Chained => ChainIntact
  BY DEF Chained, ChainOK, ChainIntact, VerifyChain, Broken, RowsOf
<1> QED BY <1>1, <1>2, <1>3, Invariance, PTL DEF Spec

-----------------------------------------------------------------------------
(***************************************************************************)
(* Retention and the result cache                                          *)
(***************************************************************************)
\* A step that moves forward keeps the committed rows, and adds later ones.
LEMMA MovesKeepRows ==
    ASSUME IInv, Moves
    PROVE  /\ db.rows \subseteq db'.rows
           /\ \A r \in db'.rows : r \in db.rows \/ r.seq > db.seq
<1>1. DbOK(db) /\ DbOK(db') /\ DbOK(pending)
  BY MovesIInv DEF IInv, DbOK, RowsOK, RebuildHeads
<1>2. CASE db' = db
  BY <1>2
<1>3. CASE pending' = db' /\ \E d \in {db, pending} : Grows(d, db')
  <2>1. PICK d \in {db, pending} : Grows(d, db')
    BY <1>3
  <2>2. /\ d.rows \subseteq db'.rows
        /\ \A r \in db'.rows : r \in d.rows \/ r.seq > d.seq
    BY <1>1, <2>1, GrowsAhead
  <2>3. /\ db.rows \subseteq d.rows
        /\ db.seq <= d.seq
        /\ \A r \in d.rows : r \in db.rows \/ r.seq > db.seq
        /\ db.seq \in Nat /\ d.seq \in Nat
    BY <1>1 DEF IInv, Ahead, DbOK, RowsOK
  <2>4. \A r \in db'.rows : r.seq \in Nat
    BY <1>1 DEF DbOK, RowsOK
  <2> QED BY <2>2, <2>3, <2>4
<1> QED BY <1>2, <1>3 DEF Moves

\* Redaction changes no row's place and no row's event.
LEMMA RedactionKeepsIds ==
    ASSUME NEW r, NEW cutoff, NEW pattern
    PROVE  /\ RedactRow(r, cutoff, pattern).seq = r.seq
           /\ RedactRow(r, cutoff, pattern).id = r.id
BY DEF RedactRow

\* What retention removes, it removes from the result cache too.
LEMMA ShrinksCascade ==
    ASSUME NEW d, NEW d2, Shrinks(d, d2), NEW r \in d.rows,
           \A q \in d2.rows : InvocationOf[q.id] # InvocationOf[r.id]
    PROVE  InvocationOf[r.id] \notin d2.results
<1>1. ASSUME NEW gone, r \in gone
      PROVE  InvocationOf[r.id] \notin RemoveRows(d, gone).results
  BY <1>1 DEF RemoveRows
<1>2. ASSUME NEW retain, NEW redact, NEW p, d2 = Retain(d, retain, redact, p)
      PROVE  InvocationOf[r.id] \notin d2.results
  <2>1. PICK gone : PurgeExpired(d, retain, p) = RemoveRows(d, gone)
    BY DEF PurgeExpired
  <2>2. /\ d2.rows = {RedactRow(q, redact, p) : q \in d.rows \ gone}
        /\ d2.results = RemoveRows(d, gone).results
    BY <1>2, <2>1 DEF Retain, RedactRows, RemoveRows
  <2>3. r \in gone
    BY <2>2, RedactionKeepsIds
  <2> QED BY <1>1, <2>2, <2>3
<1>3. ASSUME NEW before, NEW p, d2 = PurgeMatching(d, before, p)
      PROVE  InvocationOf[r.id] \notin d2.results
  <2>1. PICK gone : d2 = RemoveRows(d, gone)
    BY <1>3 DEF PurgeMatching
  <2>2. d2.rows = d.rows \ gone
    BY <2>1 DEF RemoveRows
  <2> QED BY <1>1, <2>1, <2>2
<1> QED BY <1>2, <1>3 DEF Shrinks

\* A step that removes the last event of an invocation leaves no recorded result
\* of it, whichever connection retention runs on and whatever that connection had
\* left open.
THEOREM PurgesCascade == Spec => PurgeCascades
<1> DEFINE Cascade == \A i \in Invocations :
                         (/\ \E r \in db.rows : InvocationOf[r.id] = i
                          /\ \A r \in db'.rows : InvocationOf[r.id] # i)
                         => i \notin db'.results
<1>1. IInv /\ [Next]_vars => [Cascade]_vars
  <2> SUFFICES ASSUME IInv, [Next]_vars, NEW r \in db.rows,
                      \A q \in db'.rows : InvocationOf[q.id] # InvocationOf[r.id]
               PROVE  InvocationOf[r.id] \notin db'.results
    OBVIOUS
  <2>1. CASE Moves
    BY <2>1, MovesKeepRows
  <2>2. CASE \E w \in Conns : Retention(w)
    <3>1. PICK d \in {db, pending} : Shrinks(d, db')
      BY <2>2, RetentionMoves
    <3>2. r \in d.rows
      BY <3>1 DEF IInv, Ahead
    <3> QED BY <3>1, <3>2, ShrinksCascade
  <2> QED BY <2>1, <2>2, NextMoves
<1> HIDE DEF Cascade
<1>2. []IInv /\ [][Next]_vars => [][Cascade]_vars
  BY <1>1, PTL
<1>3. [][Cascade]_vars => PurgeCascades
  BY PTL DEF Cascade, PurgeCascades
<1> QED BY <1>2, <1>3, Invariance, PTL DEF Spec

-----------------------------------------------------------------------------
(***************************************************************************)
(* Transactions, for callers whose batches json.dumps accepts: append_many *)
(* leaves no half of a batch in an open transaction, which so holds        *)
(* nothing but a sequence number that was taken.                           *)
(***************************************************************************)
BatchesSerialize == Batches \subseteq Seq(Serializable)

BetweenBatches ==
    /\ batch \in Seq(Serializable)
    /\ batch = <<>> => pending.rows = db.rows

LEMMA InitBetween == Init => BetweenBatches
BY DEF Init, BetweenBatches

\* The view of a connection that may write is that of the committed rows.
LEMMA ViewIsCommitted ==
    ASSUME BetweenBatches, NEW w, owner = w => batch = <<>>
    PROVE  View(w).rows = db.rows
BY DEF View, BetweenBatches

LEMMA BetweenStays ==
    ASSUME BatchesSerialize, IInv, BetweenBatches, [Next]_vars
    PROVE  BetweenBatches'
<1>1. ASSUME NEW w, NEW d, Commit(w, d)
      PROVE  BetweenBatches'
  BY <1>1 DEF Commit, BetweenBatches
<1>2. ASSUME NEW w, Rollback(w)
      PROVE  BetweenBatches'
  BY <1>2 DEF Rollback, BetweenBatches
<1>3. ASSUME UNCHANGED <<db, owner, pending, batch>>
      PROVE  BetweenBatches'
  BY <1>3 DEF BetweenBatches
<1>4. ASSUME NEW w \in Conns, NEW e \in Singles, AppendEvidence(w, e)
      PROVE  BetweenBatches'
  <2>1. CASE LeaveOpen(w, View(w))
    <3>1. View(w).rows = db.rows
      BY <1>4, ViewIsCommitted DEF AppendEvidence, CanWrite
    <3>2. pending'.rows = db'.rows /\ batch' = <<>>
      BY <2>1, <3>1 DEF LeaveOpen, TakeSequence
    <3> QED BY <3>2 DEF BetweenBatches
  <2> QED BY <1>1, <1>2, <1>4, <2>1 DEF AppendEvidence
<1>5. ASSUME NEW w \in Conns, NEW b \in Batches, BeginBatch(w, b)
      PROVE  BetweenBatches'
  <2>1. b \in Seq(Serializable) /\ b # <<>> /\ batch' = b
    BY <1>5 DEF BatchesSerialize, BeginBatch
  <2> QED BY <2>1 DEF BetweenBatches
<1>6. ASSUME InsertNext
      PROVE  BetweenBatches'
  <2>1. batch # <<>> /\ batch \in Seq(Serializable)
    BY <1>6 DEF InsertNext, BetweenBatches
  <2>2. /\ Head(batch) \in Serializable
        /\ Tail(batch) \in Seq(Serializable)
    BY <2>1
  <2>3. Len(batch) > 1 => Tail(batch) # <<>>
    <3>1. Len(Tail(batch)) = Len(batch) - 1 /\ Len(batch) \in Nat
      BY <2>1, HeadTailProperties, LenProperties
    <3>2. Tail(batch) = <<>> => Len(Tail(batch)) = 0
      BY EmptySeq
    <3> QED BY <3>1, <3>2
  <2>4. CASE Len(batch) > 1 /\ batch' = Tail(batch)
    BY <2>2, <2>3, <2>4 DEF BetweenBatches
  <2>5. CASE ~(Len(batch) > 1 /\ batch' = Tail(batch))
    BY <1>1, <1>2, <1>6, <2>2, <2>5 DEF InsertNext
  <2> QED BY <2>4, <2>5
<1>7. ASSUME NEW w \in Conns, Retention(w)
      PROVE  BetweenBatches'
  BY <1>1, <1>7 DEF Retention, ApplyRetention, Purge
<1>8. ASSUME NEW w \in Conns, \/ \E i \in Invocations : RecordResult(w, i)
                              \/ \E gone \in SUBSET Invocations : DropResults(w, gone)
      PROVE  BetweenBatches'
  BY <1>1, <1>8 DEF RecordResult, DropResults
<1>9. ASSUME NEW w \in Conns, Refused(w) \/ Read(w) \/ ServeHead(w) \/ Backup(w) \/ Crash(w)
      PROVE  BetweenBatches'
  BY <1>1, <1>2, <1>3, <1>9 DEF Refused, Read, ServeHead, Backup, Crash
<1>10. CASE UNCHANGED vars
  BY <1>3, <1>10 DEF vars
<1> QED BY <1>4, <1>5, <1>6, <1>7, <1>8, <1>9, <1>10 DEF Next

\* A bounded set of numbers has a greatest one.
LEMMA GreatestExists ==
    ASSUME NEW n \in Nat, NEW S, S \subseteq 0..n, S # {}
    PROVE  \E m \in S : \A k \in S : k <= m
<1> DEFINE T == {n - m : m \in S}
<1>0. \A m \in S : m \in Nat /\ n - m \in Nat
  OBVIOUS
<1>1. T \subseteq Nat /\ T # {}
  BY <1>0
<1>2. PICK x \in T : \A y \in T : ~ (<<y, x>> \in OpToRel(<, Nat))
  <2> HIDE DEF T
  <2> QED BY <1>1, NatLessThanWellFounded, WFMin
<1>3. PICK m \in S : x = n - m
  OBVIOUS
<1>4. ASSUME NEW k \in S
      PROVE  k <= m
  <2>1. n - k \in T /\ n - k \in Nat /\ n - m \in Nat /\ k \in Nat /\ m \in Nat
    BY <1>0
  <2>2. \A a, b \in Nat : a < b => <<a, b>> \in OpToRel(<, Nat)
    BY DEF OpToRel
  <2>3. ~ (<<n - k, n - m>> \in OpToRel(<, Nat))
    BY <1>2, <1>3, <2>1
  <2>4. ~(n - k < n - m)
    BY <2>1, <2>2, <2>3
  <2> QED BY <2>1, <2>4
<1> QED BY <1>4

\* A head is that of a row, or none.
LEMMA HeadsBounded ==
    ASSUME NEW d, DbOK(d), NEW c \in Correlations
    PROVE  d.heads[c] = HeadOf(d.rows, c) /\ d.heads[c].seq \in 0..d.seq
<1>1. d.heads[c] = HeadOf(d.rows, c) /\ d.seq \in Nat
  BY DEF DbOK, RowsOK, RebuildHeads
<1>2. CASE RowsOf(d.rows, c) = {}
  BY <1>1, <1>2 DEF HeadOf, NoHead
<1>3. CASE RowsOf(d.rows, c) # {}
  <2>1. \E r \in RowsOf(d.rows, c) : r \in Tops(RowsOf(d.rows, c))
    BY <1>3, TopsExist DEF RowsOf, DbOK, RowsOK
  <2>2. PICK top : top = (CHOOSE r \in Tops(RowsOf(d.rows, c)) : TRUE)
                   /\ top \in Tops(RowsOf(d.rows, c))
    BY <2>1
  <2>3. top.seq \in 1..d.seq
    BY <2>2 DEF Tops, RowsOf, DbOK, RowsOK
  <2>4. HeadOf(d.rows, c).seq = top.seq
    BY <1>3, <2>2 DEF HeadOf
  <2> QED BY <1>1, <2>3, <2>4
<1> QED BY <1>2, <1>3

\* The sequence a store head is stamped with is that of a head.
LEMMA HeadSequenceBounded ==
    ASSUME NEW d, DbOK(d), Correlations # {}
    PROVE  /\ HeadSequence(d) \in 0..d.seq
           /\ \E c \in Correlations : d.heads[c].seq = HeadSequence(d)
<1> DEFINE S == {d.heads[c].seq : c \in Correlations}
<1>1. d.seq \in Nat
  BY DEF DbOK, RowsOK
<1>2. S \subseteq 0..d.seq /\ S # {}
  BY HeadsBounded
<1>3. PICK m \in S : \A k \in S : k <= m
  <2> HIDE DEF S
  <2> QED BY <1>1, <1>2, GreatestExists
<1>4. /\ m \in 0..d.seq
      /\ \E c \in Correlations : d.heads[c].seq = m
      /\ \A c \in Correlations : d.heads[c].seq <= m
  BY <1>2, <1>3
<1> QED BY <1>4 DEF HeadSequence

\* What was served is what the committed rows say, and of their past.
ServedInv ==
    \A s \in served : /\ s.at \in 0..db.seq \/ Correlations = {}
                      /\ FreshLeaves(db.rows, s.at) = s.leaves

\* The leaves as of a committed sequence stay when the store moves forward.
LEMMA MovesKeepLeaves ==
    ASSUME IInv, Moves, NEW n \in 0..db.seq
    PROVE  FreshLeaves(db'.rows, n) = FreshLeaves(db.rows, n)
<1>1. /\ db.rows \subseteq db'.rows
      /\ \A r \in db'.rows : r \in db.rows \/ r.seq > db.seq
  BY MovesKeepRows
<1>2. DbOK(db) /\ DbOK(db')
  BY MovesIInv DEF IInv, DbOK, RowsOK, RebuildHeads
<1>3. \A r \in db'.rows : r.seq > db.seq => ~(r.seq <= n)
  BY <1>2 DEF DbOK, RowsOK
<1>4. {r \in db'.rows : r.seq <= n} = {r \in db.rows : r.seq <= n}
  BY <1>1, <1>3
<1> QED BY <1>4 DEF FreshLeaves

LEMMA MovesForward ==
    ASSUME IInv, Moves
    PROVE  db.seq \in Nat /\ db'.seq \in Nat /\ db.seq <= db'.seq
<1>1. db.seq \in Nat /\ pending.seq \in Nat /\ db.seq <= pending.seq
  BY DEF IInv, DbOK, RowsOK, Ahead
<1>2. db'.seq \in Nat
  BY MovesIInv DEF DbOK, RowsOK
<1>3. CASE db' = db
  BY <1>1, <1>3
<1>4. CASE \E d \in {db, pending} : Grows(d, db')
  <2>1. PICK d \in {db, pending} : Grows(d, db')
    BY <1>4
  <2>2. d.seq <= db'.seq
    BY <2>1, GrowsAhead DEF IInv
  <2> QED BY <1>1, <1>2, <2>1, <2>2
<1> QED BY <1>3, <1>4 DEF Moves

\* A head that is served now tells what is committed now.
LEMMA ServedNow ==
    ASSUME IInv, BetweenBatches, NEW w \in Conns, owner = w => batch = <<>>,
           NEW d, d = View(w), NEW n, n = HeadSequence(d)
    PROVE  /\ n \in 0..db.seq \/ Correlations = {}
           /\ FreshLeaves(db.rows, n) = CachedLeaves(d, n)
<1>1. DbOK(d) /\ DbOK(db)
  BY ViewIsDbOrPending DEF IInv
<1>2. d.rows = db.rows
  BY ViewIsCommitted
<1>3. CASE Correlations = {}
  BY <1>3 DEF FreshLeaves, CachedLeaves
<1>4. CASE Correlations # {}
  <2>1. n \in 0..d.seq /\ \E c \in Correlations : d.heads[c].seq = n
    BY <1>1, <1>4, HeadSequenceBounded
  <2>2. PICK c \in Correlations : d.heads[c].seq = n
    BY <2>1
  <2>3. d.heads[c] = HeadOf(db.rows, c) /\ db.heads[c] = HeadOf(db.rows, c)
        /\ db.heads[c].seq \in 0..db.seq
    BY <1>1, <1>2, HeadsBounded
  <2>4. CachedLeaves(d, n) = FreshLeaves(d.rows, n)
    BY <1>1, <2>1, PathsAgree
  <2> QED BY <1>2, <2>2, <2>3, <2>4
<1> QED BY <1>3, <1>4

LEMMA ServedStays ==
    ASSUME IInv, BetweenBatches, ServedInv, [Next]_vars
    PROVE  ServedInv'
<1>1. CASE \E w \in Conns : Retention(w)
  BY <1>1 DEF Retention, ApplyRetention, Purge, ServedInv
<1>2. CASE Moves /\ UNCHANGED served
  <2> SUFFICES ASSUME NEW s \in served
               PROVE  /\ s.at \in 0..db'.seq \/ Correlations = {}
                      /\ FreshLeaves(db'.rows, s.at) = s.leaves
    BY <1>2 DEF ServedInv
  <2>1. /\ s.at \in 0..db.seq \/ Correlations = {}
        /\ FreshLeaves(db.rows, s.at) = s.leaves
    BY DEF ServedInv
  <2>2. CASE Correlations = {}
    BY <2>1, <2>2 DEF FreshLeaves
  <2>3. CASE s.at \in 0..db.seq
    BY <1>2, <2>1, <2>3, MovesForward, MovesKeepLeaves
  <2> QED BY <2>1, <2>2, <2>3
<1>3. CASE \E w \in Conns : ServeHead(w)
  <2>1. PICK w \in Conns : ServeHead(w)
    BY <1>3
  <2>2. PICK d : d = View(w)
    OBVIOUS
  <2>3. PICK n : n = HeadSequence(d)
    OBVIOUS
  <2>4. /\ served' = served \cup {[at |-> n, leaves |-> CachedLeaves(d, n)]}
        /\ owner = w => batch = <<>>
        /\ UNCHANGED db
    BY <2>1, <2>2, <2>3 DEF ServeHead
  <2>5. /\ n \in 0..db.seq \/ Correlations = {}
        /\ FreshLeaves(db.rows, n) = CachedLeaves(d, n)
    BY <2>2, <2>3, <2>4, ServedNow
  <2> QED BY <2>4, <2>5 DEF ServedInv
<1>4. UNCHANGED served \/ (\E w \in Conns : Retention(w)) \/ \E w \in Conns : ServeHead(w)
  BY DEF Next, vars, AppendEvidence, BeginBatch, InsertNext, RecordResult, DropResults, Refused,
         Read, Backup, Crash
<1> QED BY <1>1, <1>2, <1>3, <1>4, NextMoves

\* Every store head a witness was given is recomputed from the committed events at
\* any later time, until retention removes or redacts evidence.
THEOREM ServedStaysRecomputable ==
    ASSUME BatchesSerialize
    PROVE  Spec => []ServedRecomputable
<1>1. Init => BetweenBatches /\ ServedInv
  BY InitBetween DEF Init, ServedInv
<1>2. IInv /\ BetweenBatches /\ ServedInv /\ [Next]_vars => BetweenBatches' /\ ServedInv'
  BY BetweenStays, ServedStays
<1>3. ServedInv => ServedRecomputable
  BY DEF ServedInv, ServedRecomputable
<1> QED BY <1>1, <1>2, <1>3, Invariance, PTL DEF Spec

-----------------------------------------------------------------------------
(***************************************************************************)
(* append_many is one transaction                                          *)
(***************************************************************************)
\* No event is handed over in two ways: its id is new.
BatchesApart ==
    \A b \in Batches : /\ Elements(b) \cap Singles = {}
                       /\ \A a \in Batches : a # b => Elements(a) \cap Elements(b) = {}

FirstOf(b, k) == {b[i] : i \in 1..k}

\* The batch is what is left of b once the first k of its events are pending.
HalfWay(b, k) ==
    /\ k + 1 <= Len(b)
    /\ batch = SubSeq(b, k + 1, Len(b))
    /\ Ids(pending.rows) = Ids(db.rows) \cup FirstOf(b, k)
    /\ FirstOf(b, k) \cap Ids(db.rows) = {}

HalfInv == batch # <<>> => \E b \in Batches, k \in Nat : HalfWay(b, k)

LEMMA RestOfBatch ==
    ASSUME NEW b \in Seq(Events), NEW k \in Nat, k + 1 <= Len(b),
           NEW s, s = SubSeq(b, k + 1, Len(b))
    PROVE  /\ Head(s) = b[k + 1]
           /\ Tail(s) = SubSeq(b, (k + 1) + 1, Len(b))
           /\ Len(s) = Len(b) - k
           /\ Len(b) \in Nat
<1>1. PICK n \in Nat : n = Len(b)
  BY LenProperties
<1>2. PICK m \in 1..n : m = k + 1
  BY <1>1
<1>3. m \in 1..Len(b) /\ n \in m..Len(b)
  BY <1>1, <1>2
<1>4. /\ Head(SubSeq(b, m, n)) = b[m]
      /\ Tail(SubSeq(b, m, n)) = SubSeq(b, m + 1, n)
  BY <1>3, HeadTailOfSubSeq
<1>5. \A i \in m..n : b[i] \in Events
  BY <1>1, <1>2, ElementOfSeq
<1>6. Len(SubSeq(b, m, n)) = IF m <= n THEN n - m + 1 ELSE 0
  BY <1>5, SubSeqProperties
<1>7. n - m + 1 = n - k /\ m <= n
  BY <1>2
<1> QED BY <1>1, <1>2, <1>4, <1>6, <1>7

LEMMA FirstOfNext ==
    ASSUME NEW b, NEW k \in Nat
    PROVE  FirstOf(b, k + 1) = FirstOf(b, k) \cup {b[k + 1]}
<1>1. \A i \in 1..(k + 1) : i \in 1..k \/ i = k + 1
  OBVIOUS
<1>2. k + 1 \in 1..(k + 1) /\ \A i \in 1..k : i \in 1..(k + 1)
  OBVIOUS
<1> QED BY <1>1, <1>2 DEF FirstOf

LEMMA FirstOfAll ==
    ASSUME NEW b \in Seq(Events)
    PROVE  FirstOf(b, Len(b)) = Elements(b) /\ FirstOf(b, 0) = {}
<1>1. DOMAIN b = 1..Len(b)
  BY LenProperties
<1> QED BY <1>1 DEF FirstOf, Elements

\* An insert adds the event.
LEMMA InsertIds ==
    ASSUME NEW d, NEW e
    PROVE  Ids(InsertEvidence(d, e).rows) = Ids(d.rows) \cup {e}
<1>1. PICK r : r = NewRow(d, e)
  OBVIOUS
<1>2. r.id = e
  BY <1>1 DEF NewRow
<1>3. InsertEvidence(d, e).rows = d.rows \cup {r}
  BY <1>1 DEF InsertEvidence
<1> QED BY <1>2, <1>3 DEF Ids

\* Retention adds none.
LEMMA ShrinksIds ==
    ASSUME NEW d, NEW d2, Shrinks(d, d2)
    PROVE  Ids(d2.rows) \subseteq Ids(d.rows)
<1>1. ASSUME NEW retain, NEW redact, NEW p, d2 = Retain(d, retain, redact, p)
      PROVE  Ids(d2.rows) \subseteq Ids(d.rows)
  <2>1. PICK gone : PurgeExpired(d, retain, p) = RemoveRows(d, gone)
    BY DEF PurgeExpired
  <2>2. d2.rows = {RedactRow(q, redact, p) : q \in d.rows \ gone}
    BY <1>1, <2>1 DEF Retain, RedactRows, RemoveRows
  <2> QED BY <2>2, RedactionKeepsIds DEF Ids
<1>2. ASSUME NEW before, NEW p, d2 = PurgeMatching(d, before, p)
      PROVE  Ids(d2.rows) \subseteq Ids(d.rows)
  BY <1>2 DEF PurgeMatching, RemoveRows, Ids
<1> QED BY <1>1, <1>2 DEF Shrinks

\* What a step makes committed at once.
Committed == Ids(db'.rows) \ Ids(db.rows)

\* The steps of a batch: one event more is pending, or all of them are committed.
LEMMA BatchSteps ==
    ASSUME BatchesSerialize, IInv, BetweenBatches, HalfInv, InsertNext
    PROVE  HalfInv' /\ (Committed = {} \/ \E b \in Batches : Committed = Elements(b))
<1>1. PICK b \in Batches, k \in Nat : HalfWay(b, k)
  BY DEF HalfInv, InsertNext
<1>2. b \in Seq(Events) /\ Head(batch) \in Serializable
  BY StoreConstants DEF BetweenBatches, InsertNext
<1>3. /\ Head(batch) = b[k + 1]
      /\ Tail(batch) = SubSeq(b, (k + 1) + 1, Len(b))
      /\ Len(batch) = Len(b) - k
      /\ Len(b) \in Nat
  BY <1>1, <1>2, RestOfBatch DEF HalfWay
<1>4. \/ Rollback(owner)
      \/ /\ Head(batch) \notin Ids(pending.rows)
         /\ \/ /\ Len(batch) > 1
               /\ pending' = InsertEvidence(pending, Head(batch))
               /\ batch' = Tail(batch)
               /\ db' = db
            \/ /\ Len(batch) = 1
               /\ Commit(owner, InsertEvidence(pending, Head(batch)))
  BY <1>2, Zenon DEF InsertNext
<1>5. CASE Rollback(owner)
  BY <1>5 DEF Rollback, HalfInv, Committed
<1>6. CASE Head(batch) \notin Ids(pending.rows)
  <2>1. PICK d : d = InsertEvidence(pending, Head(batch))
    OBVIOUS
  <2>2. /\ Ids(d.rows) = Ids(pending.rows) \cup {Head(batch)}
        /\ FirstOf(b, k + 1) = FirstOf(b, k) \cup {b[k + 1]}
        /\ Ids(pending.rows) = Ids(db.rows) \cup FirstOf(b, k)
        /\ FirstOf(b, k) \cap Ids(db.rows) = {}
    BY <1>1, <2>1, InsertIds, FirstOfNext, Zenon DEF HalfWay
  <2>3. /\ Ids(d.rows) = Ids(db.rows) \cup FirstOf(b, k + 1)
        /\ FirstOf(b, k + 1) \cap Ids(db.rows) = {}
    <3>1. PICK x : x = Head(batch) /\ x = b[k + 1]
      BY <1>3
    <3> QED BY <1>6, <2>2, <3>1
  <2>4. CASE Len(batch) > 1 /\ pending' = d /\ batch' = Tail(batch) /\ db' = db
    <3>1. (k + 1) + 1 <= Len(b)
      BY <1>3, <2>4
    <3>2. HalfWay(b, k + 1)'
      BY <1>3, <2>3, <2>4, <3>1 DEF HalfWay
    <3>3. Committed = {}
      BY <2>4 DEF Committed
    <3> QED BY <3>2, <3>3 DEF HalfInv
  <2>5. CASE Len(batch) = 1 /\ Commit(owner, d)
    <3>1. db' = d /\ batch' = <<>>
      BY <2>5 DEF Commit
    <3>2. k + 1 = Len(b)
      <4>1. PICK n \in Nat : n = Len(b)
        BY <1>3
      <4>2. n - k = 1
        BY <1>3, <2>5, <4>1
      <4>3. k + 1 = n
        BY <4>2
      <4> QED BY <4>1, <4>3
    <3>3. FirstOf(b, k + 1) = Elements(b)
      BY <1>2, <3>2, FirstOfAll
    <3>4. Committed = Elements(b)
      BY <2>3, <3>1, <3>3 DEF Committed
    <3> QED BY <3>1, <3>4 DEF HalfInv
  <2> QED BY <1>4, <1>5, <2>1, <2>4, <2>5
<1> QED BY <1>4, <1>5, <1>6

\* The other steps commit one single event, or none.
LEMMA OtherSteps ==
    ASSUME BatchesSerialize, IInv, BetweenBatches, HalfInv, [Next]_vars, ~InsertNext
    PROVE  HalfInv' /\ (Committed = {} \/ \E e \in Singles : Committed = {e})
<1>1. ASSUME NEW w, NEW d, Commit(w, d), Ids(d.rows) \subseteq Ids(db.rows)
      PROVE  HalfInv' /\ Committed = {}
  BY <1>1 DEF Commit, HalfInv, Committed
<1>2. ASSUME NEW w, Rollback(w)
      PROVE  HalfInv' /\ Committed = {}
  BY <1>2 DEF Rollback, HalfInv, Committed
<1>3. ASSUME UNCHANGED <<db, pending, batch>>
      PROVE  HalfInv' /\ Committed = {}
  BY <1>3 DEF HalfInv, HalfWay, Committed
<1>4. ASSUME NEW w \in Conns, NEW e \in Singles, AppendEvidence(w, e)
      PROVE  HalfInv' /\ (Committed = {} \/ Committed = {e})
  <2>1. View(w).rows = db.rows
    BY <1>4, ViewIsCommitted DEF AppendEvidence, CanWrite
  <2>2. CASE Commit(w, InsertEvidence(View(w), e))
    <3>1. db' = InsertEvidence(View(w), e) /\ batch' = <<>>
      BY <2>2 DEF Commit
    <3>2. Ids(db'.rows) = Ids(db.rows) \cup {e}
      BY <2>1, <3>1, InsertIds
    <3> QED BY <3>1, <3>2 DEF HalfInv, Committed
  <2>3. CASE LeaveOpen(w, View(w))
    BY <2>3 DEF LeaveOpen, HalfInv, Committed
  <2> QED BY <1>2, <1>4, <2>2, <2>3 DEF AppendEvidence
<1>5. ASSUME NEW w \in Conns, NEW b \in Batches, BeginBatch(w, b)
      PROVE  HalfInv' /\ Committed = {}
  <2>1. View(w).rows = db.rows
    BY <1>5, ViewIsCommitted DEF BeginBatch, CanWrite
  <2>2. /\ pending' = View(w) /\ batch' = b /\ b # <<>> /\ UNCHANGED db
        /\ b \in Seq(Events)
    BY <1>5, StoreConstants DEF BeginBatch
  <2>3. Len(b) \in Nat /\ 0 + 1 <= Len(b) /\ SubSeq(b, 1, Len(b)) = b
    BY <2>2, EmptySeq, SubSeqFull
  <2>4. HalfWay(b, 0)'
    BY <2>1, <2>2, <2>3, FirstOfAll DEF HalfWay
  <2> QED BY <2>2, <2>4 DEF HalfInv, Committed
<1>6. ASSUME NEW w \in Conns, Retention(w)
      PROVE  HalfInv' /\ Committed = {}
  <2>1. PICK d : Shrinks(View(w), d) /\ Commit(w, d)
    BY <1>6 DEF Retention, ApplyRetention, Purge, Shrinks
  <2>2. View(w).rows = db.rows
    BY <1>6, ViewIsCommitted DEF Retention, ApplyRetention, Purge, CanWrite
  <2>3. Ids(d.rows) \subseteq Ids(db.rows)
    BY <2>1, <2>2, ShrinksIds
  <2> QED BY <1>1, <2>1, <2>3
<1>7. ASSUME NEW w \in Conns, \/ \E i \in Invocations : RecordResult(w, i)
                              \/ \E gone \in SUBSET Invocations : DropResults(w, gone)
      PROVE  HalfInv' /\ Committed = {}
  <2>1. PICK S : Commit(w, WithResults(View(w), S))
    BY <1>7 DEF RecordResult, DropResults
  <2>2. View(w).rows = db.rows
    BY <1>7, ViewIsCommitted DEF RecordResult, DropResults, CanWrite
  <2>3. Ids(WithResults(View(w), S).rows) \subseteq Ids(db.rows)
    BY <2>2 DEF WithResults
  <2> QED BY <1>1, <2>1, <2>3
<1>8. ASSUME NEW w \in Conns, Refused(w) \/ Read(w) \/ ServeHead(w)
      PROVE  HalfInv' /\ Committed = {}
  BY <1>3, <1>8 DEF Refused, Read, ServeHead
<1>9. ASSUME NEW w \in Conns, Backup(w) \/ Crash(w)
      PROVE  HalfInv' /\ Committed = {}
  <2>1. CASE Commit(w, pending) /\ batch = <<>>
    BY <1>1, <2>1 DEF BetweenBatches
  <2> QED BY <1>2, <1>3, <1>9, <2>1 DEF Backup, Crash
<1>10. CASE UNCHANGED vars
  BY <1>3, <1>10 DEF vars
<1> QED BY <1>4, <1>5, <1>6, <1>7, <1>8, <1>9, <1>10 DEF Next

\* A step that commits one event of a batch commits the whole batch, whatever
\* other connections write, wherever the process dies.
THEOREM BatchesAtomic ==
    ASSUME BatchesSerialize, BatchesApart
    PROVE  Spec => BatchAtomic
<1> DEFINE Atomic == \A b \in Batches :
                        (Ids(db'.rows) \ Ids(db.rows)) \cap Elements(b) \in {{}, Elements(b)}
           Inv == IInv /\ BetweenBatches /\ HalfInv
<1>1. Init => BetweenBatches /\ HalfInv
  BY InitBetween DEF Init, HalfInv
<1>2. Inv /\ [Next]_vars => Inv'
  BY NextIInv, BetweenStays, BatchSteps, OtherSteps
<1>3. Inv /\ [Next]_vars => [Atomic]_vars
  <2> SUFFICES ASSUME Inv, [Next]_vars, NEW b \in Batches
               PROVE  Committed \cap Elements(b) \in {{}, Elements(b)}
    BY DEF Committed
  <2>1. CASE InsertNext
    <3>1. Committed = {} \/ \E a \in Batches : Committed = Elements(a)
      BY <2>1, BatchSteps
    <3> QED BY <3>1 DEF BatchesApart
  <2>2. CASE ~InsertNext
    <3>1. Committed = {} \/ \E e \in Singles : Committed = {e}
      BY <2>2, OtherSteps
    <3> QED BY <3>1 DEF BatchesApart
  <2> QED BY <2>1, <2>2
<1>4. Init => Inv
  BY <1>1, InitIInv
<1> HIDE DEF Atomic, Inv
<1>5. Spec => []Inv
  BY <1>2, <1>4, PTL DEF Spec
<1>6. []Inv /\ [][Next]_vars => [][Atomic]_vars
  BY <1>3, PTL
<1>7. [][Atomic]_vars => BatchAtomic
  BY PTL DEF Atomic, BatchAtomic
<1> QED BY <1>5, <1>6, <1>7, PTL DEF Spec

-----------------------------------------------------------------------------
(***************************************************************************)
(* The ledger: ranks number the rows of a correlation without a gap        *)
(***************************************************************************)
Numbered(rows) ==
    /\ IsFiniteSet(rows)
    /\ \A r \in rows : r.seq \in Nat /\ r.id \in Events
    /\ \A r, q \in rows : r.seq = q.seq => r = q

UpTo(rows, r) == {q \in rows : q.seq <= r.seq}

LEMMA RowsNumbered ==
    ASSUME NEW d, RowsOK(d), NEW rows, rows \subseteq d.rows
    PROVE  Numbered(rows)
<1>1. PICK n \in Nat : n = d.seq
  BY DEF RowsOK
<1>2. PICK f : f = [r \in rows |-> r.seq]
  OBVIOUS
<1>3. f \in [rows -> 1..n]
  BY <1>1, <1>2 DEF RowsOK
<1>4. \A r, q \in rows : f[r] = f[q] => r = q
  BY <1>2 DEF RowsOK
<1>5. f \in Injection(rows, 1..n)
  BY <1>3, <1>4 DEF Injection, IsInjective
<1>6. IsFiniteSet(1..n)
  BY FS_Interval
<1>7. IsFiniteSet(rows)
  BY <1>5, <1>6, FS_Injection
<1> QED BY <1>1, <1>7 DEF RowsOK, Numbered

LEMMA RankBounds ==
    ASSUME NEW rows, Numbered(rows), NEW r \in rows
    PROVE  Rank(rows, r) \in 1..Cardinality(rows) /\ Cardinality(rows) \in Nat
<1>1. UpTo(rows, r) \subseteq rows /\ r \in UpTo(rows, r)
  BY DEF UpTo, Numbered
<1>2. IsFiniteSet(UpTo(rows, r)) /\ Cardinality(UpTo(rows, r)) <= Cardinality(rows)
  BY <1>1, FS_Subset DEF Numbered
<1>3. Cardinality(UpTo(rows, r)) \in Nat /\ Cardinality(rows) \in Nat
  BY <1>2, FS_CardinalityType DEF Numbered
<1>4. Cardinality(UpTo(rows, r)) # 0
  BY <1>1, <1>2, FS_EmptySet
<1>5. Rank(rows, r) = Cardinality(UpTo(rows, r))
  BY DEF Rank, UpTo
<1> QED BY <1>2, <1>3, <1>4, <1>5

LEMMA RankApart ==
    ASSUME NEW rows, Numbered(rows), NEW r \in rows, NEW q \in rows,
           Rank(rows, r) = Rank(rows, q)
    PROVE  r = q
<1>1. ASSUME NEW a \in rows, NEW b \in rows, a.seq <= b.seq, Rank(rows, a) = Rank(rows, b)
      PROVE  a = b
  <2>1. UpTo(rows, a) \subseteq UpTo(rows, b)
    BY <1>1 DEF UpTo, Numbered
  <2>2. IsFiniteSet(UpTo(rows, b))
    BY FS_Subset DEF UpTo, Numbered
  <2>3. Cardinality(UpTo(rows, a)) = Cardinality(UpTo(rows, b))
    BY <1>1 DEF Rank, UpTo
  <2>4. UpTo(rows, b) = UpTo(rows, a)
    BY <2>1, <2>2, <2>3, FS_Subset
  <2>5. b \in UpTo(rows, b)
    BY DEF UpTo, Numbered
  <2>6. b.seq <= a.seq
    BY <2>4, <2>5 DEF UpTo
  <2>7. a.seq = b.seq
    BY <1>1, <2>6 DEF Numbered
  <2> QED BY <2>7 DEF Numbered
<1>2. r.seq <= q.seq \/ q.seq <= r.seq
  BY DEF Numbered
<1> QED BY <1>1, <1>2

LEMMA RankOnto ==
    ASSUME NEW rows, Numbered(rows), NEW i \in 1..Cardinality(rows)
    PROVE  \E r \in rows : Rank(rows, r) = i
<1>1. PICK n \in Nat : n = Cardinality(rows)
  BY FS_CardinalityType DEF Numbered
<1>2. PICK f : f = [r \in rows |-> Rank(rows, r)]
  OBVIOUS
<1>3. f \in [rows -> 1..n]
  BY <1>1, <1>2, RankBounds
<1>4. \A r, q \in rows : f[r] = f[q] => r = q
  BY <1>2, RankApart
<1>5. f \in Injection(rows, 1..n)
  BY <1>3, <1>4 DEF Injection, IsInjective
<1>6. IsFiniteSet(1..n) /\ Cardinality(1..n) = n
  BY FS_Interval
<1>7. f \in Surjection(rows, 1..n)
  BY <1>1, <1>5, <1>6, FS_Injection
<1>8. \E r \in rows : f[r] = i
  BY <1>1, <1>7 DEF Surjection
<1> QED BY <1>2, <1>8

\* The log holds each row's event at the row's rank, and nothing else.
LEMMA LogProperties ==
    ASSUME NEW rows, Numbered(rows)
    PROVE  /\ LogOf(rows) \in Seq(Events)
           /\ Len(LogOf(rows)) = Cardinality(rows)
           /\ DOMAIN LogOf(rows) = 1..Cardinality(rows)
           /\ \A r \in rows : LogOf(rows)[Rank(rows, r)] = r.id
<1>1. PICK n \in Nat : n = Cardinality(rows)
  BY FS_CardinalityType DEF Numbered
<1>2. ASSUME NEW r \in rows
      PROVE  (CHOOSE q \in rows : Rank(rows, q) = Rank(rows, r)) = r
  BY RankApart
<1>3. PICK s : s = LogOf(rows)
  OBVIOUS
<1>4. s = [i \in 1..n |-> (CHOOSE r \in rows : Rank(rows, r) = i).id]
  BY <1>1, <1>3 DEF LogOf
<1>5. ASSUME NEW r \in rows PROVE s[Rank(rows, r)] = r.id
  BY <1>1, <1>2, <1>4, RankBounds
<1>6. ASSUME NEW i \in 1..n PROVE s[i] \in Events
  <2>1. PICK r \in rows : Rank(rows, r) = i
    BY <1>1, RankOnto
  <2> QED BY <1>5, <2>1 DEF Numbered
<1>7. s \in [1..n -> Events]
  BY <1>4, <1>6
<1>8. s \in Seq(Events) /\ Len(s) = n /\ DOMAIN s = 1..n
  BY <1>7, SeqDef, LenProperties
<1> QED BY <1>1, <1>3, <1>5, <1>8

\* Rows that come after all there are extend the log at its end.
LEMMA LogGrows ==
    ASSUME NEW old, NEW new, Numbered(new), old \subseteq new,
           \A r \in new : r \in old \/ \A q \in old : q.seq < r.seq
    PROVE  L!Prefix(LogOf(old), LogOf(new))
<1>1. Numbered(old) /\ Cardinality(old) <= Cardinality(new)
  BY FS_Subset DEF Numbered
<1>2. ASSUME NEW r \in old PROVE Rank(new, r) = Rank(old, r)
  <2>1. \A q \in new : q.seq <= r.seq => q \in old
    BY DEF Numbered
  <2>2. {q \in new : q.seq <= r.seq} = {q \in old : q.seq <= r.seq}
    BY <2>1
  <2> QED BY <2>2 DEF Rank
<1>3. ASSUME NEW i \in DOMAIN LogOf(old) PROVE LogOf(old)[i] = LogOf(new)[i]
  <2>1. PICK r \in old : Rank(old, r) = i
    BY <1>1, LogProperties, RankOnto
  <2> QED BY <1>1, <1>2, <2>1, LogProperties
<1>4. Len(LogOf(old)) <= Len(LogOf(new))
  BY <1>1, LogProperties
<1> QED BY <1>3, <1>4 DEF L!Prefix

Unique(rows) == \A r, q \in rows : r.id = q.id => r = q

LEMMA LogUnique ==
    ASSUME NEW rows, Numbered(rows), Unique(rows)
    PROVE  L!NoRepeats(LogOf(rows))
<1> SUFFICES ASSUME NEW i \in DOMAIN LogOf(rows), NEW j \in DOMAIN LogOf(rows),
                    LogOf(rows)[i] = LogOf(rows)[j]
             PROVE  i = j
  BY DEF L!NoRepeats
<1>1. PICK r \in rows : Rank(rows, r) = i
  BY LogProperties, RankOnto
<1>2. PICK q \in rows : Rank(rows, q) = j
  BY LogProperties, RankOnto
<1>3. r.id = q.id
  BY <1>1, <1>2, LogProperties
<1> QED BY <1>1, <1>2, <1>3 DEF Unique

\* Redaction leaves the log alone.
LEMMA LogRedacted ==
    ASSUME NEW rows, Numbered(rows), NEW cutoff, NEW p,
           NEW img, img = {RedactRow(r, cutoff, p) : r \in rows}
    PROVE  LogOf(img) = LogOf(rows)
<1>1. PICK f : f = [r \in rows |-> RedactRow(r, cutoff, p)]
  OBVIOUS
<1>2. \A r \in rows : f[r] \in img /\ f[r].seq = r.seq /\ f[r].id = r.id
  BY <1>1, RedactionKeepsIds
<1>3. \A x \in img : \E r \in rows : x = f[r]
  BY <1>1
<1>4. ASSUME NEW S, S \subseteq rows
      PROVE  LET T == {f[r] : r \in S} IN IsFiniteSet(T) /\ Cardinality(T) = Cardinality(S)
  <2>1. PICK T : T = {f[r] : r \in S}
    OBVIOUS
  <2>2. PICK g : g = [r \in S |-> f[r]]
    OBVIOUS
  <2>3. g \in [S -> T] /\ \A x \in T : \E r \in S : g[r] = x
    BY <2>1, <2>2
  <2>4. \A r, q \in S : g[r] = g[q] => r = q
    BY <1>2, <1>4, <2>2 DEF Numbered
  <2>5. g \in Injection(S, T) /\ g \in Surjection(S, T)
    BY <2>3, <2>4 DEF Injection, IsInjective, Surjection
  <2>6. ExistsBijection(S, T)
    BY <2>5 DEF ExistsBijection, Bijection
  <2>7. IsFiniteSet(S)
    BY <1>4, FS_Subset DEF Numbered
  <2>8. IsFiniteSet(T) /\ Cardinality(T) = Cardinality(S)
    BY <2>6, <2>7, FS_Bijection
  <2> QED BY <2>1, <2>8
<1>5. img = {f[r] : r \in rows}
  BY <1>1
<1>6. IsFiniteSet(img) /\ Cardinality(img) = Cardinality(rows)
  BY <1>4, <1>5
<1>7. Numbered(img)
  <2>1. ASSUME NEW x \in img PROVE x.seq \in Nat /\ x.id \in Events
    <3>1. PICK r \in rows : x = f[r]
      BY <1>3
    <3> QED BY <1>2, <3>1 DEF Numbered
  <2>2. ASSUME NEW x \in img, NEW y \in img, x.seq = y.seq PROVE x = y
    <3>1. PICK r \in rows : x = f[r]
      BY <1>3
    <3>2. PICK q \in rows : y = f[q]
      BY <1>3
    <3>3. r.seq = q.seq
      BY <1>2, <2>2, <3>1, <3>2
    <3>4. r = q
      BY <3>3 DEF Numbered
    <3> QED BY <3>1, <3>2, <3>4
  <2> QED BY <1>6, <2>1, <2>2 DEF Numbered
<1>8. ASSUME NEW r \in rows PROVE Rank(img, f[r]) = Rank(rows, r)
  <2>1. {x \in img : x.seq <= f[r].seq} = {f[q] : q \in {z \in rows : z.seq <= r.seq}}
    <3>1. ASSUME NEW x \in img, x.seq <= f[r].seq
          PROVE  \E q \in rows : q.seq <= r.seq /\ x = f[q]
      <4>1. PICK q \in rows : x = f[q]
        BY <1>3
      <4> QED BY <1>2, <3>1, <4>1
    <3>2. ASSUME NEW q \in rows, q.seq <= r.seq
          PROVE  f[q] \in img /\ f[q].seq <= f[r].seq
      BY <1>2, <3>2
    <3> QED BY <3>1, <3>2
  <2>2. {z \in rows : z.seq <= r.seq} \subseteq rows
    OBVIOUS
  <2>3. Cardinality({f[q] : q \in {z \in rows : z.seq <= r.seq}})
          = Cardinality({z \in rows : z.seq <= r.seq})
    BY <1>4, <2>2
  <2> QED BY <2>1, <2>3 DEF Rank
<1>9. PICK s \in Seq(Events) : s = LogOf(rows)
  BY LogProperties
<1>10. PICK t \in Seq(Events) : t = LogOf(img)
  BY <1>7, LogProperties
<1>11. Len(s) = Len(t) /\ DOMAIN s = 1..Cardinality(rows)
  BY <1>6, <1>7, <1>9, <1>10, LogProperties
<1>12. ASSUME NEW i \in 1..Len(s) PROVE s[i] = t[i]
  <2>1. PICK r \in rows : Rank(rows, r) = i
    BY <1>9, LogProperties, RankOnto
  <2>2. s[i] = r.id
    BY <1>9, <2>1, LogProperties
  <2>3. f[r] \in img /\ Rank(img, f[r]) = i /\ f[r].id = r.id
    BY <1>2, <1>8, <2>1
  <2>4. t[i] = r.id
    BY <1>7, <1>10, <2>3, LogProperties
  <2> QED BY <2>2, <2>4
<1>13. s = t
  BY <1>11, <1>12, SeqEqual
<1> QED BY <1>9, <1>10, <1>13

-----------------------------------------------------------------------------
\* event_id is unique in the committed state and in the open transaction.
UniqueIds == Unique(db.rows) /\ Unique(pending.rows)

LEMMA InsertUnique ==
    ASSUME NEW d, Unique(d.rows), NEW e, e \notin Ids(d.rows)
    PROVE  Unique(InsertEvidence(d, e).rows)
<1>1. PICK n : n = NewRow(d, e)
  OBVIOUS
<1>2. n.id = e
  BY <1>1 DEF NewRow
<1>3. InsertEvidence(d, e).rows = d.rows \cup {n}
  BY <1>1 DEF InsertEvidence
<1>4. \A r \in d.rows : r.id # e
  BY DEF Ids
<1> QED BY <1>2, <1>3, <1>4 DEF Unique

LEMMA ShrinksUnique ==
    ASSUME NEW d, Unique(d.rows), NEW d2, Shrinks(d, d2)
    PROVE  Unique(d2.rows)
<1>1. ASSUME NEW retain, NEW redact, NEW p, d2 = Retain(d, retain, redact, p)
      PROVE  Unique(d2.rows)
  <2>1. PICK gone : PurgeExpired(d, retain, p) = RemoveRows(d, gone)
    BY DEF PurgeExpired
  <2>2. d2.rows = {RedactRow(q, redact, p) : q \in d.rows \ gone}
    BY <1>1, <2>1 DEF Retain, RedactRows, RemoveRows
  <2> QED BY <2>2, RedactionKeepsIds DEF Unique
<1>2. ASSUME NEW before, NEW p, d2 = PurgeMatching(d, before, p)
      PROVE  Unique(d2.rows)
  BY <1>2 DEF PurgeMatching, RemoveRows, Unique
<1> QED BY <1>1, <1>2 DEF Shrinks

LEMMA UniqueStays ==
    ASSUME UniqueIds, [Next]_vars
    PROVE  UniqueIds'
<1>0. \A w : Unique(View(w).rows)
  BY DEF View, UniqueIds
<1>1. ASSUME NEW w, NEW d, Commit(w, d), Unique(d.rows)
      PROVE  UniqueIds'
  BY <1>1 DEF Commit, UniqueIds
<1>2. ASSUME NEW w, Rollback(w)
      PROVE  UniqueIds'
  BY <1>2 DEF Rollback, UniqueIds
<1>3. ASSUME UNCHANGED <<db, pending>>
      PROVE  UniqueIds'
  BY <1>3 DEF UniqueIds
<1>4. ASSUME NEW w, NEW d \in {pending, View(w)}, LeaveOpen(w, d)
      PROVE  UniqueIds'
  BY <1>0, <1>4 DEF LeaveOpen, TakeSequence, UniqueIds
<1>5. ASSUME NEW w \in Conns, NEW e \in Singles, AppendEvidence(w, e)
      PROVE  UniqueIds'
  <2>1. CASE e \notin Ids(View(w).rows) /\ Commit(w, InsertEvidence(View(w), e))
    BY <1>0, <1>1, <2>1, InsertUnique
  <2> QED BY <1>2, <1>4, <1>5, <2>1 DEF AppendEvidence
<1>6. ASSUME NEW w \in Conns, NEW b \in Batches, BeginBatch(w, b)
      PROVE  UniqueIds'
  BY <1>0, <1>6 DEF BeginBatch, UniqueIds
<1>7. ASSUME InsertNext
      PROVE  UniqueIds'
  <2>1. \/ LeaveOpen(owner, pending)
        \/ Rollback(owner)
        \/ /\ Head(batch) \notin Ids(pending.rows)
           /\ \/ pending' = InsertEvidence(pending, Head(batch)) /\ db' = db
              \/ Commit(owner, InsertEvidence(pending, Head(batch)))
    BY <1>7, Zenon DEF InsertNext
  <2>2. CASE Head(batch) \notin Ids(pending.rows)
    BY <1>1, <1>2, <1>4, <2>1, <2>2, InsertUnique DEF UniqueIds
  <2> QED BY <1>2, <1>4, <2>1, <2>2
<1>8. ASSUME NEW w \in Conns, Retention(w)
      PROVE  UniqueIds'
  <2>1. PICK d : Shrinks(View(w), d) /\ Commit(w, d)
    BY <1>8 DEF Retention, ApplyRetention, Purge, Shrinks
  <2> QED BY <1>0, <1>1, <2>1, ShrinksUnique
<1>9. ASSUME NEW w \in Conns, \/ \E i \in Invocations : RecordResult(w, i)
                              \/ \E gone \in SUBSET Invocations : DropResults(w, gone)
      PROVE  UniqueIds'
  <2>1. PICK S : Commit(w, WithResults(View(w), S))
    BY <1>9 DEF RecordResult, DropResults
  <2>2. Unique(WithResults(View(w), S).rows)
    BY <1>0 DEF WithResults
  <2> QED BY <1>1, <2>1, <2>2
<1>10. ASSUME NEW w \in Conns, Refused(w) \/ Read(w) \/ ServeHead(w)
      PROVE  UniqueIds'
  BY <1>3, <1>10 DEF Refused, Read, ServeHead
<1>11. ASSUME NEW w \in Conns, Backup(w) \/ Crash(w)
      PROVE  UniqueIds'
  BY <1>1, <1>2, <1>3, <1>11 DEF Backup, Crash, UniqueIds
<1>12. CASE UNCHANGED vars
  BY <1>3, <1>12 DEF vars
<1> QED BY <1>5, <1>6, <1>7, <1>8, <1>9, <1>10, <1>11, <1>12 DEF Next

\* A step that moves forward extends logs.
LEMMA MovesExtend ==
    ASSUME IInv, Moves, Unique(db'.rows)
    PROVE  L!Extend
<1>1. DbOK(db) /\ DbOK(db')
  BY MovesIInv DEF IInv, DbOK, RowsOK, RebuildHeads
<1>2. /\ db.rows \subseteq db'.rows
      /\ \A r \in db'.rows : r \in db.rows \/ r.seq > db.seq
  BY MovesKeepRows
<1>3. ASSUME NEW c \in Correlations
      PROVE  /\ L!Prefix(LogOf(RowsOf(db.rows, c)), LogOf(RowsOf(db'.rows, c)))
             /\ L!NoRepeats(LogOf(RowsOf(db'.rows, c)))
  <2>1. PICK old : old = RowsOf(db.rows, c)
    OBVIOUS
  <2>2. PICK new : new = RowsOf(db'.rows, c)
    OBVIOUS
  <2>3. old \subseteq db.rows /\ new \subseteq db'.rows /\ old \subseteq new
    BY <1>2, <2>1, <2>2 DEF RowsOf
  <2>4. Numbered(new) /\ Unique(new)
    BY <1>1, <2>3, RowsNumbered DEF DbOK, Unique
  <2>5. \A r \in new : r \in db.rows => r \in old
    BY <2>1, <2>2 DEF RowsOf
  <2>6. ASSUME NEW r \in new, r \notin old PROVE \A q \in old : q.seq < r.seq
    <3>1. r.seq > db.seq /\ r.seq \in Nat /\ db.seq \in Nat
      BY <1>1, <1>2, <2>3, <2>5, <2>6 DEF DbOK, RowsOK
    <3>2. \A q \in old : q.seq \in Nat /\ q.seq <= db.seq
      BY <1>1, <2>3 DEF DbOK, RowsOK
    <3> QED BY <3>1, <3>2
  <2> QED BY <2>1, <2>2, <2>3, <2>4, <2>6, LogGrows, LogUnique
<1> QED BY <1>3 DEF L!Extend

\* Retention of whole correlations forgets logs.
LEMMA RetentionForgets ==
    ASSUME PurgeCutoffs = {}, IInv, BetweenBatches, NEW w \in Conns, Retention(w)
    PROVE  L!Forget
<1>1. PICK retain \in RetainCutoffs, redact \in RedactCutoffs, p \in Patterns :
         Commit(w, Retain(View(w), retain, redact, p))
  BY DEF Retention, ApplyRetention, Purge
<1>2. View(w).rows = db.rows
  BY ViewIsCommitted DEF Retention, ApplyRetention, Purge, CanWrite
<1>3. PICK gone : gone = Expired(db.rows, retain, p)
  OBVIOUS
<1>4. gone \subseteq Correlations
  BY <1>3 DEF Expired
<1>5. db'.rows = {RedactRow(r, redact, p) :
                     r \in {q \in db.rows : CorrelationOf[q.id] \notin gone}}
  <2>1. db'.rows = {RedactRow(r, redact, p) : r \in PurgeExpired(View(w), retain, p).rows}
    BY <1>1 DEF Commit, Retain, RedactRows
  <2>2. PurgeExpired(View(w), retain, p).rows
          = {q \in db.rows : CorrelationOf[q.id] \notin gone}
    BY <1>2, <1>3 DEF PurgeExpired, RemoveRows
  <2> QED BY <2>1, <2>2
<1>6. ASSUME NEW c \in gone PROVE LogOf(RowsOf(db'.rows, c)) = <<>>
  <2>1. RowsOf(db'.rows, c) = {}
    BY <1>5, RedactionKeepsIds DEF RowsOf
  <2>2. Numbered({}) /\ Cardinality({}) = 0
    BY FS_EmptySet DEF Numbered
  <2>3. LogOf({}) \in Seq(Events) /\ Len(LogOf({})) = 0
    BY <2>2, LogProperties
  <2> QED BY <2>1, <2>3, EmptySeq
<1>7. ASSUME NEW c \in Correlations \ gone
      PROVE  LogOf(RowsOf(db'.rows, c)) = LogOf(RowsOf(db.rows, c))
  <2>1. PICK old : old = RowsOf(db.rows, c)
    OBVIOUS
  <2>2. PICK new : new = RowsOf(db'.rows, c)
    OBVIOUS
  <2>3. old \subseteq db.rows
    BY <2>1 DEF RowsOf
  <2>4. Numbered(old)
    BY <2>3, RowsNumbered DEF IInv, DbOK
  <2>5. new = {RedactRow(r, redact, p) : r \in old}
    BY <1>5, <1>7, <2>1, <2>2, RedactionKeepsIds DEF RowsOf
  <2> QED BY <2>1, <2>2, <2>4, <2>5, LogRedacted
<1> QED BY <1>4, <1>6, <1>7 DEF L!Forget

\* Whatever the connections do, the committed events of every correlation are a
\* ledger: a log that grows only at its end, without repeats, and is forgotten
\* only as a whole.
THEOREM StoreImplementsLedger ==
    ASSUME BatchesSerialize, PurgeCutoffs = {}
    PROVE  Spec => ImplementsLedger
<1> DEFINE Inv == IInv /\ BetweenBatches /\ UniqueIds
<1>1. Init => Inv
  BY InitIInv, InitBetween DEF Init, EmptyDb, UniqueIds, Unique
<1>2. Inv /\ [Next]_vars => Inv'
  BY NextIInv, BetweenStays, UniqueStays
<1>3. Init => L!Init
  <2>1. \A c \in Correlations : RowsOf(EmptyDb.rows, c) = {}
    BY DEF EmptyDb, RowsOf
  <2>2. Numbered({}) /\ Cardinality({}) = 0
    BY FS_EmptySet DEF Numbered
  <2>3. LogOf({}) = <<>>
    BY <2>2, LogProperties, EmptySeq
  <2> QED BY <2>1, <2>3 DEF Init, L!Init
<1>4. Inv /\ [Next]_vars => L!Next
  <2> SUFFICES ASSUME Inv, [Next]_vars PROVE L!Next
    OBVIOUS
  <2>1. CASE Moves
    <3>1. UniqueIds'
      BY <1>2
    <3> QED BY <2>1, <3>1, MovesExtend DEF L!Next, UniqueIds
  <2>2. CASE \E w \in Conns : Retention(w)
    BY <2>2, RetentionForgets DEF L!Next
  <2> QED BY <2>1, <2>2, NextMoves
<1> HIDE DEF Inv
<1>5. Spec => []Inv
  BY <1>1, <1>2, PTL DEF Spec
<1>6. Spec => L!Init /\ [][L!Next]_([c \in Correlations |-> LogOf(RowsOf(db.rows, c))])
  BY <1>3, <1>4, <1>5, PTL DEF Spec
<1> QED BY <1>6, PTL DEF ImplementsLedger, L!Spec
=============================================================================
