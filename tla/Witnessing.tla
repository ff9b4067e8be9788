----------------------------- MODULE Witnessing -----------------------------
(***************************************************************************)
(* Witnessing of a host's evidence (chp_core/witnessing.py,                *)
(* chp_core/revocations.py, chp_host/witness.py and the routes of          *)
(* chp_core/http.py they meet in): peers countersign the store head, the   *)
(* host keeps the receipts in sidecar files, a notary anchors the head     *)
(* outside the mesh, and auditors hold the store to what was signed.       *)
(*                                                                         *)
(* The store is its rows: event n, of one correlation, whose content hash  *)
(* is <<n, version>> or NULL once redacted.  Beside the host's appends and *)
(* retention there is the operator the receipts exist for, who edits the   *)
(* database and chains it anew.  Each sidecar file is read, changed and    *)
(* written back without a lock; write_text truncates before it writes, and *)
(* a file that does not parse reads as empty.                              *)
(***************************************************************************)
EXTENDS Merkle, FiniteSets, FiniteSetsExt

CONSTANTS
    Correlations, \* numbered in the order of their names
    Witnesses,    \* the peers that countersign heads
    Notaries,     \* the external anchors
    Posters,      \* clients that post a mandate revocation, one each
    MaxSequence,  \* bound on the global sequence
    MaxReceipts,  \* bound on the receipts held
    MaxAnchors,   \* bound on the anchors signed
    MaxDeeds      \* bound on purges, redactions and the operator's edits

ASSUME WitnessingConstants ==
    /\ Correlations \subseteq Nat
    /\ MaxSequence \in Nat
    /\ MaxReceipts \in Nat
    /\ MaxAnchors \in Nat
    /\ MaxDeeds \in Nat

\* An exchange is a client of its own: nobody is a witness and posts a revocation
\* in the same one.
ASSUME OneExchangeEach ==
    Witnesses \cap Notaries = {} /\ Witnesses \cap Posters = {} /\ Notaries \cap Posters = {}

VARIABLES
    rows,     \* evidence_events: sequence number -> [correlation, hash]
    seq,      \* the last sequence number given out
    files,    \* received.json, anchors.json and mandates.json
    hand,     \* what each client's exchange is doing
    anchors,  \* the anchors the notaries have signed, which the monitors hold
    accepted, \* history: revocations the host has answered "accepted"
    deeds     \* history: what retention and the operator did to old events

vars == <<rows, seq, files, hand, anchors, accepted, deeds>>
store == <<rows, seq>>

Clients == Witnesses \cup Notaries \cup Posters
FileOf(w) == CASE w \in Witnesses -> "received"
               [] w \in Notaries -> "anchors"
               [] w \in Posters -> "mandates"

Null == <<0, 0>>
Idle == [stage |-> "idle"]

(***************************************************************************)
(* get_store_head                                                          *)
(***************************************************************************)
UpTo(n) == {m \in DOMAIN rows : m <= n}
Of(c) == {m \in DOMAIN rows : rows[m].correlation = c}
HeadSequence == IF DOMAIN rows = {} THEN 0 ELSE Max(DOMAIN rows)

\* The head of every correlation as of sequence n.
LeavesAt(n) ==
    [c \in {rows[m].correlation : m \in UpTo(n)} |->
        rows[Max(Of(c) \cap UpTo(n))].hash]

-----------------------------------------------------------------------------
Init ==
    /\ rows = [n \in {} |-> Null]
    /\ seq = 0
    /\ files = [f \in {"received", "anchors", "mandates"} |-> {}]
    /\ hand = [w \in Clients |-> Idle]
    /\ anchors = {}
    /\ accepted = {}
    /\ deeds = {}

(***************************************************************************)
(* The store: appends, whole-correlation purges, redaction.                *)
(***************************************************************************)
Beside == <<files, hand, anchors, accepted>>

AppendEvent(c) ==
    /\ seq < MaxSequence
    /\ seq' = seq + 1
    /\ rows' = [n \in DOMAIN rows \cup {seq + 1} |->
                   IF n = seq + 1 THEN [correlation |-> c, hash |-> <<n, 0>>] ELSE rows[n]]
    /\ UNCHANGED <<Beside, deeds>>

Deed(c, n, by) ==
    /\ Cardinality(deeds) < MaxDeeds
    /\ deeds' = deeds \cup
        {[correlation |-> c, from |-> n, by |-> by, after |-> Cardinality(deeds)]}

Purge(c) ==
    /\ Of(c) # {}
    /\ rows' = [n \in DOMAIN rows \ Of(c) |-> rows[n]]
    /\ Deed(c, Min(Of(c)), "purge")
    /\ UNCHANGED <<Beside, seq>>

Hashed(c, n) == {m \in Of(c) \cap UpTo(n) : rows[m].hash # Null}

\* Every event of c up to n loses its hash.
Redact(c, n) ==
    /\ Hashed(c, n) # {}
    /\ rows' = [m \in DOMAIN rows |->
                   IF m \in Hashed(c, n) THEN [rows[m] EXCEPT !.hash = Null] ELSE rows[m]]
    /\ Deed(c, Min(Hashed(c, n)), "redaction")
    /\ UNCHANGED <<Beside, seq>>

(***************************************************************************)
(* The operator, who edits the database and hashes what follows anew.      *)
(***************************************************************************)
\* A content that was never there.
Fresh(n) == <<n, Cardinality(deeds) + 1>>

\* The rows of c from n on, chained to something else than before.
Rechained(c, n) ==
    [m \in DOMAIN rows |->
        IF m \in Of(c) /\ m >= n /\ rows[m].hash # Null
        THEN [rows[m] EXCEPT !.hash = Fresh(m)] ELSE rows[m]]

Forge(c, n) ==
    /\ Deed(c, n, "operator")
    /\ UNCHANGED <<Beside, seq>>

EditEvent(c, n) ==
    /\ n \in Of(c)
    /\ rows[n].hash # Null
    /\ rows' = Rechained(c, n)
    /\ Forge(c, n)

DropTail(c, n) ==
    /\ n \in Of(c)
    /\ \E m \in Of(c) : m < n
    /\ rows' = [m \in DOMAIN rows \ {k \in Of(c) : k >= n} |-> rows[m]]
    /\ Forge(c, n)

InsertEvent(c, n) ==
    /\ n \in 1..seq \ DOMAIN rows
    /\ rows' = [m \in DOMAIN rows \cup {n} |->
                   IF m = n THEN [correlation |-> c, hash |-> Fresh(n)] ELSE Rechained(c, n)[m]]
    /\ Forge(c, n)

(***************************************************************************)
(* Exchanges: GET /head, sign, POST; and POST /revocations.                *)
(***************************************************************************)
Hold(w, what) == hand' = [hand EXCEPT ![w] = what]

\* witness_peer: the head is fetched and signed.
SignHead(w) ==
    /\ w \in Witnesses
    /\ hand[w] = Idle
    /\ Cardinality(files["received"]) < MaxReceipts
    /\ LET statement == [by |-> w, sequence |-> HeadSequence,
                         head |-> Root("v1", LeavesAt(HeadSequence)),
                         revocations |-> files["mandates"]]
       IN  Hold(w, [stage |-> "signed", statement |-> statement])
    /\ UNCHANGED <<store, files, anchors, accepted, deeds>>

\* A notary signs the head of the scheme it has asked for; `taken` numbers the
\* anchors, and `leaves` and `before` are history.
SignAnchor(w, scheme) ==
    /\ w \in Notaries
    /\ hand[w] = Idle
    /\ Cardinality(anchors) < MaxAnchors
    /\ LET anchor == [sequence |-> HeadSequence, scheme |-> scheme,
                      head |-> Root(scheme, LeavesAt(HeadSequence)),
                      taken |-> Cardinality(anchors),
                      leaves |-> LeavesAt(HeadSequence), before |-> deeds]
       IN  /\ anchors' = anchors \cup {anchor}
           /\ Hold(w, [stage |-> "signed", statement |-> anchor])
    /\ UNCHANGED <<store, files, accepted, deeds>>

SignRevocation(w) ==
    /\ w \in Posters
    /\ hand[w] = Idle
    /\ w \notin accepted
    /\ Hold(w, [stage |-> "signed", statement |-> w])
    /\ UNCHANGED <<store, files, anchors, accepted, deeds>>

\* What _receive_witness, _receive_anchor and _receive_revocation check: heads
\* against the default scheme's, whatever scheme the statement names.
Matches(w, s) ==
    CASE w \in Witnesses -> /\ s.head = Root("v1", LeavesAt(s.sequence))
                            /\ s.revocations = files["mandates"]
      [] w \in Notaries -> s.head = Root("v1", LeavesAt(s.sequence))
      [] w \in Posters -> TRUE

\* What they add to the file; `before` is history.
Record(w, s) ==
    IF w \in Witnesses
    THEN [statement |-> s, leaves |-> LeavesAt(s.sequence),
          revocations |-> files["mandates"], before |-> deeds]
    ELSE s

\* The server thread has checked the statement and read the file.
Receive(w) ==
    /\ hand[w].stage = "signed"
    /\ IF Matches(w, hand[w].statement)
       THEN Hold(w, [stage |-> "loaded", file |-> files[FileOf(w)],
                     record |-> Record(w, hand[w].statement)])
       ELSE Hold(w, Idle)
    /\ UNCHANGED <<store, files, anchors, accepted, deeds>>

\* The delivery fails: best effort, nothing is retried.
Miss(w) ==
    /\ hand[w].stage = "signed"
    /\ Hold(w, Idle)
    /\ UNCHANGED <<store, files, anchors, accepted, deeds>>

Truncate(w) ==
    /\ hand[w].stage = "loaded"
    /\ files' = [files EXCEPT ![FileOf(w)] = {}]
    /\ Hold(w, [hand[w] EXCEPT !.stage = "writing"])
    /\ UNCHANGED <<store, anchors, accepted, deeds>>

WriteBack(w) ==
    /\ hand[w].stage = "writing"
    /\ files' = [files EXCEPT ![FileOf(w)] = hand[w].file \cup {hand[w].record}]
    /\ accepted' = IF w \in Posters THEN accepted \cup {hand[w].record} ELSE accepted
    /\ Hold(w, Idle)
    /\ UNCHANGED <<store, anchors, deeds>>

-----------------------------------------------------------------------------
Storing ==
    \E c \in Correlations :
        \/ AppendEvent(c)
        \/ Purge(c)
        \/ \E n \in Of(c) : Redact(c, n)

Operating ==
    \E c \in Correlations, n \in 1..seq :
        \/ EditEvent(c, n)
        \/ DropTail(c, n)
        \/ InsertEvent(c, n)

Exchanging ==
    \E w \in Clients :
        \/ SignHead(w)
        \/ \E scheme \in {"v1", "v2"} : SignAnchor(w, scheme)
        \/ SignRevocation(w)
        \/ Receive(w)
        \/ Miss(w)
        \/ Truncate(w)
        \/ WriteBack(w)

Next == Storing \/ Operating \/ Exchanging

Spec == Init /\ [][Next]_vars

(***************************************************************************)
(* Audits                                                                  *)
(***************************************************************************)
\* Mutant of Disposition: a head that is NULL now is judged like any other.
DispositionOfNull(r, current, c) ==
    IF c \notin DOMAIN r.leaves THEN "tampered"
    ELSE IF c \notin DOMAIN current THEN "purged"
    ELSE IF current[c] = r.leaves[c] THEN "verified" ELSE "tampered"

\* verify_receipt_against_store, one correlation.
Disposition(r, current, c) ==
    CASE c \notin DOMAIN r.leaves -> "tampered"
      [] c \in DOMAIN r.leaves /\ c \notin DOMAIN current -> "purged"
      [] OTHER -> IF current[c] = Null /\ r.leaves[c] # Null THEN "redacted"
                  ELSE IF current[c] = r.leaves[c] THEN "verified" ELSE "tampered"

\* The snapshot recomputes to the signed root under one of the two schemes.
SnapshotValid(r) == r.statement.head \in {FoldedRoot(r.leaves), TreeRoot(r.leaves)}

ReceiptVerdict(r) ==
    LET current == LeavesAt(r.statement.sequence)
    IN  IF ~SnapshotValid(r) THEN "snapshot_invalid"
        ELSE IF \E c \in DOMAIN r.leaves \cup DOMAIN current :
                    Disposition(r, current, c) = "tampered"
             THEN "tampered" ELSE "intact"

\* Mutant of FirstDivergence: the heads are compared from the second anchor on.
DivergenceAfterFirst ==
    {a \in anchors : /\ Root(a.scheme, LeavesAt(a.sequence)) # a.head
                     /\ \E b \in anchors : b.sequence < a.sequence}

\* monitor_anchor_history: the anchors the live store no longer reproduces
\* (the report names the first of them, and none means "consistent").
FirstDivergence ==
    {a \in anchors : Root(a.scheme, LeavesAt(a.sequence)) # a.head}

\* monitor_anchor_history_remote, which takes v2 anchors only: neighbours in
\* the order of their sequences, each pair proved by the host.
Precedes(a, b) ==
    \/ a.sequence < b.sequence
    \/ a.sequence = b.sequence /\ a.taken < b.taken

Consecutive ==
    LET provable == {a \in anchors : a.scheme = "v2"}
    IN  {p \in provable \X provable :
            /\ Precedes(p[1], p[2])
            /\ ~\E b \in provable : Precedes(p[1], b) /\ Precedes(b, p[2])}

Proved(p) ==
    VerifyHeadConsistency(p[1].head, p[2].head,
        HeadConsistency(LeavesAt(p[1].sequence), LeavesAt(p[2].sequence)))

RemoteForks == {p \in Consecutive : ~Proved(p)}

\* audit_completeness, over the receipts whose snapshot is valid and has c.
Covering(b, receipts) ==
    {r \in receipts : SnapshotValid(r) /\ b.correlation \in DOMAIN r.leaves}

Moved(b, receipts) ==
    {r \in receipts : /\ r.statement.sequence >= b.asOf
                      /\ r.leaves[b.correlation] # b.head}

Confirmed(b, receipts) ==
    {r \in receipts : /\ r.statement.sequence >= b.asOf
                      /\ r.leaves[b.correlation] = b.head}

CompletenessVerdict(b, receipts) ==
    CASE \E r \in receipts : ~SnapshotValid(r) -> "snapshot_invalid"
      [] OTHER -> IF Moved(b, Covering(b, receipts)) # {} THEN "incomplete"
                  ELSE IF Confirmed(b, Covering(b, receipts)) # {} THEN "complete"
                  ELSE "unwitnessed"

\* audit_completeness_via_anchor, with the proof GET /head/inclusion served
\* when the anchor was taken.
AnchorVerdict(b, a, proof) ==
    IF ~VerifyHeadInclusion(a.head, b.correlation, proof.headHash, proof) THEN "proof_invalid"
    ELSE IF a.sequence < b.asOf THEN "unwitnessed"
    ELSE IF proof.headHash = b.head THEN "complete" ELSE "incomplete"

(***************************************************************************)
(* Properties                                                              *)
(***************************************************************************)
TypeOK ==
    /\ DOMAIN rows \subseteq 1..seq
    /\ seq \in 0..MaxSequence
    /\ \A n \in DOMAIN rows :
          /\ rows[n].correlation \in Correlations
          /\ rows[n].hash \in {Null} \cup {<<n, v>> : v \in 0..MaxDeeds}
    /\ files["mandates"] \subseteq Posters
    /\ \A w \in Clients : hand[w].stage \in {"idle", "signed", "loaded", "writing"}

Since(r, by) == {d \in deeds \ r.before : d.by = by}

\* "Witnessing must not brand lifecycle operations as attacks": a receipt is
\* judged tampered only if the operator touched something at or below its
\* sequence after it was accepted, whatever was appended, purged, redacted,
\* posted and lost in between.
NeverFalselyTampered ==
    \A r \in files["received"] :
        ReceiptVerdict(r) # "intact" =>
            \E d \in Since(r, "operator") : d.from <= r.statement.sequence

\* Where retention has not removed or nulled the head of a rewritten correlation.
Visible(d, n) == /\ d.from <= n
                 /\ d.correlation \in DOMAIN LeavesAt(n)
                 /\ LeavesAt(n)[d.correlation] # Null

\* An event put in above the signed head and taken out again: none is above it.
Undone(d, n, signed) ==
    LET c == d.correlation
    IN  /\ c \in DOMAIN signed
        /\ d.from > signed[c][1]
        /\ \A m \in Of(c) \cap UpTo(n) : m <= signed[c][1]

\* Rewriting is caught: once the operator has edited, dropped or inserted an
\* event at or below a signed sequence, the auditor and both monitors say so,
\* unless retention hides it or the operator has put it back as it was.
RewriteCaught ==
    /\ \A r \in files["received"] : \A d \in Since(r, "operator") :
          /\ Visible(d, r.statement.sequence)
          /\ ~Undone(d, r.statement.sequence, r.leaves)
          => ReceiptVerdict(r) = "tampered"
    /\ \A a \in anchors : \A d \in Since(a, "operator") :
          /\ Visible(d, a.sequence)
          /\ ~Undone(d, a.sequence, a.leaves)
          => /\ FirstDivergence # {}
             /\ (\E p \in Consecutive : a \in {p[1], p[2]}) => RemoteForks # {}

\* The local monitor accuses nobody for growing: an anchor that no longer
\* reconstructs was followed by an edit, a purge or a redaction below it.
ForkNeedsChange ==
    \A a \in FirstDivergence :
        \E d \in deeds \ a.before : d.from <= a.sequence

\* The claims of a bundle: its events end at this head, and as of this
\* sequence they are all there are.
Bundles ==
    [correlation : Correlations, head : {<<n, 0>> : n \in 1..seq}, asOf : 0..seq]

\* Events of the bundle's correlation that were there before the claim and that
\* nobody has touched.
Hidden(b) == {m \in Of(b.correlation) : m > b.head[1] /\ m <= b.asOf /\ rows[m].hash = <<m, 0>>}

\* No hidden tail: a bundle whose claim leaves out the end of a correlation is
\* never found complete, by an auditor with the receipts or by one with an
\* anchor and the inclusion proof the host serves, unless the operator took
\* the events away before the head was signed.
NoHiddenTail ==
    \A b \in Bundles : Hidden(b) # {} =>
        /\ CompletenessVerdict(b, files["received"]) # "complete"
        /\ \A a \in anchors :
              b.correlation \in DOMAIN LeavesAt(a.sequence) =>
                  AnchorVerdict(b, a, HeadInclusion(LeavesAt(a.sequence), b.correlation))
                      # "complete"

Writing == \E w \in Posters : hand[w].stage = "writing"

\* "The held set is append-only" (spec section 12): a revocation the host has
\* accepted is held whenever no thread is writing the file.
RevocationsKept == Writing \/ accepted \subseteq files["mandates"]

\* "Proof that the operator's log only grew": a remote monitor finds a fork
\* only if something old was changed.
RemoteForkNeedsChange ==
    \A p \in RemoteForks : deeds \ p[1].before # {}

\* "A v2 head is witnessed and anchored byte-for-byte as v1" (spec section 12):
\* while nobody has changed what a notary signed, the host takes its anchor.
AnchoredAlike ==
    \A w \in Notaries :
        /\ hand[w].stage = "signed"
        /\ hand[w].statement.sequence > 0
        /\ deeds = hand[w].statement.before
        => Matches(w, hand[w].statement)

\* Lifecycle work, growth and lost receipts accuse nobody: neither the auditor
\* of a receipt nor the local monitor of the anchors raises a false alarm.
NoFalseAlarm == TypeOK /\ NeverFalselyTampered /\ ForkNeedsChange

\* What an operator rewrites or hides shows, in every verdict it bears on.
TamperingShows == RewriteCaught /\ NoHiddenTail
=============================================================================
