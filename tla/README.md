# A verification project for the Capability Host Protocol reference host

The repository is the reference implementation of the Capability Host Protocol
(CHP): a *host* executes *capabilities* for callers, decides each call through a
fixed sequence of gates, brackets every execution with *evidence* in an
append-only, hash-chained SQLite store, replays what it has already answered,
and lets a *router* place calls on one of several hosts. The Python packages
`packages/python/chp_core` and `packages/chp-host`, the adapters for jobs,
messages, composition and HTTP, the model cache of the Hugging Face adapter, the
Zenoh binding and the second host in TypeScript are what is modelled; `spec/`
and `docs/` are used for what the code promises.

## 1. Inventory

| Component | State | Operations | Hard behaviour | What makes it correct |
|---|---|---|---|---|
| Evidence store (`chp_core/store.py`) | events, `evidence_sequence`, `correlation_heads`, `invocation_results`, `mandate_usage`; one SQLite connection and lock per process | append, append_many, queries, verify_chain, store heads, results, backup | several connections on one WAL file; transactions left open by an error; crashes | chains verify, batches are atomic, the heads cache equals the rows, a witnessed head stays recomputable |
| Compliance (`compliance.py`, `chp_host/retention.py`) | writes the store's tables | apply_retention, purge, redact, export | runs beside appends, on its own connection | whole correlations only, results purged with their evidence, redaction is not reported as tampering |
| Local host (`host.py`) | registry, activation ledger, the store | ainvoke_envelope, ainvoke_stream, register, discover | one thread per request: every gate is a store read, every effect later | idempotent replay, caps hold, grants are single-use, evidence brackets the execution, every call is answered |
| Activation gate (`activation_gate.py`, `activation_consume.py`) | `consumed_activations` | authorize, consume | check and consume are two steps; the ledger may be in memory | one grant, one effect |
| Mandates (`signing.py`, `revocations.py`) | `mandate_usage`, `mandates.json` | build, sub-delegate, verify, count, revoke | chains with foreign links and keys under any name; three store calls; a file rewritten without lock | authority only narrows; what the library builds is accepted |
| HTTP binding (`http.py`) | concurrency slots, in-flight count, token buckets | invoke, stream, discover, evidence, witness routes | threads, clients that go away, SIGTERM | counts are exact, in-flight calls end before exit, the rate holds, a resumed stream is seamless |
| Router (`chp_host/router.py`) | breaker entries, trip counts, probe flag, catalog, gateway store | ainvoke, health, replay, catalog refresh, probing | unlocked dictionaries shared by request, prober and refresher threads; lost answers | every owner is tried, a recovered owner is used again, executions are bounded by what went wrong |
| Witnessing (`witnessing.py`, `merkle.py`, `chp_host/witness.py`) | receipts, anchors, revocations in JSON files | sign, post, verify receipts, monitor anchors, audit completeness | rounds against a store that grows, is purged, redacted or edited; files without lock | lifecycle is not accused, tampering shows, proofs are accepted for what is in the tree alone |
| Causal ordering (`ordering.py`) | none | order_events, the check of task bundles | clocks of several hosts, stamps taken before the store's lock, one id on several hosts | no cause behind its effect |
| State machines (`state_machine.py`) | a row per machine | create, transition | read, then write, without a lock | the row tells one run; nothing lost without overlap |
| Workflows (`workflow.py`, composition adapter) | definitions, evidence | define, run | redefinition during a run, skips, crashes | evidence tells what was executed |
| Composition graph (`composition.py`) | nodes, edges, their states | build, classify, ready, compensate | indeterminate nodes, joins, data edges | nothing runs on "don't know", nothing hangs |
| Jobs adapter (`chp-adapter-jobs`) | jobs table, thread pool | submit, status, result | restart, drain, a second process | a job runs once, is settled, and its verdict stays |
| Messages adapter (`chp-adapter-messages`) | JSONL file, evidence chain | record_turn, backfill | torn lines, two stores, either of which may fail | the two differ by what is under way, refused or cut off |
| HTTP adapter (`chp-adapter-http`) | failure count and window per origin | request, stream | late outcomes of earlier requests | an origin that fails is spared, one that is back is used |
| Hugging Face backend (`_backends.py`) | LRU of warm models | _cached, release | loads outside the lock | memory is bounded, a model in use stays |
| Zenoh binding (`chp-transport-zenoh`) | queryables, channel, worker pool | invoke, health, close | hanging handlers, a full channel, close | health is answered, nothing is dropped while open |
| Semver (`semver.py`, gate 2 of `_prepare`) | registered versions | satisfies, best, register | boundaries below 1.0.0, tags | documented meaning; registering never downgrades |
| Signing keys (`signing.py`, `GET /host` of `http.py`) | a directory of files | keygen, rotate, revoke, attest | six files written one after the other, read by requests in between; crashes | no key is destroyed, the lineage is whole, a reported revocation stands |
| Mesh (`chp_host/mesh.py`, router and command line) | `mesh.json` with a pin per member | pin, follow, verify, reset, add, remove, mark | read, changed and replaced without a lock by several daemons | trust on first use, then by continuity only; accusations have a cause; the pin catches up |
| Second host (`chp-host-ts`) | results, uses, evidence in memory | invoke, stream, deny | one thread, but calls interleave where handlers wait; a handler outlives its timeout | the same promises as the local host |
| Rekor client, bundle signatures, sealing, DSSE, policy, safety, redaction, hooks, ingestion, memory, knowledge graph, retrieval, product, supply, incident, work, readers, delegation, sessions, planning, CLI, MCP server, other adapters, browser runtime, tools, conformance kit | rules, records | pure predicates, I/O, reading | – | section 7 |

Interaction: a request thread (`http.py`) calls `ainvoke_envelope`; `_prepare`
makes one store call per gate; the handler runs; the terminal event and then the
recorded result are two more transactions. Retention, hooks and witnesses reach
the same database through connections of their own. A router sends the same
envelope to the owners of a capability in turn and keeps its own store; a client
repeats a request under the identifier it chose. Witnesses and notaries read the
store head over HTTP and post what they signed; auditors compare it later.
Adapters run inside the handler threads.

## 2. Modules

| Module | Models | Proofs |
|---|---|---|
| `EvidenceStore` | `store.py` and `compliance.py` over one SQLite file with several connections | `EvidenceStore_proofs` |
| `Ledger` | what the store promises its readers: per-correlation logs that grow at the end or are forgotten as a whole | refined by `EvidenceStore`, proved in `EvidenceStore_proofs` |
| `InvocationPipeline` | `host.py`'s governed invocation, from gate 0 to the recorded result, for overlapping calls | `InvocationPipeline_proofs` |
| `Routing` | `router.py`: circuit breakers, candidate order, failover, prober, catalog refresher | `Routing_proofs` |
| `Gateway` | one identifier from a client through the router's result cache to the owners (`router.py`, `http.py`, `host.py`) | `Remote_proofs` |
| `Streams` | one resumable stream: client, server thread, recorded chunks (`http.py`, `host.py`) | `Remote_proofs` |
| `HostProcess` | start to exit of a host: in-flight count, slots, SIGTERM drain (`http.py`), jobs (`chp-adapter-jobs`) | `Service_proofs` |
| `Admission` | the token bucket of `allow_request` | `Service_proofs` |
| `StateMachine` | `state_machine.py` under overlapping callers | `Service_proofs` |
| `Merkle`, `Witnessing` | `merkle.py`; `witnessing.py`, `revocations.py`, `chp_host/witness.py` and their routes | `Federation_proofs` |
| `Ordering` | `ordering.py`, and the threads of hosts with clocks, which stamp and append events | `Federation_proofs` |
| `Mandates` | chains of mandates in `signing.py` | `Federation_proofs` |
| `Composition` | `composition.py` | `Federation_proofs` |
| `Workflow` | `workflow.py` and the composition adapter | `Adapters_proofs` |
| `Transcripts` | the messages adapter's file and the evidence chain | `Adapters_proofs` |
| `Circuit`, `ModelCache`, `ZenohServer` | `chp-adapter-http`, `chp-adapter-huggingface`, `chp-transport-zenoh` | `Adapters_proofs` |
| `Semver` | `semver.py` and the version a host picks | `Service_proofs` |
| `Keys`, `Mesh` | the signing key's directory with its commands (`signing.py`, `http.py`); a member's pin at a peer (`chp_host/mesh.py`, `router.py`, `cli.py`) | `Mesh_proofs` |
| `TwinHost` | `chp-host-ts`: gates, execution, timeout and recorded results in one thread | `Federation_proofs` |
| `MCEvidenceStore`, `MCInvocationPipeline`, `MCRouting`, `MCFederation`, `MCService`, `MCRemote`, `MCHosts` | the finite instances TLC checks | |

### EvidenceStore

| Variable | Code |
|---|---|
| `db` | the committed database: `rows` (evidence_events), `seq` (AUTOINCREMENT of evidence_sequence), `heads` (correlation_heads), `results` (invocation_results) |
| `owner`, `pending` | the connection inside a write transaction and what it sees |
| `batch` | the events `append_many` has still to insert |
| `tx` | per connection: `none`, `begun` (a refused write left BEGIN), `pinned` (a read inside it holds a snapshot), `stale` (another connection committed past it) |
| `unrecorded` | calls between their terminal event and `record_result` |
| `served` | heads handed to witnesses since the last retention |

A step is one method under `SQLiteEvidenceStore._lock`; `append_many` is split
into its inserts, because other connections run between them. The transaction
states are those of Python's `sqlite3` in its default isolation mode: a DML
statement issues BEGIN, only `IntegrityError` is rolled back, and
`PRAGMA busy_timeout` bounds the wait for the write lock. A content hash is the
term of what it commits to (collision-free); timestamps are small numbers; a
`GLOB` pattern is the set of capabilities it selects. `external_anchor`, cost
columns, indexes, and the query filters are left out.

### InvocationPipeline

Each call has a location `at` (the store call it makes next), its envelope
`request`, its `outcome`, and the `trail` of evidence events it has appended;
`effects` are the calls whose handler has acted. `results`, `used` and
`consumed` are the tables `invocation_results`, `mandate_usage` and
`consumed_activations`; `seen` is what the mandate gate read before it counted;
`lapsed` are the expired grants. The gates that only compute (version, mode,
scope, signature, policy, schema, safety) are one nondeterministic verdict each,
from `Refusals`, in the order of `_prepare`. The safety events a gate adds to
the evidence beside its verdict are left out of `trail`, and the outcome of a
handler that itself raises `CapabilityDenied` is `denied` whatever code it gives.
`Faults` says which of crash, closed stream, expiry and store errors may happen.

### Routing

| Variable | Code |
|---|---|
| `breaker` | `_unhealthy`: no entry, a window that runs (`open`), a window that is over (`elapsed`) |
| `failures`, `trips`, `probing`, `rr` | `_failure_counts`, `_trip_counts`, `_half_open_probe`, `_rr` of one capability |
| `known` | the transports in `_descriptors` and `_routes` |
| `told` | the last transition of each host on the gateway's chain |
| `at`, `kind`, `round`, `todo`, `healthy`, `rest` | where a thread is in `ainvoke`, `_replay_with_missing`, `health` or `_refresh_catalog`, and its local lists |
| `owed`, `moved` | history: the owners an invocation has not attempted, and those `_is_healthy` began to admit while it ordered them |

The dictionaries have no lock. `_mark_unhealthy` and `_mark_healthy` are cut at
the reads another thread can invalidate (bump, read again, trip or re-arm; clear
the counts, pop the entry, tell); the writes between two cuts are one step,
since only `trips`, which sizes the window and nothing else, could tell them
apart. The lists of `_ordered_candidates` are built by a recursive function
(`Kept`), about which theorems can be proved. Time is `Elapse`: a window may end
at any moment. A call answers or fails nondeterministically; the refresher's
fan-out answers for any set of hosts. Left out: gate 0 and the result cache (in
`Gateway`), the inline refresh of an unknown capability, identity pins (their
mismatch is the only failure the refresher marks), the stats themselves
(`least_loaded` may sort in any order), and catalogs in which a host drops a
capability.

### Gateway

`client` is each request of the client, first or repeated; `gw` the gateway's
thread for it (gate, routing, calling, record, answer); `exec` each owner's
thread; `cache` and `records` the recorded results. An exchange may be refused
before it began (`Shed`, `Refused`) or broken after (`LoseClient`, `BreakCall`):
the thread on the far side then runs on, and its answer reaches nobody. `ran`,
`runs`, `paid`, `shaken` and `late` are history: executions by each owner and in
all, faults that may cost one, owners that overlapped or died, and requests sent
after the gateway had a result. The order of the owners is Routing's subject;
here it is any.

### Streams

`reader` is the client (attempt, `last_id`, what its caller got), `wire` the
connection of the current attempt with frames in flight, `serving` the server's
thread per attempt, `recorded` the row with its chunks, `begun` the executions.
A connection that breaks loses its frames, and the server notices only when it
writes; it then drains the generator so as to record all of it.

### HostProcess

`process`, `listening`, `late` are the drain of `install_sigterm_drain`; `conn`,
`inflight` and `slots` the handler threads with `_inflight` and `_concurrency`;
`row`, `worker`, `runs` the jobs table, the thread pool and how often a target
ran. Handler threads are daemons and die with the interpreter; the pool's
workers are not, so the interpreter waits for them (`Exit`). `OtherStarts` is
another process opening the same jobs database, `StartFails` and `FinishFails`
a write the database refuses.

### Witnessing and Merkle

`rows` and `seq` are the store (content hashes as terms, NULL once redacted),
`files` the three sidecar files, `hand` the exchange of each client (sign, post,
load, write back), `anchors` what the notaries signed and the monitors hold.
`write_text` truncates before it writes, and a file that does not parse reads as
empty. Beside appends, purges and redactions there is an operator who edits,
drops or inserts events and chains them anew, for whom the receipts exist;
`deeds` remembers who did what from which sequence on. Heads are the v1 head,
which is a hash over lines, or the v2 root of `Merkle`; a hash is the term of
what was hashed. Attestations and signatures are taken as unforgeable. Each
exchange is a client of its own (`OneExchangeEach`).

`Merkle` computes over slices: the code cuts its list of leaves at the split and
recurses, so its arguments are the slices `<<lo, n>>` of one list, and a
recursive function over them is the recursion of the code. A walk returns the
entries of the proof it has left, as the shared iterator of the code does. In
the same way `Kahn` in `Ordering` is a function of how many events are out.

### Ordering, Mandates, Composition

`Ordering`: `events` with sequence, host, invocation, causation and timestamp;
each host has a `clock`, which drifts and may be set back (`stepped`).
`emit_evidence` reads the clock (`Begin`, `Continue`), and only the store's
`append`, under its lock, gives the sequence (`AppendStamped`) or raises
(`AppendRaises`); what a thread has stamped in between is in `emitting`, so that
threads of a host overtake each other. A host runs whatever `invocation_id` it is
sent, and the router sends one to several owners: `Begin` takes a new id or a
used one, on any host (`reruns`). Timestamps are compared as text: `utc_now`
drops the fraction on a whole second, and the text then ends in "Z", which sorts
after the "." of every other time of that second; `Stamp` is the place of the
text among the others.

`Mandates`: `links` from the root, each with principal, key, signer, attestation,
delegate, scope, window and depth. A signature is the key that made it, and an
attestation a key's own statement that a name is its: `build_attestation` takes
any name, `verify_mandate` checks both against the key that the link carries, and
gate 5 passes no `expected_principal_key`, so any key may sign under any name. A
revocation counts if the link's own key signed it. One link may come from an
implementation that does not use `build_sub_mandate`, with whatever fields; names
are sequences of `Characters`, so that a `*` is matched as in `scope_allows`, and
`StarsEndNames` says that no scope has one but at its end. The anchors of an
attestation (DID, transparency log) are verified elsewhere and left out.

`Composition`: a graph is composed
edge by edge, `Compose` runs the cycle check, a driver dispatches what
`classify` calls ready, and nodes end in any state.

### StateMachine, Admission, Transcripts, Workflow

`StateMachine`: a transition is `ReadMachine` and `WriteMachine`; `granted` is
what callers were answered, `overlap` whether two were ever under way at once.
`Admission`: `read` is the time a thread took before the lock, tokens are
counted in units of 1/`Window`. `Transcripts`: `lines` and `chain` are the two
stores, `tail` a last line without its end, to which the next write is appended.
The write to the file may raise (`AppendFails`), having written part of the line
or all but its end (`cut`); the store may refuse the event after the line was
written (`RecordFails`, counted by text in `unstored`); the process may die
between any two steps or within a write (`Crash`). `Workflow`: `run` is each
thread's run, `log` its evidence, `effects` what it executed, `chosen` its
definition.

### Circuit, ModelCache, ZenohServer, Semver

`Circuit`: `failures` and `left` are the origin's entries, `sent` counts the
attempts made while the circuit is open. `ModelCache`: a model takes memory
(`resident`) until a collection finds that neither the cache nor a frame refers
to it. `ZenohServer`: a query is on the `wire`, in the `channel`, with the
`drainer`, in the `pool` or with a worker; `binding` is how far `close` has got.
`Semver`: `registered` are the versions of one capability; a range is a set of
comparators, and a part of it may be an `x`.

### Keys and Mesh

`private`, `public`, `archive`, `history`, `revocations` and `attestation` are the
files of the key directory, a key being its number; `torn` are the JSON files
that `write_text` has truncated and not yet written. `command` is the operator's
command and how far it is: `_archive_keypair`'s two renames, the private key, the
public key, the continuity statement, the attestation's removal are steps of
their own, and `Cut` ends a command at any of them. In `Mesh`, `manifest` is one
member's entry of `mesh.json`, `temporary` the file `save_mesh` replaces it by, and
`peer` what each thread of the peer is doing: it reads the member's public key,
its private key and the rest of the document in three steps, as the member's
handler does, then checks and saves. `taken`, `resets` and the other histories
remember who was trusted and why. A timestamp, an anchor and the trust label of a
pin decide nothing here and are left out.

### TwinHost

`calls` are the calls with their events and answers, `stored` the recorded
results, `uses` the charged invocations of one mandate, `running` the handlers
that still run. JavaScript runs from one `await` to the next without anybody in
between, so that `Enter` is the whole of `prepare` with the start of the evidence,
and `End` and `TimeOut` are the terminal event with the recorded result. The
gates that only compute are one verdict, as in `InvocationPipeline`.

## 3. Runs

| Run | Shows |
|---|---|
| `store_append` | `ChainIntact`, `BatchAtomic`, `WitnessedHeadStable`, `ServedRecomputable`, refinement of `Ledger`, `TypeOK`, with serialisable batches, an unserialisable single event, duplicates and whole-correlation retention |
| `store_retention` | `HeadPathsAgree` and `PurgeCascades`, with redaction, explicit purges and torn batches |
| `pipe_sequential` | replay, caps: callers that wait for an answer, and crashes |
| `pipe_overlapping` | single-use activation and evidence behind every recorded result, under all faults |
| `pipe_answered` | liveness: every call is answered, evidence brackets close; beside it a member's key and its pin at a peer (`TrustSafe`, `PinCatchesUp`) |
| `routing_failover` | two hosts, a request thread and the prober: `NeverGivenUp` under every selection and affinity |
| `routing_recovery` | one host, a request thread, the prober and the refresher, a threshold of two: every invocation ends, a recovered host returns |
| `federation` | witnessing and anchoring (`NoFalseAlarm`, `TamperingShows`), tree proofs (`ProofsExact`), `OrderingSafe`, `MandatesSafe`, `CompositionSafe`, the second host (`TwinSafe`) |
| `service` | `ProcessSafe`, `MachineSafe`, `AdmissionSafe`, `RecordsSafe` (transcripts, workflows), `AdaptersSafe` (circuit breaker, model cache, Zenoh binding), `VersionsHold`, and the liveness of these components (`ServiceProgress`) |
| `remote` | `GatewaySafe`, `StreamSafe` and their liveness (`RemoteProgress`) |
| `pipe_resume_race`, `remote_fork` | each refutes one sentence of the specification; see section 6 |

Bounds. Two connections are the least that contend for the write lock, and a
third would only add waiting; two correlations let a batch span both and a cut
leave one intact; three events in one correlation give a chain a middle; four
sequence numbers let a purge be followed by an append. `MaxServed = 1`: one head
is enough for a head to be lost. Two invocations under a cap of one, three or
four calls: one more than the caps allow, so that the last is refused, and one
retry after each crash. `CallSymmetry` and `ConnSymmetry` permute actors that
no definition tells apart; the runs that check liveness use no symmetry.

Routing: two hosts are the least among which failover and an order exist; one
background thread beside the request thread supplies every change of a breaker
that can fall between two steps of an ordering, and the request thread itself
replays and probes between its invocations. Recovery concerns one host's breaker,
which no other host's touches, so it is checked with one host and all kinds of
threads. `Threshold = 2` counts a failure that does not trip. `TripCap = 1`
forgets how often a host tripped, which no guard reads; for the same reason
`routing_failover` compares states by the view `Unread`, without `told` and
`trips`.

Side by side. `federation`, `service`, `remote` and, through `MCHosts`,
`pipe_answered` each hold components that share no state. The first state
chooses one (`part`), only that one moves, and the others stay in their initial
state; a run explores the sum of the state spaces, not their product. A
component's invariants are what its own module states, conjoined under one name
(`ProcessSafe == TypeOK /\ CountsExact /\ ...`). The fairness of a component
that does not move asks for nothing, since none of the actions it names is
enabled in its initial state; the one that is, the mesh's refresher, is asked
for only where the mesh moves.

`federation`: two correlations over three sequence numbers let a head span both
and one of them grow, two deeds let retention follow an edit or precede it, two
anchors make a pair for the monitors; the notaries' files share nothing with the
receipts, so the parts "witnessing" and "anchoring" check them apart. It takes a
third deed for the operator to put an event in above a signed head, where a
purge has made room, and to take it out again: receipts are checked with a purge
and two such deeds too, anchors with any two (`FewDeeds`), posted revocations, which
can only keep a receipt from being taken, with one. Trees of
up to five leaves over two values are the least with a split of 4+1, duplicate
leaves and every shape of proof. Three events, stamped by two threads for two
hosts, hold a cause, its effect elsewhere and an event beside them or after; clocks
from 1 to 3 with two steps to the second have a whole second and a time on either
side of it. `Ordered` lets one invocation begin without a cause and one id be
begun again, and takes the three disturbances (a clock set back, an id begun
again, a stamp on a whole second) one at a time; their combinations are left to
the theorem, which knows no such bounds.
Three links over two principals, two keys and a depth of one let a link exceed
the depth. The root is `m1`'s and signed with `k1`, which no definition tells
from the other choices; a foreign link errs in one of signature, attestation,
depth and parent, and one beyond the depth, which is refused whatever it says,
has its parent's delegate, scope and window; a chain that is refused already is
not extended, since it stays so (`Mandated`). Three nodes and edges hold a
diamond's two arms and a join. `Alike` permutes the two nodes that are neither
critical nor joined by any, which no definition tells apart.

`service`: two requests for one slot, one of which submits a job to one worker;
three transitions of two callers; a limit of two in three ticks and a clock up
to eight, so that a bucket fills, empties and fills again; a log with a repeated
turn, three tasks, of which any may fail in either store, and two crashes; two
runs of two definitions of two steps; three askers with a retry against a threshold of two (two are needed to open the
circuit and one to be late); two models and users over a cache of one, with six
loads to tell apart; four invocations for a channel and a worker of one; numbers
up to 2, seven ranges of every operator and two registrations. `remote`: two
owners, three requests and two faults; one reconnection, three deltas against a
cap of two recorded chunks, one fall of the server.

The second host: three calls of two identifiers against caps of one and two, so
that a call overlaps another, outlives its timeout and is repeated. `MCHosts`:
three keys hold a lineage of two statements, which may begin after the pinned
key; one incident (a key revoked or a command cut off) and one turn of the peer
(a reset, a removal, a crash). The peer has one thread: with two, updates of the
manifest are lost (section 6).

`CHECK_DEADLOCK FALSE` in the pipeline's runs and in these three: once every
call is answered, or a bound is reached, nothing is left to do.

Fairness. `WF_vars(Step(c))` per call: a request thread that is in a call is
scheduled again, and handlers return; nothing is assumed of callers, crashes or
expiry. `FairSpec` of `EvidenceStore` says that `append_many` goes on, and that
a connection that can append does. `FairSpec` of `Routing`: a thread in a round
goes on (calls have timeouts), the daemon refresher ticks
(`start_catalog_refresher`), and windows end; callers, the prober and the hosts
owe nothing. `RecoveredHostReturns` therefore rests on the refresher alone. In
`HostProcess` the threads of a live process run, the clock reaches the drain's
deadline and the service manager restarts the process; a job's target ends, a
request may be served for ever. `Gateway` and `Streams`: a thread that can run
does, handlers end, the client reads on. `Workflow`: a run goes on while its
process lives. `Circuit`: time passes and an attempt has an outcome (requests
have timeouts). `Mesh`: a command goes on, the peer's threads do, and the
catalog refresher comes round again. `ZenohServer`: the session delivers, the
drainer goes on; nothing is assumed of handlers, so `HealthAnswered` holds
although every worker hangs.

## 4. Proofs

Eight modules hold the theorems; `PROJECT.json` lists those a reader should know
of. Each invariant was checked by TLC before it was proved. Where a theorem has a
hypothesis, TLC shows the property violated without it (section 6), and the
hypothesis is named here.

`EvidenceStore_proofs`. The inductive invariant is
`IInv == DbOK(db) /\ DbOK(pending) /\ ControlOK /\ Ahead`. `DbOK` says that rows
have distinct sequences up to `seq` and that each head equals the last row of
its correlation; `ControlOK` that `pending` is the committed database when
nobody writes; `Ahead` that the open transaction has only added rows behind the
committed ones. `HeadPathsAgree` needs the equality of heads and rows to be kept
as a statement about every state, since it is not inductive for a given
sequence; `WitnessedHeadStable` needs `Ahead`, because a commit installs
`pending` as the database. `PurgeCascades` follows from the step alone.

- `ChainIntact` keeps with it the links of every adjacent pair of rows, under
  `WholeCorrelationsOnly` (no redaction cut-off, no explicit purge), which
  `RedactionHonest` in section 6 shows necessary.
- `ServedRecomputable` and `BatchAtomic` need `BatchesSerialize`: a batch whose
  events `json.dumps` accepts leaves nothing half-inserted (`BetweenBatches`:
  the rows pending between batches are the committed ones). `BatchAtomic` keeps
  which first part of which batch is pending (`HalfInv`), so that no other write
  can commit a part; `BatchesApart` says that no two batches share an event.
- `ImplementsLedger`: the log of a correlation is the rows in the order of their
  sequences. The mapping counts rows, so the lemmas `RankBounds`, `RankApart`
  and `RankOnto` first show that the rank of a row among those of its
  correlation numbers them without gaps; `LogGrows` then maps appends and
  commits to appends at the end, `RetentionForgets` maps retention to logs that
  are forgotten or redacted in place, and the rest stutters. Without
  `BatchesSerialize` or with an explicit purge the refinement fails.

`InvocationPipeline_proofs`. `TypeOK` is inductive. `ActivationSingleUse` follows
from: a call with an activation beyond `consume` has its grant in `consumed`,
and no two calls beyond it share a grant; the assumption `Durable` is the
configuration of `CHP_HOST_ACTIVATION_CONSUME_DB`, without which `Crash`
forgets the ledger. `RecordedHasEvidence` follows from: a call at `record` has
already appended the event of its outcome, and a trail never shrinks.

For callers that send one call at a time (`~Overlapping`) at most one call is
between its gates (`Alone`). `MandateCapHolds` then keeps that there is room for
the call that passed the mandate gate, and that every call past it is counted;
`BudgetHolds` counts starts in the trails of a correlation and that the one call
at the budget's gate found room. `OneFinalAnswer` and
`ReexecutedOnlyAfterDeath` keep that whatever a call answered was recorded
before it was `done`, under `Replays`: capabilities are cacheable, no late denial
by a strict output schema, no store errors, since what fails there is not recorded
(section 6); and no streams for the answers.

`Routing_proofs`. `TypeOK` needs that a thread dealing with a host has one
(`HostAtHand`), that its lists name a host once (`ListedOnce`) and that a count
read a second time is still in range. `NeverGivenUp` keeps, location by
location, that an owner is attempted, still in one of the invocation's lists, or
in `moved` (`OwnersKept`). What `_ordered_candidates` keeps of a list is computed
by recursion over it; the lemmas on `Kept` are proved by induction over the
list's length.

`Service_proofs`, for the parts of one host. `ProcessSafe`: `ProcessInv` ties
the in-flight count and the slots to the threads that hold them, and the job's
row to its worker and to how often it ran. `MachineSafe`: `MachineInv` keeps with
the row what every overlapping caller has read of it: a decision is a step of the
graph from the state that was read, so that whatever is written back is a run,
though not one that holds every transition; `AloneInv` adds that without overlap
what was read is still the row, and `NothingLostAlone` follows. `AdmissionSafe`:
the invariant bounds the bucket by the latest time that any thread has read, not
by its own time, which can go backwards: tokens plus what the time since then
would refill never exceed the capacity, and admissions since `From` plus what is
left never exceed the burst and the refill, for any number of threads and any
limit and window (linear facts after the products with `Limit` and `Window` are
named). Version ranges: `SatisfiesOne` goes through the bounds of `_bump`; the
theorems say that these bounds are the documented meaning, for all naturals, by
cases on the first nonzero number (`CaretExact`) and on the parts written
(`TildeExact`, `BareExact`). `HostNeverDowngrades`: the picked version is maximal
among the matching ones, and registration adds versions only. `VersionsStayHeld`
adds that one version is picked (`PickIsUnique`): the preference is a strict total
order, and a version that is registered beats the pick of a range or leaves it.

`Federation_proofs`. `CompositionSafe` for any graph: `CompositionInv` keeps that
the edges have no cycle and that a node that ran had its needs settled; that
nothing hangs (`NoHang`) follows since a set of nodes without a cycle has one
that waits for none of them. `BuiltIsAccepted`: `MandateInv` describes each link
by the link before it, and a chain the library built narrows from link to link.
`AuthorityNarrows` rests on `ScopesNarrow`: a pattern that covers a pattern
covers what that one covers, which holds if `*` only ends names
(`StarsEndNames`; section 6). It says that the chain was signed by the keys it
carries, for the names they claim, and not that a key is the named host's, which
no check establishes (`NameHasOneKey`, section 6). `TwinSafe`: `TwinInv` relates
every call to the evidence it left (`CallTells`), every record to the one call that
made it (`RecordTells`), and keeps that of an identifier whose requests did not
meet one call at most has run, and its end is the record (`RanAlone`).

The same module has what `Ordering`, `Merkle` and `Witnessing` compute. Each
recursive function is first shown to exist: for every n some function meets its
equation on the arguments up to n, by induction, and two that do agree.

- `OrderingSafe`: a run of Kahn's algorithm (`IsKahn`) takes at each place the
  least of what is ready. That it ends only where nothing is left, or with a set
  in which everything waits for another, gives that a set without a cycle comes
  out whole and along its edges. The order of recording (`event_id`) is what the
  edges are held against. `OrderingInv` keeps that a host's sequence numbers
  follow it (`SequencesGrow`), that what caused an invocation was recorded before
  it and before it was stamped (`EventsCaused`, `StampedCaused`), that an
  invocation begun once is on one host (`OneRun`) and, until a clock is set back,
  that its first event has the least stamp of its events, whichever threads
  overtake each other (`TimesGrow`; a whole second is excepted by `WholeNext`,
  `StampMeans`). The first event by key of a cause that meets the conditions of
  `ConsistentUnderSkew` is therefore its first by recording (`SpawnsAreLeast`), and
  every edge points forward (`EdgesGoForward`).
- `ProofsExact`: `RootTells` shows that two lists with one root are one list, by
  induction on the length of a slice (the domain bytes keep leaves and nodes
  apart). `InclusionMeans` says more than the run checks: whatever the proof, who
  ever made it, it is accepted for the leaf at its place alone, since a walk that
  arrives at the root ends in the hash of that leaf. `ConsistencyMeans`: the walk
  over the host's proof arrives at the newer root, and at the older root exactly
  if that is the root of the tree's first leaves, which by `RootTells` are then
  the older tree's.
- `NoFalseAlarm` and `TamperingShows`: `WitnessingInv` relates every receipt and
  anchor, the ones on their way through a file included, to the rows by `Signed`:
  while the operator has touched nothing at or below the signed sequence, the
  heads are the signed ones, purged or nulled (`Quiet`, `LetBe`); no untouched row
  at or below it is past the signed head of its correlation (`Under`); and a head
  the operator has reached below is never again the signed one (`Reached`), since
  a content hash bears the number of the deed that made it. What a step may do to
  the rows is stated once (`StoreMoved`), for appends, retention and the operator
  alike. Both schemes' roots tell the leaves of a head (`RootTells`), so a verdict
  on the root is a verdict on the leaves.

  The proof of `TamperingShows` found an error in its statement that two deeds
  could not show: a purge makes room for an event above the signed head, and an
  operator who puts one in there and drops it again leaves the head as it was
  signed. No audit can see that, and nothing is hidden by it; `RewriteCaught` now
  excludes it by name (`Undone`), and the run has the third deed.

`Mesh_proofs`. `KeysInv` describes the key directory by how far the running
command is: which halves of which pair are where, that a generated key was never
published, and that statements lead from a key to a later one. A peer may hold a
document told long ago; `Asserted` says what stays true of it, whatever the
operator does meanwhile (`ToldStays`): a statement that the document lacks leads
past the key it names. `Followed` is a walk; `FollowedReaches` shows by
induction that if it does not end at the presented key, the keys it could have
reached are a set that no statement leads out of, hence that the accusation has
a cause, for any number of threads. `TakenOnce` and `PinInLineage` need
`OneThread` (section 6); `PinInv` keeps that what the thread is about to write
follows from what the file holds.

`Remote_proofs`. `GatewaySafe`: `PaidFor` counts what could still cost an
execution without another fault: the owners' threads whose handler may still run
(`ToRun`), the gateway's threads that may still call an owner (`OpenSet`) and a
request that may be sent afresh (`Fresh`); together with the executions so far
these are at most one more than the faults paid for. Each step that runs a
handler, calls an owner or sends a request moves one unit from one count to
another, and only a broken exchange, a death or a restart adds one. `OwnerSteady`
says of an owner that is not shaken that one thread at most works for the
identifier and that an execution is recorded or about to be; `LateInv` that
requests sent after the gateway had a result are at its gate or hold that
result. `StreamSafe`: `CurrentInv` says that the client hears only its last
attempt's thread; `RecordInv` that an execution belongs to one thread and that
the row is of one that has ended; `NumbersInv` bounds the chunks by attempt. Of
an identifier executed once, `OnceInv` says that the frames in flight continue
what the client has one by one, that the terminal frame is the last one, and
where the thread that sends them is (`InFlight`): an execution has yielded what
was received and what is in flight, a replay has got as far.

`Adapters_proofs`, for what else a host runs. `RecordsSafe` and `AdaptersSafe`
are proved of the components one by one; `ServiceSteps` shows that a step of the
service is a step of each of them or leaves it alone.

- `Transcripts`: `DriftInv` counts, for each text, the lines of the file against
  the entries of the chain, with the threads between the two, the events the
  store refused, and what each crash and each write cut off can have cost;
  `BackfillInv` keeps, while nobody overlapped, what a backfill's list holds
  against the file it was read from.

- `Workflow`: `Live` says, stage by stage of a run under way, what its log and
  effects hold so far; `Sound` says of every run, ended, cut off or under way,
  what its evidence tells; `RunsApart` that no two threads have one run.

- `Circuit`: `SparedInv` adds to the attempts made those that are still
  outstanding with the threads that found the circuit closed; whoever opened
  it holds none.

- `ModelCache`: the bound on memory is not inductive, since a model that was
  overwritten stays resident until somebody evicts. `PromiseInv` is a
  potential: twice what is in memory and what the threads could still add
  before one of them releases (`Bringing`, `Evicting`, `Doubling`, and a free
  place for each free thread) is at most twice the bound; `IdleInv` says that
  as long as the cache holds something, there is a thread that counts nothing
  against it. The model takes its loads from a finite pool; the assumption
  that the pool is larger than the bound makes every load a new one.

- `ZenohServer`: `QueuesInv` says that the queues hold each query once and where
  its stage says, `HealthInv` that a health query does not leave the session's
  thread, `RepliesInv` how often each query was answered, by its stage.

Induction. The library's induction theorems take an operator as a parameter,
which the provers here cannot instantiate. Where a proof needs induction, a set
of numbers that holds 0 and is closed under successor is shown to hold all of
them from the well-foundedness of `<` (`LeastElement`, `Induction` in
`Federation_proofs`, `Routing_proofs` and `Mesh_proofs`), and the recursion is a
recursive function. No module of the project declares a RECURSIVE operator.

Only model-checked: liveness, which the prover has no rules for
(`EveryCallAnswered`, `EvidenceBrackets`, `InvocationsEnd`,
`RecoveredHostReturns`, `PinCatchesUp`, `ServiceProgress`, `RemoteProgress`).
Every invariant and action property of the passing runs is proved, under the
hypotheses named above.

## 5. Plan

1. `Routing`: identity pins, whose mismatch the refresher marks, and the inline
   refresh of an unknown capability.
2. Compositions of components that share state: `Witnessing` over the
   connections of `EvidenceStore`; the handler threads of `HostProcess` as the
   calls of `InvocationPipeline`.

## 6. Disagreements

The two violation runs are regression traces of what the code does today;
`PROJECT.json` quotes the sentence each one refutes. `remote_fork`: the leaves
of a v2 head are per-correlation heads sorted by id, and the consistency proof
between two anchors wants the old leaves as a prefix of the new ones
(`merkle.py:249-251`), so that one event appended to an anchored correlation, or
a new correlation that sorts before an old one, makes the proof fail and the
remote monitor reports an untouched host as `forked`. `pipe_resume_race`: two
calls with one approval grant both run the handler.

Further properties are stated in the modules and fail when they are checked.

`EvidenceStore`
- `BatchAtomic` with a batch json.dumps refuses half way: `append_many` rolls
  back only on `IntegrityError` (`store.py:464`), and the connection's next write
  commits the half ("in a single transaction (one commit)", `store.py:449`).
  `ServedRecomputable` fails with it, since the head is served inside the
  transaction left open, and so does `ImplementsLedger`: a log shows the half.
- `RedactionHonest`: redacting the older part of a correlation makes
  `verify_chain` report the first younger event as broken, though
  `compliance.py:92` has it "honestly `unverified`".
- `WriterRecovers`: a connection that timed out on the write lock, read, and was
  overtaken by a commit is refused for ever (`store.py:362` does not roll back;
  `store.py:99-106` expects it to go on).
- `PurgedNotReplayable` with an explicit purge between the terminal event and
  `record_result`.

`InvocationPipeline`
- `BudgetHolds` and `OneFinalAnswer` when `Overlapping = TRUE` (as
  `MandateCapHolds` does: the use is counted before it is recorded);
  `ReexecutedOnlyAfterDeath` with the outcome `bad_output` (the strict output
  schema's denial is not recorded); `OneFinalAnswer` with stream requests and
  refusals; `EvidenceBrackets` with the fault `close`.

`Witnessing`
- `RevocationsKept`: two posts to `/revocations`, or a read while another post
  has truncated the file, lose a revocation that was answered "accepted" ("the
  held set is append-only", specification section 12).
- `AnchoredAlike`: `POST /anchors` asks `get_store_head` for the v1 head
  (`http.py:927`), so an anchor over a v2 head of an unchanged store is refused
  with 409, though "a v2 head is witnessed and anchored byte-for-byte as v1"
  (`spec/chp-v0.2.md:950`).

`Mandates`
- `AuthorityNarrows` when a scope has a star before its last character: `scope_allows` matches a
  pattern by what stands before its last star (`signing.py:1828`), and
  `attenuation_scope` (`signing.py:1862`) lets the holder of `a**`, which covers
  names that begin with `a*`, pass on `a*`, which covers all that begin with `a`
  ("a child may only NARROW scope", `signing.py:1853`).
- `NameHasOneKey`: two links of one accepted chain may carry different keys for
  one name, each attested by itself, and gate 5 (`host.py:794`) says nothing of
  the key it expects, though "the principal's attestation (with anchors) answers
  'whose authority?'" (`signing.py:1890`): the attestation alone does not.

`HostProcess`
- `DefinitiveAnswer`: a second process marks a running job `interrupted`, a
  poller is told so, and the worker then writes `completed`
  (`_store.py:5-8`).
- `DrainLosesNone`: a connection accepted before SIGTERM whose handler has not
  raised the count is cut off ("waits for in-flight requests",
  `docs/production-runbook.md:57`).

`StateMachine`: `OverForGood`, when a transition read before the machine ended
is written after.

`Ordering`: `CausallyConsistent` and `HonestTaskAccepted` ("an event never
precedes what caused it"). The first event by key of a causing invocation need not
be its first by sequence, and the edges may then form a cycle that
`ordering.py:6-19` ascribes to "tampered/buggy data". It happens in three ways:
- a host's clock is set back;
- the invocation was begun on two hosts, as `router.py:382-417` sends one id to the
  next owner when an exchange breaks, or was run twice on one: its first event by
  key may be that of the other run, after the child;
- it was begun on a whole second, on one host whose clock only moves on: the stamp
  "12:00:00Z" (`types.py:295`) sorts after "12:00:00.5Z" of its child and of its
  own later events. With the microseconds of a real clock this is one invocation
  in a million.

`Gateway`: `RetryableNotCached`: an owner that is itself a gateway answers
`host_unreachable` as a denial, which `router.py:424` records
(`spec/chp-v0.2.md:1125-1128`).

`Streams`: `Seamless` and `BracketCloses`: a resume that comes before the first
execution is recorded executes again, and a replay's chunks then follow those of
another execution; a client gone before the headers are sent leaves a started
execution without a terminal event.

`Transcripts`: `ChainHoldsFile`: a crash between the file and the chain, or the
store refusing the event when the line is written (`host.py:1565`, after
`adapter.py:98` and `adapter.py:245`), leaves a turn that no backfill adds to the
chain, since the file holds it.

`ModelCache`: `MemoryBounded` is what remains: the loads that wait for a
collection may exceed the cap `_backends.py` speaks of by one per thread, and
again for each eviction under way.

`ZenohServer`: `OneReply`: an exception after the reply was sent is answered by a
second, an error reply.

`Keys`: `KeysNeverDestroyed`: a crash between the two renames of
`_archive_keypair` leaves a private key without its public half, which a later
`keygen --overwrite` does not archive and writes over ("MUST never destroy a key",
`signing.py:179`).

`Mesh`: `AccusedWithCause` without its second exception: a member that is asked
between `generate_keypair` and the write of `key_history.json` shows a new key
that nothing vouches for, and its peer reports "possible impersonation"
(`router.py:220`) and routes nothing to it until it is asked again, though the
rotation is "WITH CONTINUITY" (`signing.py:704`). `TakenOnce` with two threads:
`mark_witnessed` writes back the manifest it read before the pin was set, and the
next key is taken on trust again.

`TwinHost`: `ResumedOnce`, as `pipe_resume_race` shows of the Python host ("fall
through to execute exactly once", `host.ts:300`).

In `Routing`:
- `RepeatTripsEscalate` fails even with one thread: `_mark_unhealthy` raises the
  trip count only when the host was not unhealthy, and `_mark_healthy`, which
  alone ends that state, pops it, so that the window of a host that fails every
  half-open trial never grows ("escalates x2 per repeat trip",
  `router.py:98-99`; `docs/production-runbook.md:48`).
- `LastResort` fails even with one thread: a window that ends between the two
  list comprehensions of `_ordered_candidates` leaves the owner in neither list,
  and an invocation can be denied `host_unreachable` without an attempt
  ("unhealthy kept as a last resort", `router.py:742`). `NeverGivenUp` is what
  remains true.
- `TriedOnce` fails: a half-open owner is admitted by the first pass, which
  claims its probe, and refused by the second, so it is in both lists and a
  failing host is called twice ("half-open admits one probe",
  `docs/production-runbook.md:48`).
- `NeverRaises` fails with two threads: the count read again at `router.py:771`
  may have been popped, and the invocation ends in a `KeyError` ("never a bare
  5xx", `router.py:432`).
- `ChainTellsState` fails with two threads: the entry is written before its event
  is appended, so the events of two transitions may be appended in the other
  order, and `Rearm` writes an entry without an event (`spec/chp-v0.2.md:779`).

## 7. Not modelled

- Cryptography and encodings (`signing.py` beyond keys, mandates, anchors and task
  bundles, `sealing.py`, `dsse.py`, `sshsig.py`, `digests.py`, `rekor.py`): the
  models take a signature as unforgeable and a hash as injective, and what is
  left of these modules is the byte formats.
- Pure predicates and data types (`policy.py`, `safety.py`, `redaction.py`,
  `types.py`, `contract.py`, `protocol_checks.py`, checks): a verdict of theirs
  is a nondeterministic choice where a model needs one.
- Readers and reports (`metrics.py`, `stats.py`, `otel.py`, `prov.py`,
  `assurance.py`, retrieval, readers of the work inventory): they change
  nothing.
- Record keeping behind one lock (`memory.py`, `knowledge_graph.py`,
  `product.py`, `supply.py`, `work*.py`, `incident.py`, `session.py`,
  `delegation.py`, `planning.py`, `transformation.py`): rows or objects written
  by one call each. `incident.py` reads a row and writes it back as
  `state_machine.py` does; `StateMachine` is the model of that form.
- Details of the modelled parts. `_host_assurance` swallows any failure to write
  the attestation (`http.py:103`), and `GET /host` then lacks `key_history`: in
  `Mesh` the document always tells the lineage that the files hold, so that
  `PinCatchesUp`, and that an accusation has a cause, are claimed of members whose
  attestation can be written; a document without its lineage is refused, never
  trusted. A client's request that fails on a reused connection is sent once more
  on a fresh one, under the same identifier (`http.py:1613`): `Gateway` has one
  exchange per attempt. Timestamps are compared as text in `Ordering`, where their
  order decides; the windows of mandates, grants and retention are numbers.
- Races of initialisation (the jobs adapter creates its thread pool on first
  use without a lock): seen, and left out, since the loser of the race only
  leaks an idle pool.
- Command line, process supervision, MCP server, ports, mesh configuration and
  the adapters around tools and services: I/O.
- The browser runtime (`packages/ts-runtime`) and the client packages in other
  languages, the conformance kit, and recorded data.
