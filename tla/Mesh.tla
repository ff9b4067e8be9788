--------------------------------- MODULE Mesh ---------------------------------
(***************************************************************************)
(* A member of the mesh as its peer knows it: the peer's ~/.chp/mesh.json  *)
(* (chp_host/mesh.py) pins the member's signing key on first use and       *)
(* follows its rotations.  The gateway's catalog refresher checks the pin  *)
(* each time it discovers the member, the witness daemon and the command   *)
(* line stamp the entry, and the operator verifies, resets, adds and       *)
(* removes it.  Every one of them reads the whole file, changes its copy   *)
(* and replaces the file, without a lock; the threads of one process share *)
(* the name of the temporary file.                                         *)
(*                                                                         *)
(* The member's document comes from the key directory of Keys, which its   *)
(* operator may be changing.                                               *)
(***************************************************************************)
EXTENDS Keys

CONSTANTS
    Peers,     \* threads of the peer that use the manifest
    MaxTurns   \* bound: how often the pin is let go or a process is cut off

ASSUME MeshConstants == IsFiniteSet(Peers) /\ MaxTurns \in Nat

VARIABLES
    manifest, \* mesh.json's entry for the member
    temporary, \* .mesh.tmp.<pid>, which the threads of the process share
    peer,     \* what each thread is doing
    taken,    \* history: the keys pinned on first use, in order
    resets,   \* history: how often the pin was let go
    kills     \* history: how often the peer's process was killed

meshVars == <<keyVars, manifest, temporary, peer, taken, resets, kills>>

Gone == [present |-> FALSE, key |-> NoKey]
Missing == [present |-> FALSE, key |-> MaxKeys + 1] \* no such file
Quiet == [at |-> "idle", op |-> "none", key |-> NoKey, by |-> NoKey, doc |-> Identity(NoKey, NoKey),
          unfinished |-> FALSE, copy |-> Gone]

Proceed(t, at) == peer' = [peer EXCEPT ![t].at = at]

MeshInit ==
    /\ KeysInit
    /\ manifest = [present |-> TRUE, key |-> NoKey]
    /\ temporary = Missing
    /\ peer = [t \in Peers |-> Quiet]
    /\ taken = <<>>
    /\ resets = 0
    /\ kills = 0

(***************************************************************************)
(* The member's document                                                   *)
(***************************************************************************)
\* _check_member_identity of the router, or `mesh verify-keys`.
Discover(t, op) ==
    /\ peer[t].at = "idle"
    /\ peer' = [peer EXCEPT ![t] = [Quiet EXCEPT !.at = "public", !.op = op]]
    /\ UNCHANGED <<keyVars, manifest, temporary, taken, resets, kills>>

\* The member's handler loads its key; a document without one is exempt.
FetchPublic(t) ==
    /\ peer[t].at = "public"
    /\ peer' = [peer EXCEPT ![t] =
          IF public = NoKey THEN Quiet ELSE [@ EXCEPT !.at = "private", !.key = public]]
    /\ UNCHANGED <<keyVars, manifest, temporary, taken, resets, kills>>

FetchPrivate(t) ==
    /\ peer[t].at = "private"
    /\ peer' = [peer EXCEPT ![t].at = "document", ![t].by = private]
    /\ UNCHANGED <<keyVars, manifest, temporary, taken, resets, kills>>

FetchDocument(t) ==
    /\ peer[t].at = "document"
    /\ Attest(peer[t].key, peer[t].by)
    /\ peer' = [peer EXCEPT ![t].at = "check",
                            ![t].doc = Identity(peer[t].key, peer[t].by),
                            ![t].unfinished = command.at # "idle" \/ peer[t].key # peer[t].by]
    /\ UNCHANGED <<private, public, archive, history, revocations, torn, command,
                   witnessed, manifest, temporary, taken, resets, kills>>

(***************************************************************************)
(* pin_or_check_key                                                        *)
(***************************************************************************)
\* Mutant of Followed: a statement counts whoever signed it.
FollowedBlindly(list, pinned, presented) ==
    IF \E i \in DOMAIN list : list[i][2] = presented THEN presented ELSE pinned

\* The walk along the published lineage: each statement counts only if it was
\* signed by the key trusted so far, and the walk ends at the presented key.
Followed(list, pinned, presented) ==
    LET trusted[i \in 0..Len(list)] ==
            IF i = 0 THEN pinned
            ELSE IF trusted[i - 1] # presented /\ list[i][1] = trusted[i - 1]
                 THEN list[i][2]
                 ELSE trusted[i - 1]
    IN  trusted[Len(list)]

\* Mutant of Status: the lineage is not looked at.
StatusOfKeyAlone(entry, doc) ==
    IF ~entry.present THEN "no-remote"
    ELSE IF entry.key = NoKey THEN "pinned"
    ELSE IF entry.key = doc.key THEN "ok"
    ELSE "mismatch"

Status(entry, doc) ==
    IF ~entry.present THEN "no-remote"
    ELSE IF entry.key = NoKey THEN "pinned"
    ELSE IF entry.key = doc.key THEN "ok"
    ELSE IF Followed(doc.history, entry.key, doc.key) = doc.key THEN "rotated"
    ELSE "mismatch"

\* The entry afterwards.  Its trust label ("tofu", "anchored", "rotated"), which
\* no decision reads, is left out.
Repinned(entry, doc) ==
    IF Status(entry, doc) \in {"pinned", "rotated"} THEN [entry EXCEPT !.key = doc.key]
    ELSE entry

\* `mesh verify-keys` refuses a document whose attestation does not verify; the
\* router does not look at it.
Unverified(t) == peer[t].op = "verify" /\ peer[t].doc.attested = "invalid"

Reject(t) ==
    /\ peer[t].at = "check"
    /\ Unverified(t)
    /\ peer' = [peer EXCEPT ![t] = Quiet]
    /\ UNCHANGED <<keyVars, manifest, temporary, taken, resets, kills>>

\* Nothing is saved when nothing changes.
Check(t) ==
    LET entry == Repinned(manifest, peer[t].doc)
    IN  /\ peer[t].at = "check"
        /\ ~Unverified(t)
        /\ peer' = [peer EXCEPT ![t] =
              IF entry = manifest THEN Quiet ELSE [@ EXCEPT !.at = "save", !.copy = entry]]
        /\ UNCHANGED <<keyVars, manifest, temporary, taken, resets, kills>>

(***************************************************************************)
(* The other users of the manifest                                         *)
(***************************************************************************)
Change(t, op, entry) ==
    /\ peer[t].at = "idle"
    /\ peer' = [peer EXCEPT ![t] = [Quiet EXCEPT !.at = "save", !.op = op, !.copy = entry]]
    /\ UNCHANGED <<keyVars, manifest, temporary, taken, resets, kills>>

\* mark_witnessed, mark_verified and mark_stats write a stamp of theirs.
Mark(t) == manifest.present /\ Change(t, "mark", manifest)

ResetKey(t) ==
    /\ manifest.present
    /\ Incidents + kills + resets < MaxTurns
    /\ Change(t, "let go", [manifest EXCEPT !.key = NoKey])

RemoveRemote(t) ==
    /\ manifest.present
    /\ Incidents + kills + resets < MaxTurns
    /\ Change(t, "let go", Gone)

AddRemote(t) ==
    /\ ~manifest.present
    /\ Change(t, "add", [present |-> TRUE, key |-> NoKey])

(***************************************************************************)
(* save_mesh                                                               *)
(***************************************************************************)
WriteTemporary(t) ==
    /\ peer[t].at = "save"
    /\ temporary' = peer[t].copy
    /\ Proceed(t, "replace")
    /\ UNCHANGED <<keyVars, manifest, taken, resets, kills>>

\* The temporary file becomes the manifest; without one, replace raises.
Replace(t) ==
    /\ peer[t].at = "replace"
    /\ IF temporary = Missing
       THEN UNCHANGED <<manifest, temporary, taken, resets>>
       ELSE /\ manifest' = temporary
            /\ temporary' = Missing
            /\ taken' = IF peer[t].copy.key # NoKey /\ manifest.key = NoKey
                        THEN Append(taken, peer[t].copy.key) ELSE taken
            /\ resets' = IF peer[t].op = "let go" THEN resets + 1 ELSE resets
    /\ Proceed(t, "cleanup")
    /\ UNCHANGED <<keyVars, kills>>

\* finally: whatever has that name is removed.
CleanUp(t) ==
    /\ peer[t].at = "cleanup"
    /\ temporary' = Missing
    /\ peer' = [peer EXCEPT ![t] = Quiet]
    /\ UNCHANGED <<keyVars, manifest, taken, resets, kills>>

\* The peer's process is killed and started again, under another process id.
PeerCrash ==
    /\ \E t \in Peers : peer[t].at # "idle"
    /\ Incidents + kills + resets < MaxTurns
    /\ kills' = kills + 1
    /\ peer' = [t \in Peers |-> Quiet]
    /\ temporary' = Missing
    /\ UNCHANGED <<keyVars, manifest, taken, resets>>

PeerStep(t) ==
    \/ FetchPublic(t) \/ FetchPrivate(t) \/ FetchDocument(t)
    \/ Reject(t) \/ Check(t)
    \/ WriteTemporary(t) \/ Replace(t) \/ CleanUp(t)

MeshNext ==
    \/ KeysNext /\ UNCHANGED <<manifest, temporary, peer, taken, resets, kills>>
    \/ PeerCrash
    \/ \E t \in Peers :
          \/ \E op \in {"refresh", "verify"} : Discover(t, op)
          \/ Mark(t) \/ ResetKey(t) \/ RemoveRemote(t) \/ AddRemote(t)
          \/ PeerStep(t)

MeshSpec == MeshInit /\ [][MeshNext]_meshVars

\* The operator's commands go on, and so do the peer's threads.
MeshStepFairness ==
    /\ WF_meshVars(CommandStep /\ UNCHANGED <<manifest, temporary, peer, taken, resets, kills>>)
    /\ \A t \in Peers : WF_meshVars(PeerStep(t))

-----------------------------------------------------------------------------
\* b follows from a by statements the member's keys have signed.
Linked(a, b) ==
    \A heirs \in SUBSET KeySet :
        a \in heirs /\ (\A s \in signed : s[1] \in heirs => s[2] \in heirs) => b \in heirs

\* Trust on first use, and by continuity from there: the pinned key is one that
\* was taken on first use, or its old keys have vouched for it one by one.
PinInLineage ==
    manifest.key # NoKey => \E i \in DOMAIN taken : Linked(taken[i], manifest.key)

\* "A hard error; needs manual reset": a key is taken on trust once, and again
\* only after the operator has let go of the pin.
TakenOnce == Len(taken) <= resets + 1

\* "Possible impersonation" is said only of a key that the pinned one did not
\* vouch for, or when the member was asked in the middle of a command or had
\* one cut off.
AccusedWithCause ==
    \A t \in Peers :
        peer[t].at = "check" /\ Status(manifest, peer[t].doc) = "mismatch" =>
            \/ ~Linked(manifest.key, peer[t].doc.key)
            \/ peer[t].unfinished
            \/ cuts > 0

TrustSafe ==
    /\ KeysTypeOK /\ KeysKept /\ RevocationsStand /\ LineageOrdered
    /\ PinInLineage /\ TakenOnce /\ AccusedWithCause

\* A rotation reaches the peer: as long as the lineage leads from the pin to the
\* member's key, the pin is brought up to it.
PinCatchesUp ==
    []<>(\/ ~manifest.present \/ public = NoKey \/ command.at # "idle"
         \/ manifest.key = public
         \/ manifest.key # NoKey /\ Followed(Lineage, manifest.key, public) # public)
=============================================================================
