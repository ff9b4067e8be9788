--------------------------------- MODULE Keys ---------------------------------
(***************************************************************************)
(* The signing key of a host (chp_core/signing.py): its directory of       *)
(* files, the commands that generate, rotate and revoke a key, which write *)
(* them one after the other and may be cut off, and what the server, which *)
(* reads the files anew for each request, says of itself.                  *)
(*                                                                         *)
(* A key is its number.  A private and a public key of one number are a    *)
(* pair, and what a private key signs verifies under its pair only.  A key *)
(* file appears whole; a JSON file is first truncated, then written, and   *)
(* reads as an empty list in between and after a crash there.              *)
(***************************************************************************)
EXTENDS Integers, Sequences, FiniteSets

CONSTANTS
    MaxKeys,     \* bound: how many keys are ever generated
    MaxIncidents \* bound: how many keys are revoked or commands cut off by a crash

ASSUME KeysConstants ==
    /\ MaxKeys \in Nat \ {0}
    /\ MaxIncidents \in Nat

NoKey == 0
KeySet == 1..MaxKeys

VARIABLES
    private,     \* the private key file of the directory, NoKey without one
    public,      \* the public key file
    archive,     \* the private keys under archive/, filed under a public key
    history,     \* key_history.json: the continuity statements <<old, new>>
    revocations, \* revocations.json: the keys revoked, in order
    torn,        \* the JSON files that are truncated and not yet written
    attestation, \* attestation.json: the key whose valid attestation it is
    command,     \* the command the operator runs, and how far it is
    minted,      \* history: how many keys have been generated
    published,   \* history: the keys whose public half was in the directory
    signed,      \* history: the continuity statements ever signed
    revoked,     \* history: the keys whose revocation a command has reported
    halved,      \* history: keys whose archival was cut between its renames
    cuts         \* history: how many commands were cut off

disk == <<private, public, archive, history, revocations, torn, attestation>>
witnessed == <<minted, published, signed, revoked, halved, cuts>>
keyVars == <<disk, command, witnessed>>

Idle == [name |-> "none", at |-> "idle", old |-> NoKey, list |-> <<>>]

Entries(list) == {list[i] : i \in DOMAIN list}

GoOn(at) == command' = [command EXCEPT !.at = at]

\* load_key_history and load_revocations read an unreadable file as [].
Lineage == IF "history" \in torn THEN <<>> ELSE history
Revocations == IF "revocations" \in torn THEN <<>> ELSE revocations

Incidents == Cardinality(revoked) + cuts

-----------------------------------------------------------------------------
KeysInit ==
    /\ private = NoKey
    /\ public = NoKey
    /\ archive = {}
    /\ history = <<>>
    /\ revocations = <<>>
    /\ torn = {}
    /\ attestation = NoKey
    /\ command = Idle
    /\ minted = 0
    /\ published = {}
    /\ signed = {}
    /\ revoked = {}
    /\ halved = {}
    /\ cuts = 0

(***************************************************************************)
(* The commands                                                            *)
(***************************************************************************)
\* generate_keypair refuses when there is a private key, unless it is told to
\* overwrite; it archives what is there only if there is a public key.
Keygen(overwrite) ==
    /\ command.at = "idle"
    /\ minted < MaxKeys
    /\ private = NoKey \/ overwrite
    /\ command' = [Idle EXCEPT !.name = "keygen",
                      !.at = IF overwrite /\ public # NoKey THEN "archive" ELSE "generate",
                      !.old = public]
    /\ UNCHANGED <<disk, witnessed>>

\* rotate_keypair needs a key that can sign, and goes on to generate_keypair.
Rotate ==
    /\ command.at = "idle"
    /\ minted < MaxKeys
    /\ public # NoKey /\ private # NoKey
    /\ command' = [Idle EXCEPT !.name = "rotate", !.at = "archive", !.old = public]
    /\ UNCHANGED <<disk, witnessed>>

\* _archive_keypair: the public key is moved, then the private one.
ArchivePublic ==
    /\ command.at = "archive"
    /\ public' = NoKey
    /\ GoOn("archive private")
    /\ UNCHANGED <<private, archive, history, revocations, torn,
                   attestation, witnessed>>

ArchivePrivate ==
    /\ command.at = "archive private"
    /\ archive' = archive \cup {<<command.old, private>>}
    /\ private' = NoKey
    /\ GoOn("generate")
    /\ UNCHANGED <<public, history, revocations, torn, attestation,
                   witnessed>>

\* The private key is written first, over one that is still there.
Generate ==
    /\ command.at = "generate"
    /\ minted' = minted + 1
    /\ private' = minted + 1
    /\ GoOn("publish")
    /\ UNCHANGED <<public, archive, history, revocations, torn, attestation,
                   published, signed, revoked, halved, cuts>>

Publish ==
    /\ command.at = "publish"
    /\ public' = minted
    /\ published' = published \cup {minted}
    /\ IF command.name = "rotate" THEN GoOn("vouch") ELSE command' = Idle
    /\ UNCHANGED <<private, archive, history, revocations, torn,
                   attestation, minted, signed, revoked, halved, cuts>>

\* rotate_keypair goes on: the old key signs a statement that vouches for the
\* new one, which is appended to the history that is read here.
Vouch ==
    /\ command.at = "vouch"
    /\ signed' = signed \cup {<<command.old, minted>>}
    /\ command' = [command EXCEPT !.at = "write history",
                      !.list = Append(Lineage, <<command.old, minted>>)]
    /\ torn' = torn \cup {"history"}
    /\ UNCHANGED <<private, public, archive, revocations, history,
                   attestation, minted, published, revoked, halved, cuts>>

WriteHistory ==
    /\ command.at = "write history"
    /\ history' = command.list
    /\ torn' = torn \ {"history"}
    /\ GoOn("unlink")
    /\ UNCHANGED <<private, public, archive, revocations, attestation,
                   witnessed>>

DropAttestation ==
    /\ command.at = "unlink"
    /\ attestation' = NoKey
    /\ command' = Idle
    /\ UNCHANGED <<private, public, archive, history, revocations, torn,
                   witnessed>>

\* revoke_key: of the current key, which signs its own revocation.
Revoke ==
    /\ command.at = "idle"
    /\ public # NoKey /\ private # NoKey
    /\ Incidents < MaxIncidents
    /\ command' = [name |-> "revoke", at |-> "write revocations", old |-> public,
                   list |-> Append(Revocations, public)]
    /\ torn' = torn \cup {"revocations"}
    /\ UNCHANGED <<private, public, archive, history, revocations,
                   attestation, witnessed>>

WriteRevocations ==
    /\ command.at = "write revocations"
    /\ revocations' = command.list
    /\ torn' = torn \ {"revocations"}
    /\ revoked' = revoked \cup {command.old}
    /\ command' = Idle
    /\ UNCHANGED <<private, public, archive, history, attestation, minted, published, signed, halved, cuts>>

\* A command is cut off by a crash, with what it has written so far.  What a
\* torn file held is gone.
Cut ==
    /\ command.at # "idle"
    /\ Incidents < MaxIncidents
    /\ cuts' = cuts + 1
    /\ halved' = IF command.at = "archive private" THEN halved \cup {private} ELSE halved
    /\ command' = Idle
    /\ UNCHANGED <<disk, minted, published, signed, revoked>>

CommandStep ==
    \/ ArchivePublic \/ ArchivePrivate \/ Generate \/ Publish
    \/ Vouch \/ WriteHistory \/ DropAttestation \/ WriteRevocations

(***************************************************************************)
(* The server                                                              *)
(***************************************************************************)
\* What GET /host says of a key that was loaded as key and by: the attestation
\* on disk if it is that key's, else a new one, which is valid if the two are
\* a pair; the lineage only if the key can sign.  The revocations it also serves
\* are for whoever resolves the key; the mesh does not read them.
Attested(key, by) == attestation = key \/ key = by

Identity(key, by) ==
    IF by = NoKey
    THEN [key |-> key, attested |-> "none", history |-> <<>>]
    ELSE [key |-> key,
          attested |-> IF Attested(key, by) THEN "valid" ELSE "invalid",
          history |-> Lineage]

\* load_or_build_attestation keeps the new one.
Attest(key, by) ==
    attestation' = IF by = NoKey \/ attestation = key THEN attestation
                   ELSE IF key = by THEN key
                   ELSE NoKey

KeysNext ==
    \/ \E overwrite \in BOOLEAN : Keygen(overwrite)
    \/ Rotate
    \/ Revoke
    \/ CommandStep
    \/ Cut

-----------------------------------------------------------------------------
Statements == Seq(KeySet \X KeySet)

\* The files hold keys, and a public key lies beside the private key of its
\* pair: it is moved away first and written last.
KeysTypeOK ==
    /\ private \in 0..MaxKeys /\ public \in 0..MaxKeys
    /\ public # NoKey => private = public
    /\ archive \subseteq KeySet \X KeySet
    /\ history \in Statements
    /\ torn \subseteq {"history", "revocations"}
    /\ revocations \in Seq(KeySet)
    /\ attestation \in 0..MaxKeys
    /\ minted \in 0..MaxKeys
    /\ cuts \in 0..MaxIncidents

\* "Overwrite/rotation MUST never destroy a key": the private half of every key
\* that was in use is in the directory or in the archive under its public half,
\* unless a crash came between the two renames of its archival.
KeysKept ==
    \A k \in published \ halved : private = k \/ <<k, k>> \in archive

\* The same without the exception, which fails: what is then in the directory is
\* a private key without its public half, and generating over it destroys it.
KeysNeverDestroyed ==
    \A k \in published : private = k \/ <<k, k>> \in archive

\* A revocation that was reported stands: no later command takes it back, and
\* the identity document shows it while its file is not being written or torn.
RevocationsStand ==
    "revocations" \notin torn => revoked \subseteq Entries(revocations) \/ cuts > 0

\* Whoever was told by an old bundle's key can still ascribe it: unless commands
\* were cut off, the history links every key that was in use and rotated away
\* to the one that followed it, in the order of the rotations.
LineageOrdered ==
    "history" \notin torn /\ cuts = 0 =>
        /\ Entries(history) = signed
        /\ \A i, j \in DOMAIN history : i < j => history[i][2] <= history[j][1]
=============================================================================
