------------------------------ MODULE Mesh_proofs ------------------------------
(***************************************************************************)
(* Proofs about Keys and Mesh, for any number of keys, crashes, resets and *)
(* threads of the peer; where a second thread may undo what the first has  *)
(* saved, for one.                                                         *)
(*                                                                         *)
(* A key directory is described by how far its command is (KeysInv).  What *)
(* a peer has been told stays true because statements lead from a key to a *)
(* later one: a statement made since leads past the key that was told.     *)
(***************************************************************************)
EXTENDS Mesh, FiniteSetTheorems, SequenceTheorems, NaturalsInduction,
        WellFoundedInduction, TLAPS

-----------------------------------------------------------------------------
(***************************************************************************)
(* The key directory                                                       *)
(***************************************************************************)
Before == {"archive", "archive private", "generate"}
Rotating == {"vouch", "write history", "unlink"}
Stages == {"idle"} \cup Before \cup {"publish"} \cup Rotating \cup {"write revocations"}

\* Statements that lead from key to later key, in the order of the rotations.
Ordered(list) ==
    \A i \in DOMAIN list : /\ list[i][1] < list[i][2]
                           /\ \A j \in DOMAIN list : i < j => list[i][2] <= list[j][1]

\* The last key that may be anybody's but the running command's.
Known == IF command.at \in {"publish", "vouch"} THEN minted - 1 ELSE minted

FilesInv ==
    /\ minted \in 0..MaxKeys
    /\ private \in 0..minted
    /\ public \in {NoKey, minted}
    /\ public # NoKey => private = public
    /\ archive \in SUBSET (KeySet \X KeySet)
    /\ attestation \in 0..MaxKeys
    /\ torn \subseteq {"history", "revocations"}
    /\ published \subseteq 1..minted
    /\ revoked \subseteq KeySet
    /\ cuts \in 0..MaxIncidents

CommandInv ==
    /\ command = [name |-> command.name, at |-> command.at, old |-> command.old,
                  list |-> command.list]
    /\ command.at \in Stages
    /\ command.at \in Before => minted + 1 <= MaxKeys
    /\ command.at \in Before /\ command.name = "rotate" =>
          command.old = minted /\ minted # NoKey
    /\ command.at = "archive" => public # NoKey /\ command.old = public
    /\ command.at = "archive private" =>
          public = NoKey /\ private = command.old /\ private # NoKey
    /\ command.at \in {"generate", "publish"} => public = NoKey
    /\ command.at = "publish" =>
          private = minted /\ minted # NoKey /\ minted \notin published
    /\ command.at = "publish" /\ command.name = "rotate" =>
          command.old = minted - 1 /\ command.old # NoKey
    /\ command.at \in Rotating => public = minted /\ minted # NoKey
    /\ command.at = "vouch" => command.old = minted - 1 /\ command.old # NoKey
    /\ command.at = "write revocations" => command.old \in KeySet

\* A private key without its public half has not been in use, is one whose
\* archival was cut off, or is just being archived.
KeptInv ==
    /\ KeysKept
    /\ public = NoKey /\ command.at # "archive private" =>
          private \notin published \ halved

HistoryInv ==
    /\ history \in Statements /\ Ordered(history)
    /\ \A i \in DOMAIN history : history[i][2] <= Known
    /\ \A s \in signed : s \in KeySet \X KeySet /\ s[2] <= Known
    /\ command.at = "write history" =>
          /\ command.list \in Statements /\ Ordered(command.list)
          /\ \A i \in DOMAIN command.list : command.list[i][2] <= Known
    /\ cuts = 0 =>
          /\ "history" \in torn <=> command.at = "write history"
          /\ command.at = "write history" => Entries(command.list) = signed
          /\ command.at # "write history" => Entries(history) = signed

RevocationsInv ==
    /\ revocations \in Seq(KeySet)
    /\ command.at = "write revocations" => command.list \in Seq(KeySet)
    /\ cuts = 0 =>
          /\ "revocations" \in torn <=> command.at = "write revocations"
          /\ command.at = "write revocations" =>
                revoked \subseteq Entries(command.list) /\ command.old \in Entries(command.list)
          /\ command.at # "write revocations" => revoked \subseteq Entries(revocations)

KeysInv == FilesInv /\ CommandInv /\ KeptInv /\ HistoryInv /\ RevocationsInv

LEMMA KeysAreNumbers == KeySet \subseteq Nat \ {NoKey}
BY DEF KeySet, NoKey

LEMMA AppendEntries ==
    ASSUME NEW A, NEW list \in Seq(A), NEW x \in A
    PROVE  /\ Append(list, x) \in Seq(A)
           /\ Entries(Append(list, x)) = Entries(list) \cup {x}
<1>1. PICK n \in Nat : n = Len(list)
  BY LenProperties
<1>2. PICK s \in Seq(A) : s = Append(list, x) /\ Len(s) = n + 1
  BY <1>1, AppendProperties
<1>3. DOMAIN list = 1..n /\ DOMAIN s = 1..(n + 1)
  BY <1>1, <1>2, LenProperties
<1>4. s[n + 1] = x /\ \A i \in 1..n : s[i] = list[i]
  BY <1>1, <1>2, AppendProperties
<1>5. \A i \in 1..(n + 1) : i \in 1..n \/ i = n + 1
  OBVIOUS
<1>6. n + 1 \in 1..(n + 1) /\ 1..n \subseteq 1..(n + 1)
  OBVIOUS
<1>7. Entries(s) = Entries(list) \cup {x}
  BY <1>3, <1>4, <1>5, <1>6 DEF Entries
<1> QED BY <1>2, <1>7

LEMMA AppendOrdered ==
    ASSUME NEW list \in Statements, Ordered(list), NEW a \in KeySet, NEW b \in KeySet, a < b,
           \A i \in DOMAIN list : list[i][2] <= a
    PROVE  /\ Append(list, <<a, b>>) \in Statements
           /\ Ordered(Append(list, <<a, b>>))
           /\ \A i \in DOMAIN Append(list, <<a, b>>) : Append(list, <<a, b>>)[i][2] <= b
           /\ Entries(Append(list, <<a, b>>)) = Entries(list) \cup {<<a, b>>}
<1>0. KeySet \subseteq Nat
  BY KeysConstants DEF KeySet
<1>a. PICK A : A = KeySet \X KeySet
  OBVIOUS
<1>b. PICK x \in A : x = <<a, b>>
  BY <1>a
<1>c. list \in Seq(A) /\ Statements = Seq(A)
  BY <1>a DEF Statements
<1>1. PICK n \in Nat : n = Len(list)
  BY <1>c, LenProperties
<1>2. PICK s \in Statements : s = Append(list, <<a, b>>) /\ Len(s) = n + 1
  <2>1. Append(list, x) \in Seq(A) /\ Len(Append(list, x)) = Len(list) + 1
    BY <1>c, AppendProperties
  <2> QED BY <1>b, <1>c, <1>1, <2>1
<1>3. DOMAIN list = 1..n /\ DOMAIN s = 1..(n + 1)
  BY <1>1, <1>2, LenProperties DEF Statements
<1>4. s[n + 1] = <<a, b>> /\ \A i \in 1..n : s[i] = list[i]
  BY <1>1, <1>2, AppendProperties DEF Statements
<1>5. \A i \in 1..(n + 1) : i \in 1..n \/ i = n + 1
  OBVIOUS
<1>6. \A i \in 1..n : list[i] \in KeySet \X KeySet
  BY <1>1, ElementOfSeq DEF Statements
<1>7. Ordered(s)
  <2> SUFFICES ASSUME NEW i \in 1..(n + 1)
               PROVE  /\ s[i][1] < s[i][2]
                      /\ \A j \in 1..(n + 1) : i < j => s[i][2] <= s[j][1]
    BY <1>3 DEF Ordered
  <2>1. CASE i = n + 1
    BY <1>4, <2>1
  <2>2. CASE i \in 1..n
    <3>1. s[i][1] < s[i][2]
      BY <1>3, <1>4, <2>2 DEF Ordered
    <3>2. \A j \in 1..n : i < j => s[i][2] <= s[j][1]
      BY <1>3, <1>4, <2>2 DEF Ordered
    <3>3. s[i][2] <= s[n + 1][1]
      BY <1>3, <1>4, <2>2
    <3> QED BY <1>5, <3>1, <3>2, <3>3
  <2> QED BY <1>5, <2>1, <2>2
<1>8. ASSUME NEW i \in 1..(n + 1) PROVE s[i][2] <= b
  <2>1. CASE i \in 1..n
    <3>1. s[i][2] <= a /\ s[i][2] \in Nat
      BY <1>0, <1>3, <1>4, <1>6, <2>1
    <3> QED BY <1>0, <3>1
  <2>2. CASE i = n + 1
    BY <1>0, <1>4, <2>2
  <2> QED BY <1>5, <2>1, <2>2
<1>9. Entries(s) = Entries(list) \cup {<<a, b>>}
  BY <1>b, <1>c, <1>2, AppendEntries
<1> QED BY <1>2, <1>3, <1>7, <1>8, <1>9

\* Incidents are counted.
LEMMA IncidentsCounted ==
    ASSUME revoked \subseteq KeySet, cuts \in 0..MaxIncidents, Incidents < MaxIncidents
    PROVE  cuts + 1 \in 0..MaxIncidents
<1>1. IsFiniteSet(KeySet)
  BY KeysConstants, FS_Interval DEF KeySet
<1>2. Cardinality(revoked) \in Nat
  BY <1>1, FS_Subset, FS_CardinalityType
<1>3. cuts + 1 <= MaxIncidents /\ cuts \in Nat
  BY <1>2, KeysConstants DEF Incidents
<1> QED BY <1>3, KeysConstants

LEMMA FilesHoldKeys ==
    ASSUME FilesInv
    PROVE  /\ minted \in Nat /\ minted <= MaxKeys /\ MaxKeys \in Nat
           /\ private # NoKey => private \in KeySet
           /\ public # NoKey => public \in KeySet
           /\ minted # NoKey => minted \in KeySet
           /\ NoKey \notin published /\ published \subseteq KeySet
<1>1. PICK m \in Nat : m = MaxKeys
  BY KeysConstants
<1>2. PICK n \in Nat : n = minted /\ n <= m
  BY <1>1 DEF FilesInv
<1>3. private \in 0..n /\ published \subseteq 1..n /\ public \in {0, n}
  BY <1>2 DEF FilesInv, NoKey
<1> QED BY <1>1, <1>2, <1>3 DEF NoKey, KeySet

LEMMA InitKeysInv == KeysInit => KeysInv
<1> SUFFICES ASSUME KeysInit PROVE KeysInv
  OBVIOUS
<1>1. history \in Statements /\ revocations \in Seq(KeySet) /\ DOMAIN history = {}
  BY DEF KeysInit, Statements
<1>2. command.at = "idle" /\ minted = 0 /\ MaxKeys \in Nat /\ MaxIncidents \in Nat
  BY KeysConstants DEF KeysInit, Idle
<1>3. Entries(history) = {}
  BY <1>1 DEF Entries
<1>4. FilesInv /\ KeptInv
  BY <1>2 DEF KeysInit, FilesInv, KeptInv, KeysKept, NoKey
<1>5. CommandInv
  BY <1>2 DEF KeysInit, Idle, CommandInv, Stages, Before, Rotating
<1>6. HistoryInv
  BY <1>1, <1>2, <1>3 DEF HistoryInv, Ordered, KeysInit
<1>7. RevocationsInv
  BY <1>1, <1>2 DEF RevocationsInv, KeysInit
<1> QED BY <1>4, <1>5, <1>6, <1>7 DEF KeysInv

\* Commands begin.
LEMMA KeygenKeeps ==
    ASSUME KeysInv, NEW overwrite \in BOOLEAN, Keygen(overwrite)
    PROVE  KeysInv'
<1>0. /\ command.at = "idle" /\ minted + 1 <= MaxKeys
      /\ UNCHANGED <<disk, witnessed>>
      /\ public \in {NoKey, minted} /\ (public # NoKey => private = public)
  BY KeysConstants DEF Keygen, KeysInv, FilesInv
<1>1. PICK next \in {"archive", "generate"} :
         /\ command' = [name |-> "keygen", at |-> next, old |-> public, list |-> <<>>]
         /\ next = "archive" => public # NoKey
         /\ next = "generate" => public = NoKey
  <2>1. PICK next : next = IF overwrite /\ public # NoKey THEN "archive" ELSE "generate"
    OBVIOUS
  <2>2. command' = [name |-> "keygen", at |-> next, old |-> public, list |-> <<>>]
    BY <2>1 DEF Keygen, Idle
  <2>3. next = "generate" => public = NoKey
    <3>1. CASE overwrite
      BY <2>1, <3>1
    <3>2. CASE ~overwrite
      BY <1>0, <3>2 DEF Keygen
    <3> QED BY <3>1, <3>2
  <2> QED BY <2>1, <2>2, <2>3
<1>2. FilesInv'
  BY <1>0, <1>1 DEF KeysInv, FilesInv, disk, witnessed
<1>3. CommandInv'
  BY <1>0, <1>1 DEF KeysInv, CommandInv, Stages, Before, Rotating, disk, witnessed
<1>4. KeptInv'
  BY <1>0, <1>1 DEF KeysInv, KeptInv, KeysKept, disk, witnessed
<1>5. HistoryInv'
  BY <1>0, <1>1 DEF KeysInv, HistoryInv, Known, disk, witnessed
<1>6. RevocationsInv'
  BY <1>0, <1>1 DEF KeysInv, RevocationsInv, disk, witnessed
<1> QED BY <1>2, <1>3, <1>4, <1>5, <1>6 DEF KeysInv

LEMMA RotateKeeps ==
    ASSUME KeysInv, Rotate
    PROVE  KeysInv'
<1>1. /\ command.at = "idle" /\ minted + 1 <= MaxKeys
      /\ UNCHANGED <<disk, witnessed>>
      /\ command' = [name |-> "rotate", at |-> "archive", old |-> public, list |-> <<>>]
      /\ command'.at = "archive" /\ public # NoKey /\ public = minted
  <2>1. minted + 1 <= MaxKeys /\ command.at = "idle"
    BY FilesHoldKeys DEF Rotate, KeysInv
  <2>2. public = minted /\ public # NoKey /\ UNCHANGED <<disk, witnessed>>
    BY DEF Rotate, KeysInv, FilesInv
  <2>3. command' = [name |-> "rotate", at |-> "archive", old |-> public, list |-> <<>>]
    BY DEF Rotate, Idle
  <2> QED BY <2>1, <2>2, <2>3
<1>2. FilesInv'
  BY <1>1 DEF KeysInv, FilesInv, disk, witnessed
<1>3. CommandInv'
  BY <1>1 DEF KeysInv, CommandInv, Stages, Before, Rotating, disk, witnessed
<1>4. KeptInv'
  BY <1>1 DEF KeysInv, KeptInv, KeysKept, disk, witnessed
<1>5. HistoryInv'
  BY <1>1 DEF KeysInv, HistoryInv, Known, disk, witnessed
<1>6. RevocationsInv'
  BY <1>1 DEF KeysInv, RevocationsInv, disk, witnessed
<1> QED BY <1>2, <1>3, <1>4, <1>5, <1>6 DEF KeysInv

\* The key pair moves to the archive.
LEMMA ArchivePublicKeeps ==
    ASSUME KeysInv, ArchivePublic
    PROVE  KeysInv'
<1>1. /\ command.at = "archive" /\ command'.at = "archive private"
      /\ command' = [name |-> command.name, at |-> "archive private", old |-> command.old,
                     list |-> command.list]
      /\ public' = NoKey /\ public # NoKey /\ private = public /\ command.old = public
      /\ UNCHANGED <<private, archive, history, revocations, torn, attestation, witnessed>>
  BY DEF ArchivePublic, GoOn, KeysInv, FilesInv, CommandInv, Stages
<1>2. FilesInv'
  BY <1>1 DEF KeysInv, FilesInv, witnessed
<1>3. CommandInv'
  BY <1>1 DEF KeysInv, CommandInv, Stages, Before, Rotating, witnessed
<1>4. KeptInv'
  BY <1>1 DEF KeysInv, KeptInv, KeysKept, witnessed
<1>5. HistoryInv'
  BY <1>1 DEF KeysInv, HistoryInv, Known, witnessed
<1>6. RevocationsInv'
  BY <1>1 DEF KeysInv, RevocationsInv, witnessed
<1> QED BY <1>2, <1>3, <1>4, <1>5, <1>6 DEF KeysInv

LEMMA ArchivePrivateKeeps ==
    ASSUME KeysInv, ArchivePrivate
    PROVE  KeysInv'
<1>1. /\ command.at = "archive private" /\ command'.at = "generate"
      /\ command' = [name |-> command.name, at |-> "generate", old |-> command.old,
                     list |-> command.list]
      /\ private' = NoKey /\ public = NoKey /\ private # NoKey /\ command.old = private
      /\ archive' = archive \cup {<<private, private>>}
      /\ UNCHANGED <<public, history, revocations, torn, attestation, witnessed>>
  BY DEF ArchivePrivate, GoOn, KeysInv, CommandInv
<1>a. private \in KeySet
  BY <1>1, FilesHoldKeys DEF KeysInv
<1>2. FilesInv'
  <2>1. archive' \in SUBSET (KeySet \X KeySet)
    <3>1. PICK x \in KeySet \X KeySet : x = <<private, private>>
      BY <1>a
    <3>2. archive \subseteq KeySet \X KeySet
      BY DEF KeysInv, FilesInv
    <3> QED BY <1>1, <3>1, <3>2
  <2>2. private' \in 0..minted
    <3>1. 0 \in 0..minted
      BY FilesHoldKeys DEF KeysInv
    <3>2. private' = 0
      BY <1>1 DEF NoKey
    <3> QED BY <3>1, <3>2
  <2>3. minted' = minted
    BY <1>1 DEF witnessed
  <2> QED BY <1>1, <2>1, <2>2, <2>3 DEF KeysInv, FilesInv, witnessed
<1>3. CommandInv'
  BY <1>1 DEF KeysInv, CommandInv, Stages, Before, Rotating, witnessed
<1>4. KeptInv'
  <2>1. NoKey \notin published
    BY FilesHoldKeys DEF KeysInv
  <2> QED BY <1>1, <2>1 DEF KeysInv, KeptInv, KeysKept, witnessed
<1>5. HistoryInv'
  BY <1>1 DEF KeysInv, HistoryInv, Known, witnessed
<1>6. RevocationsInv'
  BY <1>1 DEF KeysInv, RevocationsInv, witnessed
<1> QED BY <1>2, <1>3, <1>4, <1>5, <1>6 DEF KeysInv

\* A new pair is written.
LEMMA GenerateKeeps ==
    ASSUME KeysInv, Generate
    PROVE  KeysInv'
<1>1. /\ command.at = "generate" /\ command'.at = "publish"
      /\ command' = [name |-> command.name, at |-> "publish", old |-> command.old,
                     list |-> command.list]
      /\ minted' = minted + 1 /\ private' = minted + 1 /\ public = NoKey
      /\ UNCHANGED <<public, archive, history, revocations, torn, attestation,
                     published, signed, revoked, halved, cuts>>
  BY DEF Generate, GoOn, KeysInv, CommandInv, Stages
<1>2. minted \in Nat /\ minted + 1 \in 1..MaxKeys /\ (minted + 1) - 1 = minted
      /\ private \notin published \ halved
      /\ minted + 1 \notin published /\ minted + 1 # NoKey
  BY <1>1, KeysConstants DEF KeysInv, FilesInv, CommandInv, Before, KeptInv, NoKey
<1>3. FilesInv'
  BY <1>1, <1>2, KeysConstants DEF KeysInv, FilesInv, NoKey
<1>4. CommandInv'
  BY <1>1, <1>2 DEF KeysInv, CommandInv, Stages, Before, Rotating
<1>5. KeptInv'
  BY <1>1, <1>2 DEF KeysInv, KeptInv, KeysKept
<1>6. HistoryInv'
  BY <1>1, <1>2 DEF KeysInv, HistoryInv, Known
<1>7. RevocationsInv'
  BY <1>1 DEF KeysInv, RevocationsInv
<1> QED BY <1>3, <1>4, <1>5, <1>6, <1>7 DEF KeysInv

LEMMA PublishKeeps ==
    ASSUME KeysInv, Publish
    PROVE  KeysInv'
<1>1. /\ command.at = "publish"
      /\ \/ command.name = "rotate" /\ command' = [command EXCEPT !.at = "vouch"]
         \/ command' = Idle
      /\ public' = minted /\ private = minted /\ minted # NoKey /\ public = NoKey
      /\ published' = published \cup {minted}
      /\ UNCHANGED <<private, archive, history, revocations, torn,
                     attestation, minted, signed, revoked, halved, cuts>>
  BY DEF Publish, GoOn, KeysInv, CommandInv
<1>2. /\ command'.at \in {"vouch", "idle"}
      /\ command'.at = "vouch" => command.name = "rotate" /\ command'.old = command.old
      /\ CommandInv'
  <2>1. CASE command' = Idle
    BY <2>1 DEF Idle, CommandInv, Stages, Before, Rotating
  <2>2. CASE command.name = "rotate" /\ command' = [command EXCEPT !.at = "vouch"]
    <3>1. command' = [name |-> command.name, at |-> "vouch", old |-> command.old,
                      list |-> command.list]
      BY <2>2 DEF KeysInv, CommandInv
    <3> QED BY <1>1, <2>2, <3>1 DEF KeysInv, CommandInv, Stages, Before, Rotating
  <2> QED BY <1>1, <2>1, <2>2
<1>3. minted \in Nat /\ minted \in 1..minted
  BY <1>1, KeysConstants DEF KeysInv, FilesInv, NoKey
<1>4. FilesInv'
  BY <1>1, <1>3 DEF KeysInv, FilesInv
<1>5. CommandInv'
  BY <1>2
<1>6. KeptInv'
  BY <1>1, <1>2 DEF KeysInv, KeptInv, KeysKept
<1>7. HistoryInv'
  <2>1. \A i \in DOMAIN history : history[i] \in KeySet \X KeySet /\ history[i][2] \in Nat
    <3>1. history \in [1..Len(history) -> KeySet \X KeySet]
      BY LenProperties DEF KeysInv, HistoryInv, Statements
    <3> QED BY <3>1, KeysAreNumbers
  <2>2. \A s \in signed : s[2] \in Nat
    BY KeysAreNumbers DEF KeysInv, HistoryInv
  <2>3. Known = minted - 1 /\ Known' \in {minted, minted - 1}
    BY <1>1, <1>2 DEF Known
  <2>4. \A k \in Nat : k <= Known => k <= Known'
    BY <1>3, <2>3
  <2> QED BY <1>1, <1>2, <2>1, <2>2, <2>4 DEF KeysInv, HistoryInv
<1>8. RevocationsInv'
  BY <1>1, <1>2 DEF KeysInv, RevocationsInv
<1> QED BY <1>4, <1>5, <1>6, <1>7, <1>8 DEF KeysInv

\* The old key vouches for the new one.
LEMMA VouchKeeps ==
    ASSUME KeysInv, Vouch
    PROVE  KeysInv'
<1> DEFINE x == <<command.old, minted>>
           l == Append(Lineage, x)
<1>1. /\ command.at = "vouch" /\ command.old = minted - 1 /\ command.old # NoKey
      /\ public = minted /\ minted # NoKey /\ Known = minted - 1
      /\ UNCHANGED <<private, public, archive, revocations, history,
                     attestation, minted, published, revoked, halved, cuts>>
      /\ signed' = signed \cup {x} /\ torn' = torn \cup {"history"}
  BY DEF Vouch, KeysInv, CommandInv, Rotating, Known
<1>2. command' = [name |-> command.name, at |-> "write history", old |-> command.old, list |-> l]
  BY DEF Vouch, KeysInv, CommandInv
<1>3. minted \in KeySet /\ command.old \in KeySet /\ minted \in Nat /\ Known' = minted
      /\ command.old \in Nat /\ command.old < minted /\ x \in KeySet \X KeySet
  <2>1. PICK n \in Nat : n = minted /\ n \in KeySet /\ n <= MaxKeys /\ MaxKeys \in Nat
    BY <1>1, FilesHoldKeys DEF KeysInv
  <2>2. PICK o \in Int : o = command.old /\ o = n - 1 /\ o # 0
    BY <1>1, <2>1 DEF NoKey
  <2>3. n # 0
    BY <1>1, <2>1 DEF NoKey
  <2>4. o \in KeySet /\ o \in Nat /\ o < n
    BY <2>1, <2>2, <2>3 DEF KeySet
  <2> QED BY <1>1, <1>2, <2>1, <2>2, <2>4 DEF Known
<1>4. Lineage \in Statements /\ Ordered(Lineage)
      /\ \A i \in DOMAIN Lineage : Lineage[i][2] <= command.old
  BY <1>1 DEF Lineage, KeysInv, HistoryInv, Statements, Ordered
<1>5. /\ l \in Statements /\ Ordered(l) /\ \A i \in DOMAIN l : l[i][2] <= minted
      /\ Entries(l) = Entries(Lineage) \cup {x}
  BY <1>3, <1>4, AppendOrdered
<1>6. FilesInv'
  BY <1>1 DEF KeysInv, FilesInv
<1> HIDE DEF l, x
<1>7. CommandInv'
  BY <1>1, <1>2 DEF KeysInv, CommandInv, Stages, Before, Rotating
<1>8. KeptInv'
  BY <1>1, <1>2 DEF KeysInv, KeptInv, KeysKept
<1>9. \A k \in Nat : k <= Known => k <= Known'
  BY <1>1, <1>3
<1>10. HistoryInv'
  <2>1. \A i \in DOMAIN history' : history'[i][2] <= Known'
    <3>1. history \in [1..Len(history) -> KeySet \X KeySet]
      BY LenProperties DEF KeysInv, HistoryInv, Statements
    <3>2. \A i \in DOMAIN history : history[i][2] \in Nat
      BY <3>1, KeysAreNumbers
    <3> QED BY <1>1, <1>9, <3>2 DEF KeysInv, HistoryInv
  <2>2. \A s \in signed' : s \in KeySet \X KeySet /\ s[2] <= Known'
    <3>1. \A s \in signed : s[2] \in Nat
      BY KeysAreNumbers DEF KeysInv, HistoryInv
    <3>2. x[2] <= Known'
      BY <1>3 DEF x
    <3> QED BY <1>1, <1>3, <1>9, <3>1, <3>2 DEF KeysInv, HistoryInv
  <2>3. cuts = 0 => /\ Entries(Lineage) = signed
    BY <1>1 DEF KeysInv, HistoryInv, Lineage
  <2>4. "history" \in torn'
    BY <1>1
  <2> QED BY <1>1, <1>2, <1>3, <1>5, <2>1, <2>2, <2>3, <2>4 DEF KeysInv, HistoryInv
<1>11. RevocationsInv'
  BY <1>1, <1>2 DEF KeysInv, RevocationsInv
<1> QED BY <1>6, <1>7, <1>8, <1>10, <1>11 DEF KeysInv

LEMMA WriteHistoryKeeps ==
    ASSUME KeysInv, WriteHistory
    PROVE  KeysInv'
<1>1. /\ command.at = "write history" /\ history' = command.list /\ torn' = torn \ {"history"}
      /\ command' = [name |-> command.name, at |-> "unlink", old |-> command.old,
                     list |-> command.list]
      /\ UNCHANGED <<private, public, archive, revocations, attestation, witnessed>>
  BY DEF WriteHistory, GoOn, KeysInv, CommandInv
<1>2. FilesInv'
  BY <1>1 DEF KeysInv, FilesInv, witnessed
<1>3. CommandInv'
  BY <1>1 DEF KeysInv, CommandInv, Stages, Before, Rotating, witnessed
<1>4. KeptInv'
  BY <1>1 DEF KeysInv, KeptInv, KeysKept, witnessed
<1>5. HistoryInv'
  BY <1>1 DEF KeysInv, HistoryInv, Known, witnessed
<1>6. RevocationsInv'
  BY <1>1 DEF KeysInv, RevocationsInv, witnessed
<1> QED BY <1>2, <1>3, <1>4, <1>5, <1>6 DEF KeysInv

LEMMA DropAttestationKeeps ==
    ASSUME KeysInv, DropAttestation
    PROVE  KeysInv'
<1>1. /\ command.at = "unlink" /\ attestation' = NoKey
      /\ command' = [name |-> "none", at |-> "idle", old |-> NoKey, list |-> <<>>]
      /\ UNCHANGED <<private, public, archive, history, revocations, torn, witnessed>>
  BY DEF DropAttestation, Idle
<1>2. FilesInv'
  BY <1>1, FilesHoldKeys DEF KeysInv, FilesInv, witnessed, NoKey
<1>3. CommandInv'
  BY <1>1 DEF KeysInv, CommandInv, Stages, Before, Rotating, witnessed
<1>4. KeptInv'
  BY <1>1 DEF KeysInv, KeptInv, KeysKept, witnessed
<1>5. HistoryInv'
  BY <1>1 DEF KeysInv, HistoryInv, Known, witnessed
<1>6. RevocationsInv'
  BY <1>1 DEF KeysInv, RevocationsInv, witnessed
<1> QED BY <1>2, <1>3, <1>4, <1>5, <1>6 DEF KeysInv

\* A revocation is appended to the list, and reported when it is written.
LEMMA RevokeKeeps ==
    ASSUME KeysInv, Revoke
    PROVE  KeysInv'
<1> DEFINE l == Append(Revocations, public)
<1>1. /\ command.at = "idle" /\ public # NoKey /\ torn' = torn \cup {"revocations"}
      /\ command' = [name |-> "revoke", at |-> "write revocations", old |-> public, list |-> l]
      /\ UNCHANGED <<private, public, archive, history, revocations, attestation, witnessed>>
  BY DEF Revoke
<1>2. public \in KeySet
  BY <1>1, FilesHoldKeys DEF KeysInv
<1>3. Revocations \in Seq(KeySet)
  <2>0. <<>> \in Seq(KeySet)
    OBVIOUS
  <2>1. revocations \in Seq(KeySet)
    BY DEF KeysInv, RevocationsInv
  <2>2. Revocations = <<>> \/ Revocations = revocations
    BY DEF Revocations
  <2> QED BY <2>0, <2>1, <2>2
<1>4. l \in Seq(KeySet) /\ Entries(l) = Entries(Revocations) \cup {public}
  BY <1>2, <1>3, AppendEntries
<1>5. cuts = 0 => revoked \subseteq Entries(Revocations)
  BY <1>1 DEF Revocations, KeysInv, RevocationsInv
<1> HIDE DEF l
<1>6. FilesInv'
  BY <1>1 DEF KeysInv, FilesInv, witnessed
<1>7. CommandInv'
  BY <1>1, <1>2 DEF KeysInv, CommandInv, Stages, Before, Rotating, witnessed
<1>8. KeptInv'
  BY <1>1 DEF KeysInv, KeptInv, KeysKept, witnessed
<1>9. HistoryInv'
  BY <1>1 DEF KeysInv, HistoryInv, Known, witnessed
<1>10. RevocationsInv'
  BY <1>1, <1>4, <1>5 DEF KeysInv, RevocationsInv, witnessed
<1> QED BY <1>6, <1>7, <1>8, <1>9, <1>10 DEF KeysInv

LEMMA WriteRevocationsKeeps ==
    ASSUME KeysInv, WriteRevocations
    PROVE  KeysInv'
<1>1. /\ command.at = "write revocations" /\ revocations' = command.list
      /\ torn' = torn \ {"revocations"} /\ revoked' = revoked \cup {command.old}
      /\ command' = [name |-> "none", at |-> "idle", old |-> NoKey, list |-> <<>>]
      /\ UNCHANGED <<private, public, archive, history, attestation, minted,
                     published, signed, halved, cuts>>
  BY DEF WriteRevocations, Idle
<1>2. FilesInv'
  BY <1>1 DEF KeysInv, FilesInv, CommandInv
<1>3. CommandInv'
  BY <1>1 DEF KeysInv, CommandInv, Stages, Before, Rotating
<1>4. KeptInv'
  BY <1>1 DEF KeysInv, KeptInv, KeysKept
<1>5. HistoryInv'
  BY <1>1 DEF KeysInv, HistoryInv, Known
<1>6. RevocationsInv'
  BY <1>1 DEF KeysInv, RevocationsInv
<1> QED BY <1>2, <1>3, <1>4, <1>5, <1>6 DEF KeysInv

\* A command is cut off.
LEMMA CutKeeps ==
    ASSUME KeysInv, Cut
    PROVE  KeysInv'
<1>1. /\ command.at # "idle" /\ cuts' = cuts + 1
      /\ halved' = IF command.at = "archive private" THEN halved \cup {private} ELSE halved
      /\ command' = [name |-> "none", at |-> "idle", old |-> NoKey, list |-> <<>>]
      /\ UNCHANGED <<disk, minted, published, signed, revoked>>
  BY DEF Cut, Idle
<1>2. cuts' \in 0..MaxIncidents /\ cuts' # 0
  <2>1. cuts + 1 \in 0..MaxIncidents
    BY IncidentsCounted DEF Cut, KeysInv, FilesInv
  <2>2. PICK n \in Nat : n = cuts
    BY KeysConstants DEF KeysInv, FilesInv
  <2>3. n + 1 # 0
    OBVIOUS
  <2> QED BY <1>1, <2>1, <2>2, <2>3
<1>3. FilesInv'
  BY <1>1, <1>2 DEF KeysInv, FilesInv, disk
<1>4. CommandInv'
  BY <1>1 DEF KeysInv, CommandInv, Stages, Before, Rotating, disk
<1>5. KeptInv'
  BY <1>1 DEF KeysInv, KeptInv, KeysKept, disk
<1>6. HistoryInv'
  <2>1. \A i \in DOMAIN history : history[i][2] \in Nat
    <3>1. history \in [1..Len(history) -> KeySet \X KeySet]
      BY LenProperties DEF KeysInv, HistoryInv, Statements
    <3> QED BY <3>1, KeysAreNumbers
  <2>2. \A s \in signed : s[2] \in Nat
    BY KeysAreNumbers DEF KeysInv, HistoryInv
  <2>3. \A k \in Nat : k <= Known => k <= Known'
    <3>1. Known' = minted /\ minted \in Nat /\ Known \in {minted, minted - 1}
      BY <1>1, FilesHoldKeys DEF Known, KeysInv
    <3> QED BY <3>1
  <2> QED BY <1>1, <1>2, <2>1, <2>2, <2>3 DEF KeysInv, HistoryInv, disk
<1>7. RevocationsInv'
  BY <1>1, <1>2 DEF KeysInv, RevocationsInv, disk
<1> QED BY <1>3, <1>4, <1>5, <1>6, <1>7 DEF KeysInv

LEMMA KeysNextKeeps ==
    ASSUME KeysInv, KeysNext
    PROVE  KeysInv'
BY KeygenKeeps, RotateKeeps, ArchivePublicKeeps, ArchivePrivateKeeps, GenerateKeeps, PublishKeeps,
   VouchKeeps, WriteHistoryKeeps, DropAttestationKeeps, RevokeKeeps, WriteRevocationsKeeps, CutKeeps
   DEF KeysNext, CommandStep

\* The server writes an attestation.
LEMMA AttestationKeeps ==
    ASSUME KeysInv, attestation' \in 0..MaxKeys,
           UNCHANGED <<private, public, archive, history, revocations, torn, command, witnessed>>
    PROVE  KeysInv'
<1>1. FilesInv'
  BY DEF KeysInv, FilesInv, witnessed
<1>2. CommandInv'
  BY DEF KeysInv, CommandInv, witnessed
<1>3. KeptInv'
  BY DEF KeysInv, KeptInv, KeysKept, witnessed
<1>4. HistoryInv'
  BY DEF KeysInv, HistoryInv, Known, witnessed
<1>5. RevocationsInv'
  BY DEF KeysInv, RevocationsInv, witnessed
<1> QED BY <1>1, <1>2, <1>3, <1>4, <1>5 DEF KeysInv

LEMMA KeysInvGives ==
    ASSUME KeysInv
    PROVE  KeysTypeOK /\ KeysKept /\ RevocationsStand /\ LineageOrdered
<1>1. KeysTypeOK
  <2>1. private \in 0..MaxKeys /\ public \in 0..MaxKeys
    <3>1. PICK m \in Nat : m = MaxKeys
      BY KeysConstants
    <3>2. PICK n \in 0..m : n = minted
      BY <3>1 DEF KeysInv, FilesInv
    <3>3. private \in 0..n /\ public \in {0, n}
      BY <3>2 DEF KeysInv, FilesInv, NoKey
    <3> QED BY <3>1, <3>2, <3>3
  <2> QED BY <2>1 DEF KeysTypeOK, KeysInv, FilesInv, HistoryInv, RevocationsInv
<1>2. KeysKept
  BY DEF KeysInv, KeptInv
<1>3. RevocationsStand
  <2>1. cuts = 0 \/ cuts > 0
    BY KeysConstants DEF KeysInv, FilesInv
  <2> QED BY <2>1 DEF KeysInv, RevocationsInv, RevocationsStand
<1>4. LineageOrdered
  BY DEF KeysInv, HistoryInv, Ordered, LineageOrdered
<1> QED BY <1>1, <1>2, <1>3, <1>4

-----------------------------------------------------------------------------
(***************************************************************************)
(* Induction.  The rule is stated for a set of numbers, and follows from   *)
(* the well-foundedness of <.                                              *)
(***************************************************************************)
LEMMA LeastElement ==
    ASSUME NEW S, S \subseteq Nat, S # {}
    PROVE  \E n \in S : \A m \in S : ~(m < n)
<1>1. \E n \in S : \A m \in S : ~(<<m, n>> \in OpToRel(<, Nat))
  BY NatLessThanWellFounded, WFMin
<1> QED BY <1>1 DEF OpToRel

\* A set with 0 and the successor of each of its numbers has all of them.
LEMMA Induction ==
    ASSUME NEW P, 0 \in P, \A n \in Nat : n \in P => n + 1 \in P
    PROVE  Nat \subseteq P
<1> SUFFICES ASSUME ~(Nat \subseteq P)
             PROVE  FALSE
  OBVIOUS
<1>1. PICK n \in Nat \ P : \A m \in Nat \ P : ~(m < n)
  BY LeastElement
<1>2. n # 0 /\ n - 1 \in Nat
  BY <1>1
<1>3. n - 1 \in P
  BY <1>1, <1>2
<1> QED BY <1>1, <1>2, <1>3

-----------------------------------------------------------------------------
(***************************************************************************)
(* The walk along a lineage                                                *)
(***************************************************************************)
\* The key trusted after n statements, given those, f, after fewer.
TrustStep(f, list, pinned, presented, n) ==
    IF n = 0 THEN pinned
    ELSE IF f[n - 1] # presented /\ list[n][1] = f[n - 1]
         THEN list[n][2]
         ELSE f[n - 1]

\* Steps look at earlier ones only ...
LEMMA TrustStepLocal ==
    ASSUME NEW list, NEW pinned, NEW presented, NEW m \in Nat, NEW f, NEW g,
           \A n \in 0..m : f[n] = g[n], NEW n \in 0..(m + 1)
    PROVE  TrustStep(f, list, pinned, presented, n) = TrustStep(g, list, pinned, presented, n)
<1>1. n # 0 => n - 1 \in 0..m
  OBVIOUS
<1>2. n # 0 => f[n - 1] = g[n - 1]
  BY <1>1
<1> QED BY <1>2 DEF TrustStep

\* ... so they can be taken one after the other, and make a function ...
LEMMA TrustFunction ==
    ASSUME NEW list, NEW pinned, NEW presented, NEW m \in Nat
    PROVE  \E g : g = [n \in 0..m |-> TrustStep(g, list, pinned, presented, n)]
<1> DEFINE Step(f, n) == TrustStep(f, list, pinned, presented, n)
           P == {l \in Nat : \E f : \A n \in 0..l : f[n] = Step(f, n)}
<1>1. 0 \in P
  <2> DEFINE f == [n \in 0..0 |-> pinned]
  <2>1. \A n \in 0..0 : f[n] = Step(f, n)
    BY DEF TrustStep
  <2> HIDE DEF f
  <2> QED BY <2>1
<1>2. ASSUME NEW l \in Nat, l \in P
      PROVE  l + 1 \in P
  <2>1. PICK f : \A n \in 0..l : f[n] = Step(f, n)
    BY <1>2
  <2> DEFINE g == [n \in 0..(l + 1) |-> IF n = l + 1 THEN Step(f, n) ELSE f[n]]
  <2>2. /\ \A n \in 0..l : f[n] = g[n]
        /\ g[l + 1] = Step(f, l + 1)
    OBVIOUS
  <2> HIDE DEF g
  <2>3. \A n \in 0..(l + 1) : Step(f, n) = Step(g, n)
    BY <2>2, TrustStepLocal
  <2>4. \A n \in 0..(l + 1) : n \in 0..l \/ n = l + 1
    OBVIOUS
  <2>5. \A n \in 0..(l + 1) : g[n] = Step(g, n)
    BY <2>1, <2>2, <2>3, <2>4
  <2> QED BY <2>5
<1>3. m \in P
  <2> HIDE DEF P
  <2> QED BY <1>1, <1>2, Induction
<1>4. PICK f : \A n \in 0..m : f[n] = Step(f, n)
  BY <1>3
<1>5. PICK g : g = [n \in 0..m |-> f[n]]
  OBVIOUS
<1>6. \A n \in 0..m : f[n] = g[n]
  BY <1>5
<1>7. \A n \in 0..(m + 1) : Step(f, n) = Step(g, n)
  BY <1>6, TrustStepLocal
<1>8. \A n \in 0..m : f[n] = Step(g, n)
  BY <1>4, <1>7
<1> QED BY <1>5, <1>8

\* ... whose last value is what the peer comes to trust.
Walk(list, pinned, presented, m, k) ==
    /\ k[0] = pinned
    /\ \A n \in Nat : n + 1 <= m => k[n + 1] =
          IF k[n] # presented /\ list[n + 1][1] = k[n] THEN list[n + 1][2] ELSE k[n]
    /\ Followed(list, pinned, presented) = k[m]

LEMMA FollowedWalks ==
    ASSUME NEW list, NEW pinned, NEW presented, NEW m \in Nat, m = Len(list)
    PROVE  \E k : Walk(list, pinned, presented, m, k)
<1> DEFINE Is(f) == f = [n \in 0..m |-> TrustStep(f, list, pinned, presented, n)]
           k == CHOOSE f : Is(f)
<1>1. \E f : Is(f)
  BY TrustFunction
<1>2. Followed(list, pinned, presented) = k[m]
  BY DEF Followed, TrustStep
<1>3. Is(k)
  BY <1>1
<1> HIDE DEF k
<1>4. \A n \in 0..m : k[n] = TrustStep(k, list, pinned, presented, n)
  BY <1>3
<1>5. k[0] = pinned
  BY <1>4 DEF TrustStep
<1>6. ASSUME NEW n \in Nat, n + 1 <= m
      PROVE  k[n + 1] = IF k[n] # presented /\ list[n + 1][1] = k[n]
                        THEN list[n + 1][2] ELSE k[n]
  <2>1. n + 1 \in 0..m /\ n + 1 # 0 /\ (n + 1) - 1 = n
    BY <1>6
  <2> QED BY <1>4, <2>1 DEF TrustStep
<1> QED BY <1>2, <1>5, <1>6 DEF Walk

\* The keys that a lineage, as far as it has been walked, leads to from the pin
\* are a set without the presented key, unless it has been reached.
Reach(list, pinned, presented, trusted, n, H) ==
    /\ H \subseteq KeySet /\ pinned \in H /\ presented \notin H /\ trusted \in H
    /\ \A h \in H : pinned <= h /\ h <= trusted
    /\ \A i \in 1..n : list[i][1] \in H => list[i][2] \in H
    /\ trusted = pinned \/ \E i \in 1..n : trusted = list[i][2]

LEMMA ReachGrows ==
    ASSUME NEW list, NEW m \in Nat, NEW n \in Nat, n + 1 <= m, DOMAIN list = 1..m,
           \A i \in 1..m : list[i][1] \in KeySet /\ list[i][2] \in KeySet,
           Ordered(list), NEW pinned, NEW presented, NEW trusted, NEW H,
           Reach(list, pinned, presented, trusted, n, H), NEW next,
           next = (IF trusted # presented /\ list[n + 1][1] = trusted
                   THEN list[n + 1][2] ELSE trusted)
    PROVE  next = presented \/ \E G : Reach(list, pinned, presented, next, n + 1, G)
<1>0. KeySet \subseteq Nat
  BY KeysConstants DEF KeySet
<1>1. n + 1 \in 1..m /\ 1..n \subseteq 1..m
  OBVIOUS
<1>2. PICK a \in KeySet, b \in KeySet : a = list[n + 1][1] /\ b = list[n + 1][2]
  BY <1>1
<1>3. a < b /\ \A i \in 1..n : list[i][2] <= a /\ list[i][1] < list[i][2]
  <2>1. \A i \in 1..n : i < n + 1
    OBVIOUS
  <2> QED BY <1>1, <1>2, <2>1 DEF Ordered
<1>4. pinned \in Nat /\ trusted \in Nat /\ a \in Nat /\ b \in Nat /\ \A h \in H : h \in Nat
  BY <1>0, <1>2 DEF Reach
<1>5. \A i \in 1..(n + 1) : i \in 1..n \/ i = n + 1
  OBVIOUS
<1>6. trusted # presented
  BY DEF Reach
\* The keys of the set lie before the statement's old key, or are the one trusted.
<1>7. a \in H => a = trusted
  <2> SUFFICES ASSUME a \in H PROVE a = trusted
    OBVIOUS
  <2>1. pinned <= a /\ a <= trusted
    BY DEF Reach
  <2>2. trusted = pinned \/ trusted <= a
    BY <1>3 DEF Reach
  <2> QED BY <1>4, <2>1, <2>2
<1>8. CASE a = trusted
  <2>1. next = b
    BY <1>2, <1>6, <1>8
  <2>2. ASSUME b # presented PROVE Reach(list, pinned, presented, b, n + 1, H \cup {b})
    <3>1. H \cup {b} \subseteq KeySet /\ pinned \in H /\ presented \notin H \cup {b}
      BY <1>2, <2>2 DEF Reach
    <3>2. \A h \in H \cup {b} : pinned <= h /\ h <= b
      <4>1. pinned <= trusted
        BY DEF Reach
      <4>2. pinned <= b
        BY <1>3, <1>4, <1>8, <4>1
      <4>3. \A h \in H : pinned <= h /\ h <= trusted
        BY DEF Reach
      <4>4. \A h \in H : h <= b
        BY <1>3, <1>4, <1>8, <4>3
      <4> QED BY <1>4, <4>2, <4>3, <4>4
    <3>3. ASSUME NEW i \in 1..(n + 1), list[i][1] \in H \cup {b}
          PROVE  list[i][2] \in H \cup {b}
      <4>1. CASE i = n + 1
        BY <1>2, <4>1
      <4>2. CASE i \in 1..n
        <5>1. list[i][1] < list[i][2] /\ list[i][2] <= a
          BY <1>3, <4>2
        <5>2. list[i][1] \in Nat /\ list[i][2] \in Nat
          BY <1>0, <1>1, <4>2
        <5>3. list[i][1] # b
          BY <1>3, <1>4, <5>1, <5>2
        <5> QED BY <3>3, <4>2, <5>3 DEF Reach
      <4> QED BY <1>5, <4>1, <4>2
    <3>4. n + 1 \in 1..(n + 1)
      OBVIOUS
    <3> QED BY <1>2, <3>1, <3>2, <3>3, <3>4 DEF Reach
  <2> QED BY <2>1, <2>2
<1>9. CASE a # trusted
  <2>1. next = trusted /\ a \notin H
    BY <1>2, <1>7, <1>9
  <2>2. \A i \in 1..(n + 1) : list[i][1] \in H => list[i][2] \in H
    BY <1>2, <1>5, <2>1 DEF Reach
  <2>3. 1..n \subseteq 1..(n + 1)
    OBVIOUS
  <2>4. Reach(list, pinned, presented, next, n + 1, H)
    BY <2>1, <2>2, <2>3 DEF Reach
  <2> QED BY <2>4
<1> QED BY <1>8, <1>9

\* The walk misses nothing: a key it does not reach is not vouched for.
LEMMA FollowedReaches ==
    ASSUME NEW list \in Statements, Ordered(list), NEW pinned \in KeySet, NEW presented,
           Followed(list, pinned, presented) # presented
    PROVE  \E H \in SUBSET KeySet : /\ pinned \in H /\ presented \notin H
                                    /\ \A s \in Entries(list) : s[1] \in H => s[2] \in H
<1>1. PICK m \in Nat : m = Len(list)
  BY LenProperties DEF Statements
<1>2. DOMAIN list = 1..m /\ \A i \in 1..m : list[i] \in KeySet \X KeySet
  BY <1>1, LenProperties, ElementOfSeq DEF Statements
<1>3. \A i \in 1..m : list[i][1] \in KeySet /\ list[i][2] \in KeySet
  BY <1>2
<1>a. PICK k : Walk(list, pinned, presented, m, k)
  BY <1>1, FollowedWalks
<1>4. /\ k[0] = pinned
      /\ \A n \in Nat : n + 1 <= m => k[n + 1] =
            IF k[n] # presented /\ list[n + 1][1] = k[n] THEN list[n + 1][2] ELSE k[n]
      /\ Followed(list, pinned, presented) = k[m]
  BY <1>a DEF Walk
<1> DEFINE P == {n \in Nat : n <= m =>
                   \/ k[n] = presented
                   \/ \E H : Reach(list, pinned, presented, k[n], n, H)}
<1>5. 0 \in P
  <2> SUFFICES ASSUME pinned # presented PROVE Reach(list, pinned, presented, pinned, 0, {pinned})
    BY <1>4
  <2>1. pinned \in Nat
    BY KeysAreNumbers
  <2> QED BY <2>1 DEF Reach
<1>6. ASSUME NEW n \in Nat, n \in P PROVE n + 1 \in P
  <2> SUFFICES ASSUME n + 1 <= m
               PROVE  \/ k[n + 1] = presented
                      \/ \E H : Reach(list, pinned, presented, k[n + 1], n + 1, H)
    OBVIOUS
  <2>1. k[n + 1] = IF k[n] # presented /\ list[n + 1][1] = k[n] THEN list[n + 1][2] ELSE k[n]
    BY <1>4
  <2>2. k[n] = presented \/ \E H : Reach(list, pinned, presented, k[n], n, H)
    BY <1>6
  <2>3. CASE k[n] = presented
    BY <2>1, <2>3
  <2>4. ASSUME NEW H, Reach(list, pinned, presented, k[n], n, H)
        PROVE  \/ k[n + 1] = presented
               \/ \E G : Reach(list, pinned, presented, k[n + 1], n + 1, G)
    BY <1>2, <1>3, <2>1, <2>4, ReachGrows
  <2> QED BY <2>2, <2>3, <2>4
<1>7. m \in P
  <2> HIDE DEF P
  <2> QED BY <1>5, <1>6, Induction
<1>8. PICK H : Reach(list, pinned, presented, k[m], m, H)
  BY <1>4, <1>7
<1>9. \A s \in Entries(list) : s[1] \in H => s[2] \in H
  BY <1>2, <1>8 DEF Reach, Entries
<1> QED BY <1>8, <1>9 DEF Reach

\* The walk follows nothing but statements.
LEMMA FollowedLinked ==
    ASSUME NEW list \in Statements, Entries(list) \subseteq signed, NEW pinned \in KeySet,
           NEW presented
    PROVE  Linked(pinned, Followed(list, pinned, presented))
<1>1. PICK m \in Nat : m = Len(list)
  BY LenProperties DEF Statements
<1>2. DOMAIN list = 1..m
  BY <1>1, LenProperties DEF Statements
<1>a. PICK k : Walk(list, pinned, presented, m, k)
  BY <1>1, FollowedWalks
<1>3. /\ k[0] = pinned
      /\ \A n \in Nat : n + 1 <= m => k[n + 1] =
            IF k[n] # presented /\ list[n + 1][1] = k[n] THEN list[n + 1][2] ELSE k[n]
      /\ Followed(list, pinned, presented) = k[m]
  BY <1>a DEF Walk
<1> SUFFICES ASSUME NEW heirs \in SUBSET KeySet, pinned \in heirs,
                    \A s \in signed : s[1] \in heirs => s[2] \in heirs
             PROVE  Followed(list, pinned, presented) \in heirs
  BY DEF Linked
<1> DEFINE P == {n \in Nat : n <= m => k[n] \in heirs}
<1>4. 0 \in P
  BY <1>3
<1>5. ASSUME NEW n \in Nat, n \in P PROVE n + 1 \in P
  <2> SUFFICES ASSUME n + 1 <= m PROVE k[n + 1] \in heirs
    OBVIOUS
  <2>1. k[n] \in heirs /\ n + 1 \in DOMAIN list
    BY <1>2, <1>5
  <2>2. list[n + 1] \in signed
    BY <2>1 DEF Entries
  <2> QED BY <1>3, <2>1, <2>2
<1>6. m \in P
  <2> HIDE DEF P
  <2> QED BY <1>4, <1>5, Induction
<1> QED BY <1>3, <1>6

LEMMA LinkedItself == \A a : Linked(a, a)
BY DEF Linked

LEMMA LinkedOn ==
    ASSUME NEW a, NEW b, NEW c, Linked(a, b), Linked(b, c)
    PROVE  Linked(a, c)
BY DEF Linked

\* Later statements take nothing back.
LEMMA LinkedStays ==
    ASSUME signed \subseteq signed', NEW a, NEW b, Linked(a, b)
    PROVE  Linked(a, b)'
BY DEF Linked

-----------------------------------------------------------------------------
(***************************************************************************)
(* What the commands do to what a peer may have been told                  *)
(***************************************************************************)
\* Whatever a list of statements holds has been signed.
LineageSigned ==
    /\ Entries(history) \subseteq signed
    /\ command.at = "write history" => Entries(command.list) \subseteq signed

\* Keys and statements are only added, and a new statement leads past every key
\* that may have been anybody's.
Onward ==
    /\ minted <= minted' /\ Known <= Known'
    /\ signed \subseteq signed' /\ \A s \in signed' \ signed : Known < s[2]
    /\ cuts' = 0 => cuts = 0

LEMMA KnownIsNumber ==
    KeysInv => minted \in Nat /\ minted \in Int /\ Known \in Int /\ Known <= minted
BY FilesHoldKeys DEF Known, KeysInv

LEMMA NotLess == \A a \in Int : a <= a
OBVIOUS

\* A step that adds neither.
LEMMA OnwardSame ==
    ASSUME KeysInv, LineageSigned, minted' = minted, UNCHANGED <<signed, cuts, history>>,
           command'.at # "write history", command.at \notin {"publish", "vouch"},
           command'.at \notin {"publish", "vouch"}
    PROVE  LineageSigned' /\ Onward
<1>1. Known' = Known
  BY DEF Known
<1>2. minted <= minted' /\ Known <= Known'
  <2>1. minted \in Int /\ Known \in Int
    BY KnownIsNumber, Zenon
  <2> QED BY <1>1, <2>1, NotLess, Zenon
<1> QED BY <1>2 DEF LineageSigned, Onward

LEMMA CommandsGoOnward ==
    ASSUME KeysInv, LineageSigned, KeysNext
    PROVE  LineageSigned' /\ Onward
<1>a. PICK n \in Nat : n = minted
  BY KnownIsNumber
<1>b. cuts \in Nat
  BY KeysConstants DEF KeysInv, FilesInv
<1>1. ASSUME NEW overwrite \in BOOLEAN, Keygen(overwrite)
      PROVE  LineageSigned' /\ Onward
  <2>1. command'.at \in {"archive", "generate"}
    BY <1>1 DEF Keygen, Idle
  <2> QED BY <1>1, <2>1, OnwardSame DEF Keygen, disk, witnessed
<1>2. CASE Rotate
  BY <1>2, OnwardSame DEF Rotate, Idle, disk, witnessed
<1>3. CASE Revoke
  BY <1>3, OnwardSame DEF Revoke, disk, witnessed
<1>4. CASE ArchivePublic
  <2>1. command'.at = "archive private"
    BY <1>4 DEF ArchivePublic, GoOn, KeysInv, CommandInv
  <2> QED BY <1>4, <2>1, OnwardSame DEF ArchivePublic, witnessed
<1>5. CASE ArchivePrivate
  <2>1. command'.at = "generate"
    BY <1>5 DEF ArchivePrivate, GoOn, KeysInv, CommandInv
  <2> QED BY <1>5, <2>1, OnwardSame DEF ArchivePrivate, witnessed
<1>6. CASE Generate
  <2>1. command.at = "generate" /\ command'.at = "publish" /\ minted' = n + 1
        /\ UNCHANGED <<signed, cuts, history>>
    BY <1>6, <1>a DEF Generate, GoOn, KeysInv, CommandInv
  <2>2. Known = n /\ Known' = n + 1 - 1
    BY <1>a, <2>1 DEF Known
  <2>3. minted <= minted' /\ Known <= Known'
    BY <1>a, <2>1, <2>2
  <2> QED BY <2>1, <2>3 DEF LineageSigned, Onward
<1>7. CASE Publish
  <2>1. command.at = "publish" /\ command'.at \in {"vouch", "idle"}
        /\ UNCHANGED <<minted, signed, cuts, history>>
    BY <1>7 DEF Publish, GoOn, Idle, KeysInv, CommandInv
  <2>2. Known = n - 1 /\ Known' \in {n - 1, n}
    BY <1>a, <2>1 DEF Known
  <2>3. minted <= minted' /\ Known <= Known'
    BY <1>a, <2>1, <2>2
  <2> QED BY <2>1, <2>3 DEF LineageSigned, Onward
<1>8. CASE Vouch
  <2> DEFINE x == <<command.old, minted>>
             l == Append(Lineage, x)
  <2>1. /\ command.at = "vouch" /\ command.old = n - 1 /\ command.old # NoKey /\ n # NoKey
        /\ UNCHANGED <<minted, cuts, history>> /\ signed' = signed \cup {x}
        /\ command'.at = "write history" /\ command'.list = l
    BY <1>8, <1>a DEF Vouch, KeysInv, CommandInv, Rotating
  <2>2. Known = n - 1 /\ Known' = n
    BY <1>a, <2>1 DEF Known
  <2>3. minted <= minted' /\ Known <= Known' /\ Known < x[2]
    <3>1. minted = n /\ minted' = n /\ x[2] = n
      BY <1>a, <2>1
    <3>2. n <= n /\ n - 1 <= n /\ n - 1 < n
      OBVIOUS
    <3> QED BY <2>2, <3>1, <3>2
  <2>4. x \in KeySet \X KeySet
    <3>1. n \in KeySet /\ n <= MaxKeys /\ MaxKeys \in Nat
      BY <1>a, <2>1, FilesHoldKeys DEF KeysInv
    <3>2. PICK o \in Int : o = n - 1
      OBVIOUS
    <3>3. o = command.old /\ o # 0
      BY <2>1, <3>2 DEF NoKey
    <3>4. o \in KeySet
      BY <3>1, <3>2, <3>3 DEF KeySet
    <3> QED BY <1>a, <3>1, <3>3, <3>4
  <2>5. Lineage \in Statements /\ Entries(Lineage) \subseteq signed
    <3>1. CASE "history" \in torn
      <4>1. Lineage = <<>>
        BY <3>1 DEF Lineage
      <4>2. Lineage \in Statements
        BY <4>1 DEF Statements
      <4> QED BY <4>1, <4>2 DEF Entries
    <3>2. CASE "history" \notin torn
      BY <3>2 DEF Lineage, KeysInv, HistoryInv, LineageSigned
    <3> QED BY <3>1, <3>2
  <2>6. Entries(l) = Entries(Lineage) \cup {x}
    <3>1. PICK A : A = KeySet \X KeySet
      OBVIOUS
    <3>2. Lineage \in Seq(A) /\ x \in A
      BY <2>4, <2>5, <3>1 DEF Statements
    <3> HIDE DEF x
    <3> QED BY <3>2, AppendEntries
  <2> HIDE DEF l, x
  <2> QED BY <2>1, <2>3, <2>5, <2>6 DEF LineageSigned, Onward
<1>9. CASE WriteHistory
  <2>1. command.at = "write history" /\ history' = command.list /\ command'.at = "unlink"
        /\ UNCHANGED <<minted, signed, cuts>>
    BY <1>9 DEF WriteHistory, GoOn, KeysInv, CommandInv, witnessed
  <2>2. Known = n /\ Known' = n
    BY <1>a, <2>1 DEF Known
  <2>3. minted <= minted' /\ Known <= Known'
    <3>1. minted = n /\ minted' = n
      BY <1>a, <2>1
    <3> QED BY <2>2, <3>1
  <2> QED BY <2>1, <2>3 DEF LineageSigned, Onward
<1>10. CASE DropAttestation
  BY <1>10, OnwardSame DEF DropAttestation, Idle, witnessed
<1>11. CASE WriteRevocations
  BY <1>11, OnwardSame DEF WriteRevocations, Idle
<1>12. CASE Cut
  <2>1. command'.at = "idle" /\ cuts' = cuts + 1 /\ UNCHANGED <<minted, signed, history>>
    BY <1>12 DEF Cut, Idle, disk
  <2>2. Known \in {n - 1, n} /\ Known' = n
    BY <1>a, <2>1 DEF Known
  <2>3. minted <= minted' /\ Known <= Known' /\ cuts' # 0
    BY <1>a, <1>b, <2>1, <2>2
  <2> QED BY <2>1, <2>3 DEF LineageSigned, Onward
<1> QED
  BY <1>1, <1>2, <1>3, <1>4, <1>5, <1>6, <1>7, <1>8, <1>9, <1>10, <1>11, <1>12
     DEF KeysNext, CommandStep

-----------------------------------------------------------------------------
(***************************************************************************)
(* What a thread of the peer has been told                                 *)
(***************************************************************************)
Entry == [present : BOOLEAN, key : 0..MaxKeys]
Saving == {"save", "replace"}

Shaped(p) ==
    p = [at |-> p.at, op |-> p.op, key |-> p.key, by |-> p.by, doc |-> p.doc,
         unfinished |-> p.unfinished, copy |-> p.copy]

\* A document names a generated key, and its lineage is in order and holds what
\* was signed.  If it was told between commands none of which was cut off, every
\* statement that is missing leads past the key it names.
Asserted(doc, unfinished) ==
    /\ doc.key \in 1..minted
    /\ doc.history \in Statements /\ Ordered(doc.history) /\ Entries(doc.history) \subseteq signed
    /\ ~unfinished /\ cuts = 0 =>
          /\ doc.key <= Known
          /\ \A s \in signed : s \in Entries(doc.history) \/ doc.key < s[2]

Told(p) ==
    /\ p.at \in {"private", "document"} => p.key \in 1..minted
    /\ p.at = "document" => p.by \in 0..MaxKeys
    /\ p.at = "check" => Asserted(p.doc, p.unfinished)
    /\ p.at \in Saving => p.copy \in Entry

MeshInv ==
    /\ KeysInv /\ LineageSigned
    /\ manifest \in Entry /\ temporary \in Entry \cup {Missing}
    /\ peer = [t \in Peers |-> peer[t]]
    /\ \A t \in Peers : Shaped(peer[t]) /\ Told(peer[t])

\* What it has been told stays true whatever the member's operator does.
LEMMA ToldStays ==
    ASSUME KeysInv, KeysInv', Onward, NEW p, Told(p)
    PROVE  Told(p)'
<1>0. minted \in Nat /\ minted' \in Nat
  BY KeysConstants DEF KeysInv, FilesInv
<1>1. PICK n \in Nat, m \in Nat : n = minted /\ m = minted' /\ n <= m
  BY <1>0 DEF Onward
<1>2. 1..n \subseteq 1..m
  BY <1>1
<1>3. p.at \in {"private", "document"} => p.key \in 1..minted'
  BY <1>1, <1>2 DEF Told
<1>4. ASSUME p.at = "check" PROVE Asserted(p.doc, p.unfinished)'
  <2>1. Asserted(p.doc, p.unfinished)
    BY <1>4 DEF Told
  <2>2. p.doc.key \in 1..minted'
    BY <1>1, <1>2, <2>1 DEF Asserted
  <2>3. ASSUME ~p.unfinished, cuts' = 0
        PROVE  /\ p.doc.key <= Known'
               /\ \A s \in signed' : s \in Entries(p.doc.history) \/ p.doc.key < s[2]
    <3>1. /\ p.doc.key <= Known
          /\ \A s \in signed : s \in Entries(p.doc.history) \/ p.doc.key < s[2]
      BY <2>1, <2>3 DEF Asserted, Onward
    <3>2. PICK k \in Nat, a \in Int, b \in Int :
             k = p.doc.key /\ a = Known /\ b = Known' /\ a <= b /\ k <= a
      <4>1. Known \in Int /\ Known' \in Int
        BY <1>0 DEF Known
      <4>2. p.doc.key \in Nat
        BY <1>1, <2>1 DEF Asserted
      <4> QED BY <3>1, <4>1, <4>2 DEF Onward
    <3>3. ASSUME NEW s \in signed', s \notin signed
          PROVE  k < s[2]
      <4>1. s[2] \in Nat /\ a < s[2]
        BY <3>2, <3>3, KeysAreNumbers DEF KeysInv, HistoryInv, Onward
      <4> QED BY <3>2, <4>1
    <3>4. k <= b
      BY <3>2
    <3> QED BY <3>1, <3>2, <3>3, <3>4
  <2> QED BY <2>1, <2>2, <2>3 DEF Asserted, Onward, Statements
<1> QED BY <1>3, <1>4 DEF Told, Entry

LEMMA OnwardStill ==
    ASSUME KeysInv, UNCHANGED <<minted, command, signed, cuts>>
    PROVE  Onward
<1>1. minted \in Int /\ Known \in Int /\ Known' = Known
  BY KnownIsNumber, Zenon DEF Known
<1>2. minted <= minted' /\ Known <= Known'
  BY <1>1, NotLess, Zenon
<1> QED BY <1>2, Zenon DEF Onward

\* A step of one thread.
LEMMA ThreadKeeps ==
    ASSUME MeshInv, KeysInv', UNCHANGED <<minted, command, signed, cuts, history>>,
           manifest' \in Entry, temporary' \in Entry \cup {Missing},
           NEW t \in Peers, NEW p, peer' = [peer EXCEPT ![t] = p], Shaped(p), Told(p)
    PROVE  MeshInv'
<1>1. Onward
  BY OnwardStill DEF MeshInv
<1>2. LineageSigned'
  BY DEF MeshInv, LineageSigned
<1>3. peer' = [u \in Peers |-> peer'[u]] /\ peer'[t] = p
      /\ \A u \in Peers : u # t => peer'[u] = peer[u]
  BY DEF MeshInv
<1>4. ASSUME NEW u \in Peers PROVE Shaped(peer'[u]) /\ Told(peer[u])'
  <2>1. PICK q : q = peer'[u] /\ Shaped(q) /\ Told(q)
    BY <1>3 DEF MeshInv
  <2>2. Told(q)'
    BY <1>1, <2>1, ToldStays DEF MeshInv
  <2> QED BY <2>1, <2>2 DEF Told, Asserted
<1> QED BY <1>2, <1>3, <1>4 DEF MeshInv, Shaped, Entry, Missing

LEMMA NoKeyIsKey ==
    0 \in 0..MaxKeys /\ NoKey \in 0..MaxKeys /\ Gone \in Entry /\ Shaped(Quiet) /\ Told(Quiet)
<1>1. 0 \in 0..MaxKeys
  BY KeysConstants
<1> QED BY <1>1 DEF NoKey, Gone, Entry, Shaped, Quiet, Told, Saving

LEMMA KeysStill == KeysInv /\ UNCHANGED keyVars => KeysInv'
<1> SUFFICES ASSUME KeysInv, UNCHANGED keyVars PROVE KeysInv'
  OBVIOUS
<1>1. attestation' \in 0..MaxKeys
  BY DEF KeysInv, FilesInv, keyVars, disk
<1> QED BY <1>1, AttestationKeeps DEF keyVars, disk

\* Threads that ask, and threads that write the manifest.
LEMMA DiscoverKeeps ==
    ASSUME MeshInv, NEW t \in Peers, NEW op \in {"refresh", "verify"}, Discover(t, op)
    PROVE  MeshInv'
<1>1. PICK p : p = [Quiet EXCEPT !.at = "public", !.op = op]
  OBVIOUS
<1>2. peer' = [peer EXCEPT ![t] = p] /\ UNCHANGED <<keyVars, manifest, temporary>>
  BY <1>1 DEF Discover
<1>3. Shaped(p) /\ Told(p)
  BY <1>1 DEF Shaped, Told, Quiet, Saving
<1>4. KeysInv' /\ UNCHANGED <<minted, command, signed, cuts, history>>
  BY <1>2, KeysStill DEF MeshInv, keyVars, disk, witnessed
<1> QED BY <1>2, <1>3, <1>4, ThreadKeeps DEF MeshInv, Entry, Missing

LEMMA FetchPublicKeeps ==
    ASSUME MeshInv, NEW t \in Peers, FetchPublic(t)
    PROVE  MeshInv'
<1>1. PICK q : q = peer[t]
  OBVIOUS
<1>2. PICK p : p = IF public = NoKey THEN Quiet ELSE [q EXCEPT !.at = "private", !.key = public]
  OBVIOUS
<1>3. peer' = [peer EXCEPT ![t] = p] /\ UNCHANGED <<keyVars, manifest, temporary>>
  BY <1>1, <1>2 DEF FetchPublic
<1>4. Shaped(p) /\ Told(p)
  <2>1. CASE public = NoKey
    BY <1>2, <2>1, NoKeyIsKey
  <2>2. CASE public # NoKey
    <3>1. Shaped(q)
      BY <1>1 DEF MeshInv
    <3>2. p = [at |-> "private", op |-> q.op, key |-> public, by |-> q.by, doc |-> q.doc,
               unfinished |-> q.unfinished, copy |-> q.copy]
      BY <1>2, <2>2, <3>1 DEF Shaped
    <3>3. public \in 1..minted
      <4>1. PICK n \in Nat : n = minted
        BY KnownIsNumber DEF MeshInv
      <4>2. public = n /\ n # 0
        BY <2>2, <4>1 DEF MeshInv, KeysInv, FilesInv, NoKey
      <4>3. n \in 1..n
        BY <4>2
      <4> QED BY <4>1, <4>2, <4>3
    <3> QED BY <3>2, <3>3 DEF Shaped, Told, Saving
  <2> QED BY <2>1, <2>2
<1>5. KeysInv' /\ UNCHANGED <<minted, command, signed, cuts, history>>
  BY <1>3, KeysStill DEF MeshInv, keyVars, disk, witnessed
<1> QED BY <1>3, <1>4, <1>5, ThreadKeeps DEF MeshInv, Entry, Missing

LEMMA FetchPrivateKeeps ==
    ASSUME MeshInv, NEW t \in Peers, FetchPrivate(t)
    PROVE  MeshInv'
<1>1. PICK q : q = peer[t] /\ q.at = "private" /\ Shaped(q) /\ Told(q)
  BY DEF MeshInv, FetchPrivate
<1>2. PICK p : p = [at |-> "document", op |-> q.op, key |-> q.key, by |-> private, doc |-> q.doc,
                    unfinished |-> q.unfinished, copy |-> q.copy]
  OBVIOUS
<1>3. peer' = [peer EXCEPT ![t] = p] /\ UNCHANGED <<keyVars, manifest, temporary>>
  <2>1. peer' = [peer EXCEPT ![t].at = "document", ![t].by = private]
        /\ UNCHANGED <<keyVars, manifest, temporary>>
    BY DEF FetchPrivate
  <2>2. peer' = [peer EXCEPT ![t] = [q EXCEPT !.at = "document", !.by = private]]
    BY <1>1, <2>1 DEF MeshInv
  <2>3. PICK r : r = [q EXCEPT !.at = "document", !.by = private]
    OBVIOUS
  <2>4. r = [at |-> "document", op |-> q.op, key |-> q.key, by |-> private, doc |-> q.doc,
             unfinished |-> q.unfinished, copy |-> q.copy]
    BY <1>1, <2>3 DEF Shaped
  <2> QED BY <1>2, <2>1, <2>2, <2>3, <2>4
<1>4. private \in 0..MaxKeys
  <2>1. private = 0 \/ private \in KeySet
    BY FilesHoldKeys DEF MeshInv, KeysInv, NoKey
  <2> QED BY <2>1, NoKeyIsKey DEF KeySet
<1>5. Shaped(p) /\ Told(p)
  BY <1>1, <1>2, <1>4 DEF Shaped, Told, Saving
<1>6. KeysInv' /\ UNCHANGED <<minted, command, signed, cuts, history>>
  BY <1>3, KeysStill DEF MeshInv, keyVars, disk, witnessed
<1> QED BY <1>3, <1>5, <1>6, ThreadKeeps DEF MeshInv, Entry, Missing

\* The document is what the directory holds when it is put together.
LEMMA FetchDocumentKeeps ==
    ASSUME MeshInv, NEW t \in Peers, FetchDocument(t)
    PROVE  MeshInv'
<1>1. PICK q : q = peer[t] /\ q.at = "document" /\ Shaped(q) /\ Told(q)
  BY DEF MeshInv, FetchDocument
<1>2. PICK d : d = Identity(q.key, q.by)
  OBVIOUS
<1>3. PICK u : u = (command.at # "idle" \/ q.key # q.by)
  OBVIOUS
<1>4. PICK p : p = [at |-> "check", op |-> q.op, key |-> q.key, by |-> q.by, doc |-> d,
                    unfinished |-> u, copy |-> q.copy]
  OBVIOUS
<1>5. peer' = [peer EXCEPT ![t] = p]
  <2>1. peer' = [peer EXCEPT ![t].at = "check", ![t].doc = Identity(peer[t].key, peer[t].by),
                 ![t].unfinished = command.at # "idle" \/ peer[t].key # peer[t].by]
    BY DEF FetchDocument
  <2>2. peer' = [peer EXCEPT ![t] = [q EXCEPT !.at = "check", !.doc = d, !.unfinished = u]]
    BY <1>1, <1>2, <1>3, <2>1 DEF MeshInv
  <2>3. PICK r : r = [q EXCEPT !.at = "check", !.doc = d, !.unfinished = u]
    OBVIOUS
  <2>4. r = [at |-> "check", op |-> q.op, key |-> q.key, by |-> q.by, doc |-> d,
             unfinished |-> u, copy |-> q.copy]
    BY <1>1, <2>3 DEF Shaped
  <2> QED BY <1>4, <2>2, <2>3, <2>4
<1>6. /\ UNCHANGED <<private, public, archive, history, revocations, torn, command,
                     witnessed, manifest, temporary>>
      /\ Attest(q.key, q.by)
  BY <1>1 DEF FetchDocument
<1>a. PICK n \in Nat : n = minted /\ n <= MaxKeys /\ MaxKeys \in Nat
  BY FilesHoldKeys DEF MeshInv, KeysInv
<1>b. q.key \in 1..n /\ q.key \in 0..MaxKeys /\ q.key \in Nat /\ q.key # NoKey /\ q.key <= n
  <2>1. PICK k \in 1..n : k = q.key
    BY <1>1, <1>a DEF Told
  <2>2. k \in 0..MaxKeys /\ k \in Nat /\ k # NoKey /\ k <= n
    BY <1>a, <2>1 DEF NoKey
  <2> QED BY <2>1, <2>2
<1>7. attestation' \in 0..MaxKeys
  BY <1>6, <1>b, NoKeyIsKey DEF Attest, MeshInv, KeysInv, FilesInv
<1>8. KeysInv'
  BY <1>6, <1>7, AttestationKeeps DEF MeshInv
<1>9. Asserted(d, u)
  <2>1. d.key = q.key /\ d.history = IF q.by = NoKey THEN <<>> ELSE Lineage
    BY <1>2 DEF Identity
  <2>2. d.history \in Statements /\ Ordered(d.history) /\ Entries(d.history) \subseteq signed
    <3>1. CASE d.history = <<>>
      <4>1. d.history \in Statements
        BY <3>1 DEF Statements
      <4> QED BY <3>1, <4>1 DEF Ordered, Entries
    <3>2. CASE d.history = history
      BY <3>2 DEF MeshInv, KeysInv, HistoryInv, LineageSigned
    <3> QED BY <2>1, <3>1, <3>2 DEF Lineage
  <2>3. ASSUME ~u, cuts = 0
        PROVE  d.key <= Known /\ \A s \in signed : s \in Entries(d.history) \/ d.key < s[2]
    <3>1. command.at = "idle" /\ q.by # NoKey
      BY <1>3, <1>b, <2>3
    <3>2. Known = n
      BY <1>a, <3>1 DEF Known
    <3>3. Entries(d.history) = signed
      BY <2>1, <2>3, <3>1 DEF Lineage, MeshInv, KeysInv, HistoryInv
    <3> QED BY <1>b, <2>1, <3>2, <3>3
  <2> QED BY <1>a, <1>b, <2>1, <2>2, <2>3 DEF Asserted
<1>10. Shaped(p) /\ Told(p)
  BY <1>4, <1>9 DEF Shaped, Told, Saving
<1> QED BY <1>5, <1>6, <1>8, <1>10, ThreadKeeps DEF MeshInv, Entry, Missing, witnessed

LEMMA QuietKeeps ==
    ASSUME MeshInv, NEW t \in Peers, peer' = [peer EXCEPT ![t] = Quiet], UNCHANGED keyVars,
           manifest' = manifest, temporary' \in Entry \cup {Missing}
    PROVE  MeshInv'
<1>1. KeysInv' /\ UNCHANGED <<minted, command, signed, cuts, history>>
  BY KeysStill DEF MeshInv, keyVars, disk, witnessed
<1> QED BY <1>1, NoKeyIsKey, ThreadKeeps DEF MeshInv

LEMMA SavingKeeps ==
    ASSUME MeshInv, NEW t \in Peers, NEW p, Shaped(p), p.at \in Saving, p.copy \in Entry,
           peer' = [peer EXCEPT ![t] = p], UNCHANGED keyVars,
           manifest' = manifest, temporary' \in Entry \cup {Missing}
    PROVE  MeshInv'
<1>1. KeysInv' /\ UNCHANGED <<minted, command, signed, cuts, history>>
  BY KeysStill DEF MeshInv, keyVars, disk, witnessed
<1>2. Told(p)
  BY DEF Told, Saving
<1> QED BY <1>1, <1>2, ThreadKeeps DEF MeshInv

LEMMA EntryOfKey ==
    ASSUME NEW e \in Entry, NEW k \in 0..MaxKeys
    PROVE  [e EXCEPT !.key = k] = [present |-> e.present, key |-> k]
           /\ [e EXCEPT !.key = k] \in Entry
BY DEF Entry

LEMMA RejectKeeps ==
    ASSUME MeshInv, NEW t \in Peers, Reject(t)
    PROVE  MeshInv'
BY QuietKeeps DEF Reject, MeshInv

LEMMA RepinnedIsEntry ==
    ASSUME NEW e \in Entry, NEW doc, doc.key \in 0..MaxKeys
    PROVE  Repinned(e, doc) \in Entry
BY EntryOfKey DEF Repinned

LEMMA DocumentNames ==
    ASSUME MeshInv, NEW t \in Peers, peer[t].at = "check"
    PROVE  /\ peer[t].doc.key \in KeySet /\ peer[t].doc.key \in 0..MaxKeys
           /\ peer[t].doc.key # NoKey
           /\ Asserted(peer[t].doc, peer[t].unfinished)
<1>1. PICK k : k = peer[t].doc.key /\ k \in 1..minted
           /\ Asserted(peer[t].doc, peer[t].unfinished)
  BY DEF MeshInv, Told, Asserted
<1>2. PICK n \in Nat, m \in Nat : n = minted /\ m = MaxKeys /\ n <= m
  BY FilesHoldKeys DEF MeshInv, KeysInv
<1>3. k \in 1..m /\ k \in 0..m /\ k # 0
  BY <1>1, <1>2
<1> QED BY <1>1, <1>2, <1>3 DEF KeySet, NoKey

LEMMA CheckKeeps ==
    ASSUME MeshInv, NEW t \in Peers, Check(t)
    PROVE  MeshInv'
<1>1. PICK q : q = peer[t] /\ q.at = "check" /\ Shaped(q)
  BY DEF MeshInv, Check
<1>2. PICK e \in Entry : e = Repinned(manifest, q.doc)
  BY <1>1, DocumentNames, RepinnedIsEntry DEF MeshInv
<1>3. PICK p : p = [q EXCEPT !.at = "save", !.copy = e]
  OBVIOUS
<1>4. p = [at |-> "save", op |-> q.op, key |-> q.key, by |-> q.by, doc |-> q.doc,
           unfinished |-> q.unfinished, copy |-> e]
  BY <1>1, <1>3 DEF Shaped
<1>5. /\ \/ peer' = [peer EXCEPT ![t] = Quiet]
         \/ peer' = [peer EXCEPT ![t] = p]
      /\ UNCHANGED <<keyVars, manifest, temporary>>
  BY <1>1, <1>2, <1>3 DEF Check
<1>6. Shaped(p) /\ p.at \in Saving /\ p.copy \in Entry
  BY <1>4 DEF Shaped, Saving
<1> QED BY <1>5, <1>6, QuietKeeps, SavingKeeps DEF MeshInv

LEMMA ChangeKeeps ==
    ASSUME MeshInv, NEW t \in Peers, NEW op, NEW e \in Entry, Change(t, op, e)
    PROVE  MeshInv'
<1>1. PICK p : p = [Quiet EXCEPT !.at = "save", !.op = op, !.copy = e]
  OBVIOUS
<1>2. peer' = [peer EXCEPT ![t] = p] /\ UNCHANGED <<keyVars, manifest, temporary>>
  BY <1>1 DEF Change
<1>3. Shaped(p) /\ p.at \in Saving /\ p.copy \in Entry
  BY <1>1 DEF Shaped, Quiet, Saving
<1> QED BY <1>2, <1>3, SavingKeeps DEF MeshInv

LEMMA UsersKeep ==
    ASSUME MeshInv, NEW t \in Peers, Mark(t) \/ ResetKey(t) \/ RemoveRemote(t) \/ AddRemote(t)
    PROVE  MeshInv'
<1>1. CASE Mark(t)
  <2>1. PICK e \in Entry : e = manifest
    BY DEF MeshInv
  <2> QED BY <1>1, <2>1, ChangeKeeps DEF Mark
<1>2. CASE ResetKey(t)
  <2>1. PICK e \in Entry : e = [manifest EXCEPT !.key = NoKey]
    BY NoKeyIsKey, EntryOfKey DEF MeshInv
  <2> QED BY <1>2, <2>1, ChangeKeeps DEF ResetKey
<1>3. CASE RemoveRemote(t)
  BY <1>3, NoKeyIsKey, ChangeKeeps DEF RemoveRemote
<1>4. CASE AddRemote(t)
  <2>1. PICK e \in Entry : e = [present |-> TRUE, key |-> NoKey]
    BY NoKeyIsKey DEF Entry
  <2> QED BY <1>4, <2>1, ChangeKeeps DEF AddRemote
<1> QED BY <1>1, <1>2, <1>3, <1>4

LEMMA ProceedsTo ==
    ASSUME MeshInv, NEW t \in Peers, NEW at, Proceed(t, at), NEW q, q = peer[t]
    PROVE  /\ Shaped(q) /\ Told(q)
           /\ peer' = [peer EXCEPT ![t] =
                 [at |-> at, op |-> q.op, key |-> q.key, by |-> q.by, doc |-> q.doc,
                  unfinished |-> q.unfinished, copy |-> q.copy]]
<1>1. Shaped(q) /\ Told(q)
  BY DEF MeshInv
<1>2. peer' = [peer EXCEPT ![t] = [q EXCEPT !.at = at]]
  BY DEF MeshInv, Proceed
<1>3. PICK r : r = [q EXCEPT !.at = at]
  OBVIOUS
<1>4. r = [at |-> at, op |-> q.op, key |-> q.key, by |-> q.by, doc |-> q.doc,
           unfinished |-> q.unfinished, copy |-> q.copy]
  BY <1>1, <1>3 DEF Shaped
<1> QED BY <1>1, <1>2, <1>3, <1>4

LEMMA WriteTemporaryKeeps ==
    ASSUME MeshInv, NEW t \in Peers, WriteTemporary(t)
    PROVE  MeshInv'
<1>1. PICK q : q = peer[t] /\ q.at = "save"
  BY DEF WriteTemporary
<1>2. PICK p : p = [at |-> "replace", op |-> q.op, key |-> q.key, by |-> q.by, doc |-> q.doc,
                    unfinished |-> q.unfinished, copy |-> q.copy]
  OBVIOUS
<1>3. Told(q) /\ peer' = [peer EXCEPT ![t] = p]
  BY <1>1, <1>2, ProceedsTo DEF WriteTemporary
<1>4. UNCHANGED <<keyVars, manifest>> /\ temporary' = q.copy
  BY <1>1 DEF WriteTemporary
<1>5. Shaped(p) /\ p.at \in Saving /\ p.copy \in Entry
  BY <1>1, <1>2, <1>3 DEF Told, Shaped, Saving
<1>6. p.copy = q.copy
  BY <1>2
<1> QED BY <1>3, <1>4, <1>5, <1>6, SavingKeeps

LEMMA ReplaceKeeps ==
    ASSUME MeshInv, NEW t \in Peers, Replace(t)
    PROVE  MeshInv'
<1>1. PICK q : q = peer[t] /\ q.at = "replace"
  BY DEF Replace
<1>2. PICK p : p = [at |-> "cleanup", op |-> q.op, key |-> q.key, by |-> q.by, doc |-> q.doc,
                    unfinished |-> q.unfinished, copy |-> q.copy]
  OBVIOUS
<1>3. peer' = [peer EXCEPT ![t] = p] /\ UNCHANGED keyVars
  <2>1. Proceed(t, "cleanup") /\ UNCHANGED keyVars
    BY DEF Replace
  <2> QED BY <1>1, <1>2, <2>1, ProceedsTo
<1>4. manifest' \in Entry /\ temporary' \in Entry \cup {Missing}
  <2>1. CASE temporary = Missing
    BY <2>1 DEF Replace, MeshInv, Entry, Missing
  <2>2. CASE temporary # Missing
    BY <2>2 DEF Replace, MeshInv, Entry, Missing
  <2> QED BY <2>1, <2>2
<1>5. Shaped(p) /\ Told(p)
  BY <1>2 DEF Told, Shaped, Saving
<1>6. KeysInv' /\ UNCHANGED <<minted, command, signed, cuts, history>>
  BY <1>3, KeysStill DEF MeshInv, keyVars, disk, witnessed
<1> QED BY <1>3, <1>4, <1>5, <1>6, ThreadKeeps

LEMMA CleanUpKeeps ==
    ASSUME MeshInv, NEW t \in Peers, CleanUp(t)
    PROVE  MeshInv'
BY QuietKeeps DEF CleanUp

\* The peer's process is killed, and the member's operator goes on.
LEMMA PeerCrashKeeps ==
    ASSUME MeshInv, PeerCrash
    PROVE  MeshInv'
<1>1. /\ peer' = [t \in Peers |-> Quiet] /\ temporary' = Missing
      /\ UNCHANGED <<keyVars, manifest>>
  BY DEF PeerCrash
<1>2. KeysInv' /\ LineageSigned'
  BY <1>1, KeysStill DEF MeshInv, LineageSigned, keyVars, disk, witnessed
<1>3. \A t \in Peers : Shaped(peer'[t]) /\ Told(peer[t])'
  <2> SUFFICES ASSUME NEW t \in Peers PROVE Shaped(peer'[t]) /\ Told(peer[t])'
    OBVIOUS
  <2>1. peer'[t] = Quiet /\ Quiet.at = "idle" /\ Shaped(Quiet)
    BY <1>1, NoKeyIsKey DEF Quiet
  <2> QED BY <2>1 DEF Told, Saving
<1>4. peer' = [t \in Peers |-> peer'[t]]
  BY <1>1
<1> QED BY <1>1, <1>2, <1>3, <1>4 DEF MeshInv, Shaped, Entry, Missing

LEMMA CommandsKeep ==
    ASSUME MeshInv, KeysNext, UNCHANGED <<manifest, temporary, peer, taken, resets, kills>>
    PROVE  MeshInv'
<1>1. KeysInv' /\ LineageSigned' /\ Onward
  BY KeysNextKeeps, CommandsGoOnward DEF MeshInv
<1>2. ASSUME NEW t \in Peers PROVE Shaped(peer'[t]) /\ Told(peer[t])'
  <2>1. PICK p : p = peer[t] /\ Shaped(p) /\ Told(p)
    BY DEF MeshInv
  <2>2. Told(p)'
    BY <1>1, <2>1, ToldStays DEF MeshInv
  <2> QED BY <2>1, <2>2 DEF Told, Asserted
<1> QED BY <1>1, <1>2 DEF MeshInv, Shaped, Entry, Missing

LEMMA StutterKeeps ==
    ASSUME MeshInv, UNCHANGED meshVars
    PROVE  MeshInv'
<1>1. UNCHANGED keyVars /\ UNCHANGED <<manifest, temporary, peer>>
  BY DEF meshVars
<1>2. KeysInv' /\ UNCHANGED <<minted, command, signed, cuts, history>>
  BY <1>1, KeysStill DEF MeshInv, keyVars, disk, witnessed
<1>3. LineageSigned' /\ Onward
  BY <1>2, OnwardStill DEF MeshInv, LineageSigned
<1>4. ASSUME NEW t \in Peers PROVE Shaped(peer'[t]) /\ Told(peer[t])'
  <2>1. PICK p : p = peer[t] /\ Shaped(p) /\ Told(p)
    BY DEF MeshInv
  <2>2. Told(p)'
    BY <1>2, <1>3, <2>1, ToldStays DEF MeshInv
  <2> QED BY <1>1, <2>1, <2>2 DEF Told, Asserted
<1> QED BY <1>1, <1>2, <1>3, <1>4 DEF MeshInv, Shaped, Entry, Missing

LEMMA MeshNextKeeps ==
    ASSUME MeshInv, [MeshNext]_meshVars
    PROVE  MeshInv'
BY DiscoverKeeps, FetchPublicKeeps, FetchPrivateKeeps, FetchDocumentKeeps, RejectKeeps,
   CheckKeeps, UsersKeep, WriteTemporaryKeeps, ReplaceKeeps, CleanUpKeeps, PeerCrashKeeps,
   CommandsKeep, StutterKeeps DEF MeshNext, PeerStep

LEMMA MeshInitInv == MeshInit => MeshInv
<1> SUFFICES ASSUME MeshInit PROVE MeshInv
  OBVIOUS
<1>1. KeysInv
  BY InitKeysInv DEF MeshInit
<1>2. LineageSigned
  BY DEF MeshInit, KeysInit, LineageSigned, Entries, Idle
<1>3. manifest \in Entry
  BY NoKeyIsKey DEF MeshInit, Entry
<1>4. peer = [t \in Peers |-> peer[t]] /\ \A t \in Peers : peer[t] = Quiet
  BY DEF MeshInit
<1> QED BY <1>1, <1>2, <1>3, <1>4, NoKeyIsKey DEF MeshInit, MeshInv

\* "Possible impersonation" is said with cause.  The keys that the lineage told
\* leads to from the pin, with all keys after the one presented, are a set that
\* no statement leads out of.
LEMMA NoFalseAccusation == MeshInv => AccusedWithCause
<1> SUFFICES ASSUME MeshInv, NEW t \in Peers, peer[t].at = "check",
                    Status(manifest, peer[t].doc) = "mismatch", ~peer[t].unfinished, ~(cuts > 0)
             PROVE  ~Linked(manifest.key, peer[t].doc.key)
  BY DEF AccusedWithCause
<1>1. PICK doc : doc = peer[t].doc
  OBVIOUS
<1>2. PICK d \in KeySet : d = doc.key /\ Asserted(doc, peer[t].unfinished)
  BY <1>1, DocumentNames
<1>3. cuts = 0
  BY KeysConstants DEF MeshInv, KeysInv, FilesInv
<1>4. /\ doc.history \in Statements /\ Ordered(doc.history)
      /\ \A s \in signed : s \in Entries(doc.history) \/ d < s[2]
  BY <1>2, <1>3 DEF Asserted
<1>5. PICK p \in KeySet : p = manifest.key
  <2>1. manifest.key \in 0..MaxKeys /\ manifest.key # NoKey
    BY <1>1 DEF MeshInv, Entry, Status
  <2>2. manifest.key \in 1..MaxKeys
    BY <2>1, KeysConstants DEF NoKey
  <2> QED BY <2>2 DEF KeySet
<1>6. Followed(doc.history, p, d) # d
  BY <1>1, <1>2, <1>5 DEF Status
<1>7. PICK H \in SUBSET KeySet :
         /\ p \in H /\ d \notin H
         /\ \A s \in Entries(doc.history) : s[1] \in H => s[2] \in H
  BY <1>4, <1>6, FollowedReaches
<1>8. PICK heirs : heirs = H \cup {k \in KeySet : d < k}
  OBVIOUS
<1>9. p \in heirs /\ d \notin heirs /\ heirs \in SUBSET KeySet
  <2>1. d \in Nat /\ ~(d < d)
    BY KeysAreNumbers
  <2>2. p \in heirs /\ heirs \in SUBSET KeySet
    BY <1>7, <1>8
  <2> QED BY <1>7, <1>8, <2>1, <2>2
<1>10. ASSUME NEW s \in signed, s[1] \in heirs PROVE s[2] \in heirs
  <2>1. s[1] \in KeySet /\ s[2] \in KeySet
    BY DEF MeshInv, KeysInv, HistoryInv
  <2>2. CASE d < s[2]
    BY <1>8, <2>1, <2>2
  <2>3. CASE s \in Entries(doc.history)
    <3>1. CASE s[1] \in H
      BY <1>7, <1>8, <2>3, <3>1
    <3>2. CASE d < s[1]
      <4>1. s[1] < s[2]
        BY <1>4, <2>3 DEF Ordered, Entries
      <4>2. PICK a \in Nat, b \in Nat, c \in Nat : a = s[1] /\ b = s[2] /\ c = d
        BY <2>1, KeysAreNumbers
      <4>3. c < b
        BY <3>2, <4>1, <4>2
      <4>4. d < s[2]
        BY <4>2, <4>3
      <4> QED BY <1>8, <2>1, <4>4
    <3> QED BY <1>8, <1>10, <3>1, <3>2
  <2> QED BY <1>4, <2>2, <2>3
<1> QED BY <1>1, <1>2, <1>5, <1>9, <1>10 DEF Linked

\* Whatever a crash cuts off and however many threads check and write the pin at
\* a time: the files hold keys, no private key in use is destroyed but in the
\* window of its archival, a reported revocation stands, the lineage holds every
\* statement in order, and the peer accuses a member only with cause.
THEOREM KeysStaySafe ==
    MeshSpec => [](KeysTypeOK /\ KeysKept /\ RevocationsStand /\ LineageOrdered
                   /\ AccusedWithCause)
<1>1. MeshInit => MeshInv
  BY MeshInitInv
<1>2. MeshInv /\ [MeshNext]_meshVars => MeshInv'
  BY MeshNextKeeps
<1>3. MeshInv => KeysTypeOK /\ KeysKept /\ RevocationsStand /\ LineageOrdered
                 /\ AccusedWithCause
  BY KeysInvGives, NoFalseAccusation DEF MeshInv
<1> QED BY <1>1, <1>2, <1>3, PTL DEF MeshSpec

-----------------------------------------------------------------------------
(***************************************************************************)
(* The pin, when one thread at a time uses the manifest                    *)
(***************************************************************************)
OneThread == \A t, u \in Peers : t = u

\* What a thread is about to write is what the manifest holds, or follows from
\* it, or lets go of it; the temporary file is the thread's own.
Held(p) ==
    /\ p.at \in Saving =>
          /\ ~p.copy.present => p.copy.key = NoKey
          /\ p.copy.key = NoKey => manifest.key = NoKey \/ p.op = "let go"
          /\ p.copy.key # NoKey /\ manifest.key # NoKey => Linked(manifest.key, p.copy.key)
    /\ p.at = "replace" => temporary = p.copy

PinInv ==
    /\ ~manifest.present => manifest.key = NoKey
    /\ resets \in Nat /\ taken \in Seq(KeySet)
    /\ manifest.key = NoKey => Len(taken) <= resets
    /\ TakenOnce /\ PinInLineage
    /\ \A t \in Peers : Held(peer[t])

\* A step that writes no manifest.
LEMMA PinStays ==
    ASSUME PinInv, signed \subseteq signed', UNCHANGED <<manifest, taken, resets>>,
           \A t \in Peers : Held(peer[t])'
    PROVE  PinInv'
<1>1. PinInLineage'
  <2> SUFFICES ASSUME manifest.key # NoKey
               PROVE  \E i \in DOMAIN taken : Linked(taken[i], manifest.key)'
    BY DEF PinInLineage
  <2>1. PICK i \in DOMAIN taken : Linked(taken[i], manifest.key)
    BY DEF PinInv, PinInLineage
  <2>2. PICK a, b : a = taken[i] /\ b = manifest.key
    OBVIOUS
  <2>3. Linked(a, b)'
    BY <2>1, <2>2, LinkedStays
  <2> QED BY <2>2, <2>3 DEF Linked
<1>2. TakenOnce'
  BY DEF PinInv, TakenOnce
<1> QED BY <1>1, <1>2 DEF PinInv

LEMMA HeldStays ==
    ASSUME signed \subseteq signed', UNCHANGED <<manifest, temporary>>, NEW p, Held(p)
    PROVE  Held(p)'
<1>1. PICK a, b : a = manifest.key /\ b = p.copy.key
  OBVIOUS
<1>2. Linked(a, b) => Linked(a, b)'
  BY LinkedStays
<1>3. Linked(manifest.key, p.copy.key) => Linked(manifest.key, p.copy.key)'
  BY <1>1, <1>2 DEF Linked
<1> QED BY <1>3 DEF Held

\* A thread that is not writing.
LEMMA AskingPins ==
    ASSUME OneThread, PinInv, NEW t \in Peers, UNCHANGED <<signed, manifest, taken, resets>>,
           peer'[t].at \notin Saving
    PROVE  PinInv'
<1>1. \A u \in Peers : Held(peer[u])'
  BY DEF OneThread, Held, Saving
<1> QED BY <1>1, PinStays

\* A thread that is about to write.
LEMMA SavingPins ==
    ASSUME OneThread, PinInv, NEW t \in Peers, UNCHANGED <<signed, manifest, taken, resets>>,
           NEW p, peer'[t] = p, p.at = "save",
           ~p.copy.present => p.copy.key = NoKey,
           p.copy.key = NoKey => manifest.key = NoKey \/ p.op = "let go",
           p.copy.key # NoKey /\ manifest.key # NoKey => Linked(manifest.key, p.copy.key)
    PROVE  PinInv'
<1>1. Held(p)'
  <2>1. Linked(manifest.key, p.copy.key) => Linked(manifest.key, p.copy.key)'
    BY DEF Linked
  <2> QED BY <2>1 DEF Held, Saving
<1>2. \A u \in Peers : Held(peer[u])'
  BY <1>1 DEF OneThread, Held
<1> QED BY <1>2, PinStays

LEMMA CheckPins ==
    ASSUME OneThread, MeshInv, PinInv, NEW t \in Peers, Check(t)
    PROVE  PinInv'
<1>1. PICK q : q = peer[t] /\ q.at = "check" /\ Shaped(q)
  BY DEF MeshInv, Check
<1>2. PICK m \in Entry : m = manifest
  BY DEF MeshInv
<1>3. PICK e : e = Repinned(m, q.doc)
  OBVIOUS
<1>4. PICK d \in KeySet : d = q.doc.key /\ d # NoKey /\ d \in 0..MaxKeys
                          /\ Asserted(q.doc, q.unfinished)
  BY <1>1, DocumentNames
<1>5. PICK p : p = [q EXCEPT !.at = "save", !.copy = e]
  OBVIOUS
<1>6. p = [at |-> "save", op |-> q.op, key |-> q.key, by |-> q.by, doc |-> q.doc,
           unfinished |-> q.unfinished, copy |-> e]
  BY <1>1, <1>5 DEF Shaped
<1>7. UNCHANGED <<signed, manifest, taken, resets>>
  BY DEF Check, keyVars, witnessed
<1>8. CASE e = m
  <2>1. peer' = [peer EXCEPT ![t] = Quiet]
    BY <1>1, <1>2, <1>3, <1>8 DEF Check
  <2>2. peer'[t].at = "idle"
    BY <2>1 DEF MeshInv, Quiet
  <2> QED BY <1>7, <2>2, AskingPins DEF Saving
<1>9. CASE e # m
  <2>1. peer' = [peer EXCEPT ![t] = p]
    BY <1>1, <1>2, <1>3, <1>5, <1>9 DEF Check
  <2>2. peer'[t] = p
    BY <2>1 DEF MeshInv
  <2>3. Status(m, q.doc) \in {"pinned", "rotated"} /\ e = [m EXCEPT !.key = d]
    BY <1>3, <1>4, <1>9 DEF Repinned
  <2>4. e = [present |-> m.present, key |-> d] /\ m.present
    BY <1>4, <2>3, EntryOfKey DEF Status
  <2>5. ASSUME m.key # NoKey PROVE Linked(m.key, d)
    <3>1. Followed(q.doc.history, m.key, d) = d
      BY <1>4, <2>3, <2>5 DEF Status
    <3>2. m.key \in KeySet
      <4>1. m.key \in 1..MaxKeys
        BY <2>5, KeysConstants DEF Entry, NoKey
      <4> QED BY <4>1 DEF KeySet
    <3>3. q.doc.history \in Statements /\ Entries(q.doc.history) \subseteq signed
      BY <1>4 DEF Asserted
    <3> QED BY <3>1, <3>2, <3>3, FollowedLinked
  <2>6. p.at = "save" /\ p.copy = e /\ e.present /\ e.key = d
    BY <1>6, <2>4
  <2> QED BY <1>2, <1>4, <1>7, <2>2, <2>5, <2>6, SavingPins
<1> QED BY <1>8, <1>9

LEMMA ChangePins ==
    ASSUME OneThread, MeshInv, PinInv, NEW t \in Peers, NEW op, NEW e, Change(t, op, e),
           ~e.present => e.key = NoKey,
           e.key = NoKey => manifest.key = NoKey \/ op = "let go",
           e.key # NoKey /\ manifest.key # NoKey => Linked(manifest.key, e.key)
    PROVE  PinInv'
<1>1. PICK p : p = [Quiet EXCEPT !.at = "save", !.op = op, !.copy = e]
  OBVIOUS
<1>2. peer' = [peer EXCEPT ![t] = p] /\ UNCHANGED <<signed, manifest, taken, resets>>
  BY <1>1 DEF Change, keyVars, witnessed
<1>3. peer'[t] = p
  BY <1>2 DEF MeshInv
<1>4. p.at = "save" /\ p.copy = e /\ p.op = op
  BY <1>1 DEF Quiet
<1> QED BY <1>2, <1>3, <1>4, SavingPins

LEMMA UsersPin ==
    ASSUME OneThread, MeshInv, PinInv, NEW t \in Peers,
           Mark(t) \/ ResetKey(t) \/ RemoveRemote(t) \/ AddRemote(t)
    PROVE  PinInv'
<1>1. CASE Mark(t)
  <2>1. PICK e : e = manifest
    OBVIOUS
  <2> QED BY <1>1, <2>1, LinkedItself, ChangePins DEF Mark
<1>2. CASE ResetKey(t)
  <2>1. PICK e : e = [manifest EXCEPT !.key = NoKey]
    OBVIOUS
  <2>2. e.key = NoKey
    BY <2>1 DEF MeshInv, Entry
  <2> QED BY <1>2, <2>1, <2>2, ChangePins DEF ResetKey
<1>3. CASE RemoveRemote(t)
  <2>1. Gone.key = NoKey
    BY DEF Gone
  <2> QED BY <1>3, <2>1, ChangePins DEF RemoveRemote
<1>4. CASE AddRemote(t)
  <2>1. PICK e : e = [present |-> TRUE, key |-> NoKey]
    OBVIOUS
  <2>2. manifest.key = NoKey /\ e.key = NoKey
    BY <1>4, <2>1 DEF AddRemote, PinInv
  <2> QED BY <1>4, <2>1, <2>2, ChangePins DEF AddRemote
<1> QED BY <1>1, <1>2, <1>3, <1>4

LEMMA WriteTemporaryPins ==
    ASSUME OneThread, MeshInv, PinInv, NEW t \in Peers, WriteTemporary(t)
    PROVE  PinInv'
<1>1. PICK q : q = peer[t] /\ q.at = "save" /\ Held(q)
  BY DEF WriteTemporary, PinInv
<1>2. PICK p : p = [at |-> "replace", op |-> q.op, key |-> q.key, by |-> q.by, doc |-> q.doc,
                    unfinished |-> q.unfinished, copy |-> q.copy]
  OBVIOUS
<1>3. peer' = [peer EXCEPT ![t] = p]
  BY <1>1, <1>2, ProceedsTo DEF WriteTemporary
<1>4. UNCHANGED <<signed, manifest, taken, resets>> /\ temporary' = q.copy
  BY <1>1 DEF WriteTemporary, keyVars, witnessed
<1>5. peer'[t] = p
  BY <1>3 DEF MeshInv
<1>6. Held(p)'
  <2>1. Linked(manifest.key, q.copy.key) => Linked(manifest.key, q.copy.key)'
    BY <1>4 DEF Linked
  <2>2. p.copy = q.copy /\ p.op = q.op
    BY <1>2
  <2> QED BY <1>1, <1>4, <2>1, <2>2 DEF Held, Saving
<1>7. ASSUME NEW u \in Peers PROVE Held(peer[u])'
  <2>1. u = t
    BY DEF OneThread
  <2>2. peer'[u] = p
    BY <1>5, <2>1
  <2> QED BY <1>6, <2>2 DEF Held
<1> QED BY <1>4, <1>7, PinStays

LEMMA Counting ==
    ASSUME NEW r \in Nat, NEW s \in Nat, NEW l \in Nat, s = r \/ s = r + 1
    PROVE  /\ l <= r => l <= s /\ l + 1 <= s + 1
           /\ l <= r + 1 => l <= s + 1
           /\ l <= s => l <= s + 1
<1>1. CASE s = r
  BY <1>1
<1>2. CASE s = r + 1
  BY <1>2
<1> QED BY <1>1, <1>2

\* The manifest is replaced by the thread's copy.
LEMMA ReplacePins ==
    ASSUME OneThread, MeshInv, PinInv, NEW t \in Peers, Replace(t)
    PROVE  PinInv'
<1>1. PICK q : q = peer[t] /\ q.at = "replace" /\ Held(q) /\ Told(q)
  BY DEF Replace, PinInv, MeshInv
<1>2. PICK p : p = [at |-> "cleanup", op |-> q.op, key |-> q.key, by |-> q.by, doc |-> q.doc,
                    unfinished |-> q.unfinished, copy |-> q.copy]
  OBVIOUS
<1>3. peer' = [peer EXCEPT ![t] = p] /\ UNCHANGED keyVars
  <2>1. Proceed(t, "cleanup") /\ UNCHANGED keyVars
    BY DEF Replace
  <2> QED BY <1>1, <1>2, <2>1, ProceedsTo
<1>4. signed' = signed
  BY <1>3 DEF keyVars, witnessed
<1>5. PICK c \in Entry : c = q.copy
  BY <1>1 DEF Told, Saving
<1>6. temporary = c /\ c # Missing
  <2>1. MaxKeys + 1 \notin 0..MaxKeys
    BY KeysConstants
  <2>2. Missing \notin Entry
    BY <2>1 DEF Missing, Entry
  <2> QED BY <1>1, <1>5, <2>2 DEF Held
<1>7. /\ manifest' = c
      /\ taken' = IF c.key # NoKey /\ manifest.key = NoKey THEN Append(taken, c.key) ELSE taken
      /\ resets' = IF q.op = "let go" THEN resets + 1 ELSE resets
  BY <1>1, <1>5, <1>6 DEF Replace
<1>8. /\ ~c.present => c.key = NoKey
      /\ c.key = NoKey => manifest.key = NoKey \/ q.op = "let go"
      /\ c.key # NoKey /\ manifest.key # NoKey => Linked(manifest.key, c.key)
  BY <1>1, <1>5 DEF Held, Saving
<1>9. ASSUME NEW u \in Peers PROVE Held(peer[u])'
  <2>1. u = t
    BY DEF OneThread
  <2>2. peer'[u] = p /\ p.at = "cleanup"
    BY <1>2, <1>3, <2>1 DEF MeshInv
  <2> QED BY <2>2 DEF Held, Saving
<1>10. PICK r \in Nat, l \in Nat : r = resets /\ l = Len(taken) /\ l <= r + 1
  <2>1. Len(taken) \in Nat /\ resets \in Nat /\ Len(taken) <= resets + 1
    BY LenProperties DEF PinInv, TakenOnce
  <2> QED BY <2>1
<1>11. PICK s \in Nat : /\ s = resets' /\ (s = r \/ s = r + 1)
                        /\ q.op = "let go" => s = r + 1
  <2>1. CASE q.op = "let go"
    <3>1. PICK s \in Nat : s = r + 1
      OBVIOUS
    <3>2. resets' = s
      BY <1>7, <1>10, <2>1, <3>1
    <3> QED BY <3>1, <3>2
  <2>2. CASE q.op # "let go"
    <3>1. resets' = r
      BY <1>7, <1>10, <2>2
    <3> QED BY <2>2, <3>1
  <2> QED BY <2>1, <2>2
<1>a. /\ l <= r => l <= s /\ l + 1 <= s + 1
      /\ l <= s => l <= s + 1
      /\ l <= s + 1
  BY <1>10, <1>11, Counting, Zenon
<1>12. CASE c.key = NoKey
  <2>1. taken' = taken /\ manifest'.key = NoKey
    BY <1>7, <1>12
  <2>2. l <= s
    <3>1. CASE manifest.key = NoKey
      <4>1. l <= r
        BY <1>10, <3>1 DEF PinInv
      <4> QED BY <1>a, <4>1
    <3>2. CASE q.op = "let go"
      BY <1>10, <1>11, <3>2, Zenon
    <3> QED BY <1>8, <1>12, <3>1, <3>2
  <2>3. s \in Nat /\ l <= s + 1
    BY <1>a
  <2>4. Len(taken') <= resets' /\ Len(taken') <= resets' + 1 /\ resets' \in Nat
    BY <1>10, <1>11, <2>1, <2>2, <2>3, Zenon
  <2>5. taken' \in Seq(KeySet)
    BY <2>1 DEF PinInv
  <2> QED BY <1>9, <2>1, <2>4, <2>5 DEF PinInv, TakenOnce, PinInLineage
<1>13. CASE c.key # NoKey
  <2>1. manifest'.key = c.key /\ manifest'.present
    <3>1. c.present \in BOOLEAN
      BY DEF Entry
    <3> QED BY <1>7, <1>8, <1>13, <3>1
  <2>2. PICK k \in KeySet : k = c.key
    <3>1. c.key \in 1..MaxKeys
      BY <1>13, KeysConstants DEF Entry, NoKey
    <3> QED BY <3>1 DEF KeySet
  <2>3. taken \in Seq(KeySet)
    BY DEF PinInv
  <2>4. CASE manifest.key = NoKey
    <3>1. taken' = Append(taken, k) /\ l <= r
      BY <1>7, <1>10, <1>13, <2>2, <2>4 DEF PinInv
    <3>2. PICK b \in Seq(KeySet) : b = Append(taken, k) /\ Len(b) = l + 1 /\ b[l + 1] = k
      BY <1>10, <2>3, AppendProperties
    <3>3. l + 1 \in DOMAIN b
      <4>1. DOMAIN b = 1..(l + 1)
        BY <3>2, LenProperties
      <4> QED BY <4>1
    <3>4. l + 1 <= s + 1 /\ s \in Nat
      BY <1>a, <3>1
    <3>5. Linked(b[l + 1], k)'
      BY <3>2 DEF Linked
    <3>6. PinInLineage'
      BY <2>1, <2>2, <3>1, <3>2, <3>3, <3>5 DEF PinInLineage, Linked
    <3>7. TakenOnce' /\ resets' \in Nat
      <4>1. Len(taken') = l + 1 /\ resets' = s
        BY <1>11, <3>1, <3>2
      <4> QED BY <3>4, <4>1, Zenon DEF TakenOnce
    <3> QED BY <1>9, <1>13, <2>1, <3>1, <3>2, <3>6, <3>7 DEF PinInv
  <2>5. CASE manifest.key # NoKey
    <3>1. taken' = taken /\ Linked(manifest.key, k)
      BY <1>7, <1>8, <1>13, <2>2, <2>5
    <3>2. PICK i \in DOMAIN taken : Linked(taken[i], manifest.key)
      BY <2>5 DEF PinInv, PinInLineage
    <3>3. PICK a, m : a = taken[i] /\ m = manifest.key
      OBVIOUS
    <3>4. Linked(a, k)
      BY <3>1, <3>2, <3>3, LinkedOn
    <3>5. Linked(a, k)'
      BY <1>4, <3>4 DEF Linked
    <3>6. PinInLineage'
      BY <2>1, <2>2, <3>1, <3>3, <3>5 DEF PinInLineage, Linked
    <3>7. l <= s + 1 /\ s \in Nat
      BY <1>a
    <3>8. TakenOnce' /\ resets' \in Nat
      <4>1. Len(taken') = l /\ resets' = s
        BY <1>10, <1>11, <3>1
      <4> QED BY <3>7, <4>1, Zenon DEF TakenOnce
    <3> QED BY <1>9, <1>13, <2>1, <2>3, <3>1, <3>6, <3>8 DEF PinInv
  <2> QED BY <2>4, <2>5
<1> QED BY <1>12, <1>13

LEMMA PinNextKeeps ==
    ASSUME OneThread, MeshInv, PinInv, [MeshNext]_meshVars
    PROVE  PinInv'
<1>1. ASSUME NEW t \in Peers, NEW op, Discover(t, op)
      PROVE  PinInv'
  <2>1. peer'[t].at = "public"
    BY <1>1 DEF Discover, MeshInv, Quiet
  <2>2. UNCHANGED <<signed, manifest, taken, resets>>
    BY <1>1 DEF Discover, keyVars, witnessed
  <2> QED BY <2>1, <2>2, AskingPins DEF Saving
<1>2. ASSUME NEW t \in Peers, FetchPublic(t)
      PROVE  PinInv'
  <2>1. peer'[t].at \in {"idle", "private"}
    <3>1. PICK q : q = peer[t] /\ Shaped(q)
      BY DEF MeshInv
    <3>2. peer'[t] = IF public = NoKey THEN Quiet
                     ELSE [q EXCEPT !.at = "private", !.key = public]
      BY <1>2, <3>1 DEF FetchPublic, MeshInv
    <3>3. [q EXCEPT !.at = "private", !.key = public].at = "private"
      BY <3>1 DEF Shaped
    <3> QED BY <3>2, <3>3 DEF Quiet
  <2>2. UNCHANGED <<signed, manifest, taken, resets>>
    BY <1>2 DEF FetchPublic, keyVars, witnessed
  <2> QED BY <2>1, <2>2, AskingPins DEF Saving
<1>3. ASSUME NEW t \in Peers, FetchPrivate(t)
      PROVE  PinInv'
  <2>1. peer'[t].at = "document"
    BY <1>3 DEF FetchPrivate, MeshInv, Shaped
  <2>2. UNCHANGED <<signed, manifest, taken, resets>>
    BY <1>3 DEF FetchPrivate, keyVars, witnessed
  <2> QED BY <2>1, <2>2, AskingPins DEF Saving
<1>4. ASSUME NEW t \in Peers, FetchDocument(t)
      PROVE  PinInv'
  <2>1. peer'[t].at = "check"
    BY <1>4 DEF FetchDocument, MeshInv, Shaped
  <2>2. UNCHANGED <<signed, manifest, taken, resets>>
    BY <1>4 DEF FetchDocument, witnessed
  <2> QED BY <2>1, <2>2, AskingPins DEF Saving
<1>5. ASSUME NEW t \in Peers, Reject(t) \/ CleanUp(t)
      PROVE  PinInv'
  <2>1. peer'[t].at = "idle"
    BY <1>5 DEF Reject, CleanUp, MeshInv, Quiet
  <2>2. UNCHANGED <<signed, manifest, taken, resets>>
    BY <1>5 DEF Reject, CleanUp, keyVars, witnessed
  <2> QED BY <2>1, <2>2, AskingPins DEF Saving
<1>6. CASE PeerCrash
  <2>1. \A t \in Peers : Held(peer[t])'
    BY <1>6 DEF PeerCrash, Held, Quiet, Saving
  <2> QED BY <1>6, <2>1, PinStays DEF PeerCrash, keyVars, witnessed
<1>7. CASE KeysNext /\ UNCHANGED <<manifest, temporary, peer, taken, resets, kills>>
  <2>1. signed \subseteq signed'
    BY <1>7, CommandsGoOnward DEF MeshInv, Onward
  <2>2. ASSUME NEW t \in Peers PROVE Held(peer[t])'
    <3>1. PICK p : p = peer[t] /\ Held(p)
      BY DEF PinInv
    <3>2. Held(p)'
      BY <1>7, <2>1, <3>1, HeldStays
    <3> QED BY <1>7, <3>1, <3>2 DEF Held
  <2> QED BY <1>7, <2>1, <2>2, PinStays
<1>8. CASE UNCHANGED meshVars
  <2>1. UNCHANGED <<signed, manifest, temporary, peer, taken, resets>>
    BY <1>8 DEF meshVars, keyVars, witnessed
  <2>2. ASSUME NEW t \in Peers PROVE Held(peer[t])'
    <3>1. PICK p : p = peer[t] /\ Held(p)
      BY DEF PinInv
    <3>2. Held(p)'
      BY <2>1, <3>1, HeldStays
    <3> QED BY <2>1, <3>1, <3>2 DEF Held
  <2> QED BY <2>1, <2>2, PinStays
<1> QED
  BY <1>1, <1>2, <1>3, <1>4, <1>5, <1>6, <1>7, <1>8, CheckPins, UsersPin, WriteTemporaryPins,
     ReplacePins DEF MeshNext, PeerStep

LEMMA PinInitInv == MeshInit => PinInv
<1> SUFFICES ASSUME MeshInit PROVE PinInv
  OBVIOUS
<1>1. taken \in Seq(KeySet) /\ Len(taken) = 0 /\ resets = 0
  BY DEF MeshInit
<1>2. \A t \in Peers : peer[t].at = "idle"
  BY DEF MeshInit, Quiet
<1>3. manifest.key = NoKey /\ manifest.present
  BY DEF MeshInit
<1> QED BY <1>1, <1>2, <1>3 DEF PinInv, TakenOnce, PinInLineage, Held, Saving

\* As long as one thread at a time uses the manifest, whatever crashes on either
\* side: a key is taken on trust once, and again only after the operator has let
\* go of the pin, and every other pin follows from one that was taken by
\* statements the member's keys have signed.
THEOREM TrustStaysSafe ==
    ASSUME OneThread
    PROVE  MeshSpec => []TrustSafe
<1>1. MeshInit => MeshInv /\ PinInv
  BY MeshInitInv, PinInitInv
<1>2. MeshInv /\ PinInv /\ [MeshNext]_meshVars => MeshInv' /\ PinInv'
  BY MeshNextKeeps, PinNextKeeps
<1>3. MeshInv /\ PinInv => TrustSafe
  BY KeysInvGives, NoFalseAccusation DEF MeshInv, PinInv, TrustSafe
<1> QED BY <1>1, <1>2, <1>3, PTL DEF MeshSpec
=============================================================================
