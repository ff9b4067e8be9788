------------------------------- MODULE Merkle -------------------------------
(***************************************************************************)
(* The RFC 6962 tree of chp_core/merkle.py, behind chp-store-head-v2.      *)
(*                                                                         *)
(* A hash is the term of what was hashed (SHA-256 taken as injective); the *)
(* two domain bytes are the first component of the term.  A proof is a     *)
(* sequence of hashes.  The walks consume it as the iterator in the code   *)
(* does: what a walk returns carries the entries it has left, and `short`  *)
(* is the StopIteration of a proof that ran out.                           *)
(***************************************************************************)
EXTENDS Integers, Sequences, FiniteSets

LeafHash(data) == <<"leaf", data>>
NodeHash(left, right) == <<"node", left, right>>
EmptyHash == <<"empty">>

\* _split doubles while it stays below n.
Split(n) ==
    LET from[k \in 1..n] == IF k * 2 < n THEN from[k * 2] ELSE k
    IN  from[1]

\* The code slices its list of leaves at the split, and the slices again.  <<lo, n>>
\* are the n leaves from lo on.
Slices(size) == {s \in (0..size) \X (0..size) : s[1] + s[2] <= size}

Left(s) == <<s[1], Split(s[2])>>
Right(s) == <<s[1] + Split(s[2]), s[2] - Split(s[2])>>

\* Those that have the leaf at an index, which counts from 0 in the whole list.
Holding(size, index) == {s \in Slices(size) : s[1] <= index /\ index < s[1] + s[2]}

\* The root of every slice.
Roots(leaves) ==
    LET root[s \in Slices(Len(leaves))] ==
            IF s[2] = 0 THEN EmptyHash
            ELSE IF s[2] = 1 THEN LeafHash(leaves[s[1] + 1])
            ELSE NodeHash(root[Left(s)], root[Right(s)])
    IN  root

MerkleRoot(leaves) == Roots(leaves)[<<0, Len(leaves)>>]

(***************************************************************************)
(* Walking a proof                                                         *)
(***************************************************************************)
Stop == [short |-> TRUE]
Found(old, new, rest) == [short |-> FALSE, old |-> old, new |-> new, rest |-> rest]

\* next(path) would raise StopIteration, or has.
Spent(walk) == walk.short \/ walk.rest = <<>>

\* The walk consumed the whole proof and arrived at the given roots.
Arrives(walk, old, new) ==
    /\ ~walk.short
    /\ walk.rest = <<>>
    /\ walk.old = old
    /\ walk.new = new

(***************************************************************************)
(* Inclusion                                                               *)
(***************************************************************************)
InclusionProof(leaves, index) ==
    LET path[s \in Holding(Len(leaves), index)] ==
            IF s[2] = 1 THEN <<>>
            ELSE IF index < Right(s)[1] THEN Append(path[Left(s)], Roots(leaves)[Right(s)])
            ELSE Append(path[Right(s)], Roots(leaves)[Left(s)])
    IN  path[<<0, Len(leaves)>>]

\* One step back up, from the left or from the right of the next entry.
Climbed(sub, fromLeft) ==
    LET sibling == Head(sub.rest)
        node == IF fromLeft THEN NodeHash(sub.new, sibling) ELSE NodeHash(sibling, sub.new)
    IN  IF Spent(sub) THEN Stop ELSE Found(node, node, Tail(sub.rest))

Walk(size, index, path, leaf) ==
    LET walk[s \in Holding(size, index)] ==
            IF s[2] = 1 THEN Found(leaf, leaf, path)
            ELSE IF index < Right(s)[1] THEN Climbed(walk[Left(s)], TRUE)
            ELSE Climbed(walk[Right(s)], FALSE)
    IN  walk[<<0, size>>]

VerifyInclusion(root, data, index, size, path) ==
    /\ index \in 0..size - 1
    /\ Arrives(Walk(size, index, path, LeafHash(data)), root, root)

(***************************************************************************)
(* Consistency of the tree of the first m leaves with the whole tree.      *)
(***************************************************************************)
\* m counts in the whole list, whose last old leaf every slice here has.
Subproof(m, leaves, b) ==
    LET proof[p \in Holding(Len(leaves), m - 1) \X BOOLEAN] ==
            LET s == p[1]
            IN  IF m = s[1] + s[2] THEN IF p[2] THEN <<>> ELSE <<Roots(leaves)[s]>>
                ELSE IF m <= Right(s)[1]
                     THEN Append(proof[<<Left(s), p[2]>>], Roots(leaves)[Right(s)])
                     ELSE Append(proof[<<Right(s), FALSE>>], Roots(leaves)[Left(s)])
    IN  proof[<<<<0, Len(leaves)>>, b>>]

ConsistencyProof(leaves, m) ==
    IF m \in {0, Len(leaves)} THEN <<>> ELSE Subproof(m, leaves, TRUE)

\* One step back up: the next entry is new, or shared and on the left of both.
Joined(sub, isNew) ==
    LET h == Head(sub.rest)
    IN  IF Spent(sub) THEN Stop
        ELSE IF isNew THEN Found(sub.old, NodeHash(sub.new, h), Tail(sub.rest))
        ELSE Found(NodeHash(h, sub.old), NodeHash(h, sub.new), Tail(sub.rest))

ConsistencyWalk(m, n, b, path, first) ==
    LET walk[p \in Holding(n, m - 1) \X BOOLEAN] ==
            LET s == p[1]
            IN  IF m = s[1] + s[2]
                THEN IF p[2] THEN Found(first, first, path)
                     ELSE IF path = <<>> THEN Stop
                     ELSE Found(Head(path), Head(path), Tail(path))
                ELSE IF m <= Right(s)[1] THEN Joined(walk[<<Left(s), p[2]>>], TRUE)
                ELSE Joined(walk[<<Right(s), FALSE>>], FALSE)
    IN  walk[<<<<0, n>>, b>>]

\* Mutant of VerifyConsistency: the older root is taken on trust.
VerifyNewerRootOnly(first, second, m, n, proof) ==
    /\ m \in 0..n
    /\ CASE m = 0 -> proof = <<>>
         [] m = n /\ m # 0 -> proof = <<>>
         [] OTHER -> LET w == ConsistencyWalk(m, n, TRUE, proof, first)
                     IN  ~w.short /\ w.rest = <<>> /\ w.new = second

VerifyConsistency(first, second, m, n, proof) ==
    /\ m \in 0..n
    /\ CASE m = 0 -> proof = <<>>
         [] m = n /\ m # 0 -> proof = <<>> /\ first = second
         [] OTHER -> Arrives(ConsistencyWalk(m, n, TRUE, proof, first), first, second)

(***************************************************************************)
(* Store heads: one leaf per correlation, in the order of their names      *)
(* (correlations are numbered in that order).                              *)
(***************************************************************************)
\* sorted(): as many names are less as there are before.
InOrder(names) ==
    [i \in 1..Cardinality(names) |->
        CHOOSE c \in names : Cardinality({d \in names : d < c}) = i - 1]

\* store_head_leaf of every correlation: <<name, head_hash>>.
Lines(leaves) ==
    LET names == InOrder(DOMAIN leaves)
    IN  [i \in 1..Len(names) |-> <<names[i], leaves[names[i]]>>]

\* chp-store-head-v1 hashes the lines in one go.
FoldedRoot(leaves) == <<"fold", Lines(leaves)>>
TreeRoot(leaves) == MerkleRoot(Lines(leaves))

\* store_head_root.
Root(scheme, leaves) == IF scheme = "v1" THEN FoldedRoot(leaves) ELSE TreeRoot(leaves)

\* store_head_consistency_proof, and its verification against two roots.
HeadConsistency(old, new) ==
    [firstSize |-> Len(Lines(old)), secondSize |-> Len(Lines(new)),
     firstRoot |-> TreeRoot(old), secondRoot |-> TreeRoot(new),
     proof |-> ConsistencyProof(Lines(new), Len(Lines(old)))]

VerifyHeadConsistency(oldRoot, newRoot, p) ==
    /\ p.firstRoot = oldRoot
    /\ p.secondRoot = newRoot
    /\ VerifyConsistency(oldRoot, newRoot, p.firstSize, p.secondSize, p.proof)

HeadInclusion(leaves, c) ==
    LET names == InOrder(DOMAIN leaves)
        place == CHOOSE i \in DOMAIN names : names[i] = c
    IN  [correlation |-> c, headHash |-> leaves[c], index |-> place - 1,
         size |-> Len(names), path |-> InclusionProof(Lines(leaves), place - 1)]

VerifyHeadInclusion(root, c, hash, p) ==
    /\ p.correlation = c
    /\ p.headHash = hash
    /\ VerifyInclusion(root, <<c, hash>>, p.index, p.size, p.path)
=============================================================================
