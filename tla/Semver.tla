-------------------------------- MODULE Semver --------------------------------
(***************************************************************************)
(* The version ranges by which a caller chooses among the versions of a    *)
(* capability (chp_core/semver.py), and what the host's resolution picks   *)
(* as versions are registered (gate 2 of _prepare).                        *)
(*                                                                         *)
(* A version is its three numbers, and whether it has a pre-release or     *)
(* build tag, which no comparison looks at.  A comparator is an operator   *)
(* and the parts written after it, of which one may be an "x".             *)
(***************************************************************************)
EXTENDS Integers, Sequences, FiniteSets

CONSTANTS
    Numbers,      \* the numbers of versions and ranges
    Ranges,       \* ranges that callers request: sets of comparators
    MaxRegistered \* bound on the versions registered

X == -1 \* an "x" or "*" in a range

Operators == {"", "^", "~", ">=", ">", "<", "<=", "="}

ASSUME SemverConstants ==
    /\ Numbers \subseteq Nat
    /\ MaxRegistered \in Nat
    /\ \A range \in Ranges : \A comp \in range : comp.op \in Operators

VARIABLE registered \* the versions of one capability at a host

Cores == [1..3 -> Numbers]
Versions == [core : Cores, tagged : BOOLEAN]

PartsWritten == UNION {[1..n -> Numbers \cup {X}] : n \in 1..3}

-----------------------------------------------------------------------------
\* parse_version: what is missing is 0, and what is no number.
Parsed(parts) ==
    [i \in 1..3 |-> IF i <= Len(parts) /\ parts[i] # X THEN parts[i] ELSE 0]

\* The comparison of tuples
Less(v, w) ==
    \/ v[1] < w[1]
    \/ v[1] = w[1] /\ v[2] < w[2]
    \/ v[1] = w[1] /\ v[2] = w[2] /\ v[3] < w[3]

\* _bump: one more at a place, and 0 after it.
Bump(v, place) ==
    [i \in 1..3 |-> IF i < place THEN v[i] ELSE IF i = place THEN v[i] + 1 ELSE 0]

Within(v, lower, upper) == ~Less(v, lower) /\ Less(v, upper)

\* Mutant of CaretPlace: the major version alone, 0 or not.
CaretPlaceMajor(base) == 1

\* The place of the number that a caret keeps.
CaretPlace(base) == IF base[1] > 0 THEN 1 ELSE IF base[2] > 0 THEN 2 ELSE 3

\* How many numbers a bare range fixes: those before its first "x".
Fixed(parts) ==
    CHOOSE n \in 0..Len(parts) :
        /\ \A i \in 1..n : parts[i] # X
        /\ n < Len(parts) => parts[n + 1] = X

\* A bare range: x-range, partial or exact
BareSatisfied(v, parts) ==
    LET n == Fixed(parts)
        base == Parsed(SubSeq(parts, 1, n))
    IN  \/ n = 0
        \/ n \in {1, 2} /\ Within(v, base, Bump(base, n))
        \/ n = 3 /\ v = base

\* _satisfies_one
SatisfiesOne(v, comp) ==
    LET base == Parsed(comp.parts)
    IN  /\ comp.op = ""   => BareSatisfied(v, comp.parts)
        /\ comp.op = "^"  => Within(v, base, Bump(base, CaretPlace(base)))
        /\ comp.op = "~"  => Within(v, base, Bump(base, 2))
        /\ comp.op = ">=" => ~Less(v, base)
        /\ comp.op = ">"  => Less(base, v)
        /\ comp.op = "<"  => Less(v, base)
        /\ comp.op = "<=" => ~Less(base, v)
        /\ comp.op = "="  => v = base

\* version_satisfies: a range is a set of comparators.
Satisfies(v, range) == \A comp \in range : SatisfiesOne(v, comp)

\* best_satisfying takes the first of the highest ones, and the host gives it
\* the sorted versions: a release comes before the same version with a tag.
Prefers(v, w) == Less(w.core, v.core) \/ (v.core = w.core /\ ~v.tagged)

Matching(versions, range) == {v \in versions : Satisfies(v.core, range)}

Picks(versions, range) ==
    {v \in Matching(versions, range) : \A w \in Matching(versions, range) \ {v} : Prefers(v, w)}

-----------------------------------------------------------------------------
SemverInit == registered = {}

\* host.register
RegisterVersion(v) ==
    /\ Cardinality(registered) < MaxRegistered
    /\ v \notin registered
    /\ registered' = registered \cup {v}

SemverNext == \E v \in Versions : RegisterVersion(v)

SemverSpec == SemverInit /\ [][SemverNext]_registered

-----------------------------------------------------------------------------
(***************************************************************************)
(* Properties                                                              *)
(***************************************************************************)
\* What the ranges are documented to mean (semver.py:6-10).
KeepsLeading(v, base) ==
    /\ ~Less(v, base)
    /\ v[1] = base[1]
    /\ base[1] = 0 => v[2] = base[2]
    /\ base[1] = 0 /\ base[2] = 0 => v[3] = base[3]

KeepsMinor(v, base) == v[1] = base[1] /\ v[2] = base[2] /\ v[3] >= base[3]

StartsWith(v, parts) == \A i \in 1..Len(parts) :
    v[i] = parts[i] \/ \E j \in 1..i : parts[j] = X

\* A caret range takes the compatible versions from its base on, a tilde range
\* the patches from its base on, and an x-range or a partial version all that
\* begin like it.
RangesExact ==
    \A v \in registered, parts \in PartsWritten :
        LET accepts(op) == SatisfiesOne(v.core, [op |-> op, parts |-> parts])
        IN  /\ accepts("^") <=> KeepsLeading(v.core, Parsed(parts))
            /\ accepts("~") <=> KeepsMinor(v.core, Parsed(parts))
            /\ accepts("") <=> StartsWith(v.core, parts)

\* The host picks one version whenever some version satisfies the range, ...
PicksOne ==
    \A range \in Ranges :
        Matching(registered, range) # {} => Cardinality(Picks(registered, range)) = 1

\* ... and registering another one never makes it pick a lower one.
KeepsPick ==
    \A range \in Ranges :
        \A v \in Picks(registered, range), w \in Picks(registered', range) :
            ~Less(w.core, v.core)

NeverDowngrades == [][KeepsPick]_registered

\* However a host comes to have versions, ranges mean what they are documented
\* to mean, the host picks one version, and no registration downgrades it.
VersionsHold == [][RangesExact' /\ PicksOne' /\ KeepsPick]_registered
=============================================================================
