------------------------------- MODULE Ledger -------------------------------
(***************************************************************************)
(* What the evidence store promises whoever reads it: per correlation, a   *)
(* log that only grows at its end, and that retention removes as a whole   *)
(* or not at all.  Nothing is inserted in the middle, nothing is reordered, *)
(* a committed event never disappears from a log that survives, and no     *)
(* event is there twice.                                                   *)
(***************************************************************************)
EXTENDS Sequences, Naturals

CONSTANTS Correlations, Events

VARIABLE log

Prefix(s, t) == /\ Len(s) <= Len(t)
                /\ \A i \in DOMAIN s : s[i] = t[i]

NoRepeats(s) == \A i, j \in DOMAIN s : s[i] = s[j] => i = j

Init == log = [c \in Correlations |-> <<>>]

\* One transaction extends any number of logs.
Extend ==
    \A c \in Correlations : /\ Prefix(log[c], log'[c])
                            /\ NoRepeats(log'[c])

\* Retention forgets whole logs.
Forget ==
    \E gone \in SUBSET Correlations :
        log' = [c \in Correlations |-> IF c \in gone THEN <<>> ELSE log[c]]

Next == Extend \/ Forget

Spec == Init /\ [][Next]_log
=============================================================================
