----------------------------- MODULE Routing_proofs -----------------------------
(***************************************************************************)
(* Proofs about Routing, for any hosts, any order of them, any threads and *)
(* their work, and any threshold.                                          *)
(***************************************************************************)
EXTENDS Routing, NaturalsInduction, WellFoundedInduction, SequenceTheorems, TLAPS

-----------------------------------------------------------------------------
(***************************************************************************)
(* Induction.  The rule is stated for a set of numbers, and follows from   *)
(* the well-foundedness of <.                                              *)
(***************************************************************************)
LEMMA LeastElement ==
    ASSUME NEW S, S \subseteq Nat, S # {}
    PROVE  \E n \in S : \A m \in S : ~(m < n)
<1>1. \E n \in S : \A m \in S : ~(<<m, n>> \in OpToRel(<, Nat))
    BY NatLessThanWellFounded, WFMin
<1> QED
    BY <1>1 DEF OpToRel

\* A set with 0 and the successor of each of its numbers has all of them.
LEMMA Induction ==
    ASSUME NEW P, 0 \in P, \A n \in Nat : n \in P => n + 1 \in P
    PROVE  Nat \subseteq P
<1> SUFFICES ASSUME ~(Nat \subseteq P)
             PROVE  FALSE
    OBVIOUS
<1>1. PICK n \in Nat \ P : \A m \in Nat \ P : ~(m < n)
    BY LeastElement
<1>2. n # 0 /\ n - 1 \in Nat
    BY <1>1
<1>3. n - 1 \in P
    BY <1>1, <1>2
<1> QED
    BY <1>1, <1>2, <1>3

-----------------------------------------------------------------------------
(***************************************************************************)
(* The lists of hosts                                                      *)
(***************************************************************************)
\* What Kept says of a list's first n elements, given the list f of the fewer.
KeptStep(f, s, kept, n) ==
    IF n = 0 THEN <<>>
    ELSE IF s[n] \in kept THEN Append(f[n - 1], s[n]) ELSE f[n - 1]

\* Steps look at earlier ones only ...
LEMMA KeptStepLocal ==
    ASSUME NEW s, NEW kept, NEW m \in Nat, NEW f, NEW g, \A n \in 0..m : f[n] = g[n],
           NEW n \in 0..(m + 1)
    PROVE  KeptStep(f, s, kept, n) = KeptStep(g, s, kept, n)
<1>1. n # 0 => n - 1 \in 0..m
    OBVIOUS
<1>2. n # 0 => f[n - 1] = g[n - 1]
    BY <1>1
<1> QED
    BY <1>2 DEF KeptStep

\* ... so they can be taken one after the other ...
LEMMA KeptStepsExist ==
    ASSUME NEW s, NEW kept
    PROVE  \A m \in Nat : \E f : \A n \in 0..m : f[n] = KeptStep(f, s, kept, n)
<1> DEFINE P == {m \in Nat : \E f : \A n \in 0..m : f[n] = KeptStep(f, s, kept, n)}
<1>1. 0 \in P
  <2> DEFINE f == [n \in 0..0 |-> <<>>]
  <2>1. \A n \in 0..0 : f[n] = KeptStep(f, s, kept, n)
    BY DEF KeptStep
  <2> HIDE DEF f
  <2> QED
    BY <2>1
<1>2. ASSUME NEW m \in Nat, m \in P
      PROVE  m + 1 \in P
  <2>1. PICK f : \A n \in 0..m : f[n] = KeptStep(f, s, kept, n)
    BY <1>2
  <2> DEFINE g == [n \in 0..(m + 1) |->
                      IF n = m + 1 THEN KeptStep(f, s, kept, n) ELSE f[n]]
  <2>2. /\ \A n \in 0..m : f[n] = g[n]
        /\ g[m + 1] = KeptStep(f, s, kept, m + 1)
    OBVIOUS
  <2> HIDE DEF g
  <2>3. \A n \in 0..(m + 1) : KeptStep(f, s, kept, n) = KeptStep(g, s, kept, n)
    BY <2>2, KeptStepLocal
  <2>4. \A n \in 0..(m + 1) : n \in 0..m \/ n = m + 1
    OBVIOUS
  <2>5. \A n \in 0..(m + 1) : g[n] = KeptStep(g, s, kept, n)
    BY <2>1, <2>2, <2>3, <2>4
  <2> QED
    BY <2>5
<1>3. Nat \subseteq P
  <2> HIDE DEF P
  <2> QED
    BY <1>1, <1>2, Induction
<1> QED
    BY <1>3

\* ... and make a function ...
LEMMA KeptFunction ==
    ASSUME NEW s, NEW kept, NEW m \in Nat
    PROVE  \E g : g = [n \in 0..m |-> KeptStep(g, s, kept, n)]
<1>1. PICK f : \A n \in 0..m : f[n] = KeptStep(f, s, kept, n)
    BY KeptStepsExist
<1>2. PICK g : g = [n \in 0..m |-> f[n]]
    OBVIOUS
<1>3. \A n \in 0..m : f[n] = g[n]
    BY <1>2
<1>4. \A n \in 0..(m + 1) : KeptStep(f, s, kept, n) = KeptStep(g, s, kept, n)
    BY <1>3, KeptStepLocal
<1>5. \A n \in 0..m : f[n] = KeptStep(g, s, kept, n)
    BY <1>1, <1>4
<1> QED
    BY <1>2, <1>5

\* ... which is what Kept is.
LEMMA KeptDef ==
    ASSUME NEW s, NEW kept, NEW m \in Nat, m = Len(s)
    PROVE  /\ Kept(s, kept)[0] = <<>>
           /\ \A n \in Nat : n + 1 <= m => Kept(s, kept)[n + 1] =
                 IF s[n + 1] \in kept THEN Append(Kept(s, kept)[n], s[n + 1])
                 ELSE Kept(s, kept)[n]
<1> DEFINE Is(f) == f = [n \in 0..m |-> KeptStep(f, s, kept, n)]
           k == Kept(s, kept)
<1>1. \E f : Is(f)
    BY KeptFunction
<1>2. k = CHOOSE f : Is(f)
    BY DEF Kept, KeptStep
<1>3. Is(k)
    BY <1>1, <1>2
<1> HIDE DEF k
<1>4. \A n \in 0..m : k[n] = KeptStep(k, s, kept, n)
    BY <1>3
<1>5. k[0] = <<>>
    BY <1>4 DEF KeptStep
<1>6. ASSUME NEW n \in Nat, n + 1 <= m
      PROVE  k[n + 1] = IF s[n + 1] \in kept THEN Append(k[n], s[n + 1]) ELSE k[n]
  <2>1. n + 1 \in 0..m /\ n + 1 # 0 /\ (n + 1) - 1 = n
    BY <1>6
  <2> QED
    BY <1>4, <2>1 DEF KeptStep
<1> QED
    BY <1>5, <1>6 DEF k

\* What is kept of a list: its elements that are to be kept, and no more of them.
LEMMA KeepProperties ==
    ASSUME NEW A, NEW s \in Seq(A), NEW kept
    PROVE  /\ Keep(s, kept) \in Seq(A)
           /\ Elements(Keep(s, kept)) = Elements(s) \cap kept
           /\ Len(Keep(s, kept)) <= Len(s)
<1> DEFINE k == Kept(s, kept)
           Good(n) == /\ k[n] \in Seq(A)
                      /\ Len(k[n]) <= n
                      /\ \A i \in 1..n : s[i] \in kept => s[i] \in Elements(k[n])
                      /\ Elements(k[n]) \subseteq Elements(s) \cap kept
           P == {n \in Nat : n <= Len(s) => Good(n)}
<1>a. Len(s) \in Nat
    OBVIOUS
<1>0. /\ Len(s) \in Nat
      /\ k[0] = <<>>
      /\ \A n \in Nat : n + 1 <= Len(s) =>
            k[n + 1] = IF s[n + 1] \in kept THEN Append(k[n], s[n + 1]) ELSE k[n]
    BY <1>a, KeptDef
<1> HIDE DEF k
<1>1. 0 \in P
  <2>1. /\ k[0] \in Seq(A)
        /\ Len(k[0]) <= 0
        /\ Elements(k[0]) = {}
        /\ \A i \in 1..0 : FALSE
    BY <1>0 DEF Elements
  <2> QED
    BY <2>1
<1>2. ASSUME NEW n \in Nat, n \in P
      PROVE  n + 1 \in P
  <2> SUFFICES ASSUME n + 1 <= Len(s)
               PROVE  Good(n + 1)
    OBVIOUS
  <2>1. Good(n)
    BY <1>0, <1>2
  <2>2. s[n + 1] \in A /\ n + 1 \in DOMAIN s
    BY <1>0
  <2>3. \A i \in 1..(n + 1) : i \in 1..n \/ i = n + 1
    OBVIOUS
  <2>4. Len(k[n]) \in Nat
    BY <2>1
  <2>5. CASE s[n + 1] \in kept
    <3>1. k[n + 1] = Append(k[n], s[n + 1])
        BY <1>0, <2>5
    <3>2. k[n] \in Seq(A)
        BY <2>1
    <3>3. /\ k[n + 1] \in Seq(A)
          /\ Len(k[n + 1]) = Len(k[n]) + 1
          /\ k[n + 1][Len(k[n]) + 1] = s[n + 1]
          /\ \A i \in 1..Len(k[n]) : k[n + 1][i] = k[n][i]
        BY <2>2, <3>1, <3>2, AppendProperties
    <3>4. /\ DOMAIN k[n] = 1..Len(k[n])
          /\ DOMAIN k[n + 1] = 1..(Len(k[n]) + 1)
        BY <3>2, <3>3
    <3>5. Elements(k[n + 1]) = Elements(k[n]) \cup {s[n + 1]}
      <4>1. \A i \in 1..(Len(k[n]) + 1) : i \in 1..Len(k[n]) \/ i = Len(k[n]) + 1
        BY <2>4
      <4>2. Elements(k[n + 1]) \subseteq Elements(k[n]) \cup {s[n + 1]}
        BY <3>3, <3>4, <4>1 DEF Elements
      <4>3. \A i \in 1..Len(k[n]) : i \in 1..(Len(k[n]) + 1)
        BY <2>4
      <4>4. Elements(k[n]) \subseteq Elements(k[n + 1])
        BY <3>3, <3>4, <4>3 DEF Elements
      <4>5. Len(k[n]) + 1 \in 1..(Len(k[n]) + 1)
        BY <2>4
      <4>6. s[n + 1] \in Elements(k[n + 1])
        BY <3>3, <3>4, <4>5 DEF Elements
      <4> QED
        BY <4>2, <4>4, <4>6
    <3>6. Elements(k[n + 1]) \subseteq Elements(s) \cap kept
        BY <2>1, <2>2, <2>5, <3>5 DEF Elements
    <3>7. \A i \in 1..(n + 1) : s[i] \in kept => s[i] \in Elements(k[n + 1])
        BY <2>1, <2>3, <3>5
    <3>8. Len(k[n + 1]) <= n + 1
        BY <2>1, <2>4, <3>3
    <3> QED
        BY <3>3, <3>6, <3>7, <3>8
  <2>6. CASE s[n + 1] \notin kept
    <3>1. k[n + 1] = k[n]
        BY <1>0, <2>6
    <3> QED
        BY <2>1, <2>3, <2>4, <2>6, <3>1
  <2> QED
    BY <2>5, <2>6
<1>3. Nat \subseteq P
  <2> HIDE DEF P
  <2> QED
    BY <1>1, <1>2, Induction
<1>4. Good(Len(s))
    BY <1>0, <1>3
<1>5. Elements(s) \cap kept \subseteq Elements(k[Len(s)])
    BY <1>4 DEF Elements
<1> QED
    BY <1>4, <1>5 DEF Keep, k

\* The owners in the order of their transports are the owners.
LEMMA AmongProperties ==
    ASSUME NEW hosts, hosts \subseteq Hosts
    PROVE  /\ Among(hosts) \in Seq(Hosts)
           /\ Elements(Among(hosts)) = hosts
           /\ Len(Among(hosts)) <= Len(Order)
<1>1. Order \in Seq(Hosts) /\ \A h \in Hosts : \E n \in DOMAIN Order : Order[n] = h
    BY RoutingConstants DEF RoutingConstants
<1>2. /\ Keep(Order, hosts) \in Seq(Hosts)
      /\ Elements(Keep(Order, hosts)) = Elements(Order) \cap hosts
      /\ Len(Keep(Order, hosts)) <= Len(Order)
    BY <1>1, KeepProperties
<1>3. Hosts \subseteq Elements(Order)
    BY <1>1 DEF Elements
<1> QED
    BY <1>2, <1>3 DEF Among

\* A concatenation has the elements of both lists.
LEMMA ConcatElements ==
    ASSUME NEW A, NEW s \in Seq(A), NEW u \in Seq(A)
    PROVE  s \o u \in Seq(A) /\ Elements(s \o u) = Elements(s) \cup Elements(u)
<1>1. /\ s \o u \in Seq(A)
      /\ Len(s \o u) = Len(s) + Len(u)
      /\ \A i \in 1..(Len(s) + Len(u)) :
            (s \o u)[i] = IF i <= Len(s) THEN s[i] ELSE u[i - Len(s)]
      /\ Len(s) \in Nat /\ Len(u) \in Nat
    BY ConcatProperties
<1> DEFINE w == s \o u
<1> HIDE DEF w
<1>2. DOMAIN w = 1..(Len(s) + Len(u)) /\ DOMAIN s = 1..Len(s) /\ DOMAIN u = 1..Len(u)
    BY <1>1 DEF w
<1>3. Elements(w) \subseteq Elements(s) \cup Elements(u)
  <2> SUFFICES ASSUME NEW i \in 1..(Len(s) + Len(u))
               PROVE  w[i] \in Elements(s) \cup Elements(u)
    BY <1>2 DEF Elements
  <2>1. CASE i <= Len(s)
    <3>1. i \in 1..Len(s) /\ w[i] = s[i]
        BY <1>1, <2>1 DEF w
    <3> QED
        BY <1>2, <3>1 DEF Elements
  <2>2. CASE ~(i <= Len(s))
    <3>1. i - Len(s) \in 1..Len(u) /\ w[i] = u[i - Len(s)]
        BY <1>1, <2>2 DEF w
    <3> QED
        BY <1>2, <3>1 DEF Elements
  <2> QED
    BY <2>1, <2>2
<1>4. Elements(s) \subseteq Elements(w)
  <2> SUFFICES ASSUME NEW i \in 1..Len(s)
               PROVE  s[i] \in Elements(w)
    BY <1>2 DEF Elements
  <2>1. i \in 1..(Len(s) + Len(u)) /\ w[i] = s[i]
    BY <1>1 DEF w
  <2> QED
    BY <1>2, <2>1 DEF Elements
<1>5. Elements(u) \subseteq Elements(w)
  <2> SUFFICES ASSUME NEW i \in 1..Len(u)
               PROVE  u[i] \in Elements(w)
    BY <1>2 DEF Elements
  <2>1. /\ i + Len(s) \in 1..(Len(s) + Len(u))
        /\ ~(i + Len(s) <= Len(s))
        /\ (i + Len(s)) - Len(s) = i
    BY <1>1
  <2>2. w[i + Len(s)] = u[i]
    BY <1>1, <2>1 DEF w
  <2> QED
    BY <1>2, <2>1, <2>2 DEF Elements
<1> QED
    BY <1>1, <1>3, <1>4, <1>5 DEF w

\* The elements of a list, by their places.
LEMMA ListElements ==
    ASSUME NEW A, NEW s \in Seq(A)
    PROVE  /\ Len(s) \in Nat
           /\ DOMAIN s = 1..Len(s)
           /\ Elements(s) = {s[i] : i \in 1..Len(s)}
           /\ Elements(s) \subseteq A
<1>1. Len(s) \in Nat /\ DOMAIN s = 1..Len(s) /\ s \in [1..Len(s) -> A]
    BY LenProperties
<1> QED
    BY <1>1 DEF Elements

\* An appended list has one element more.
LEMMA AppendElements ==
    ASSUME NEW A, NEW s \in Seq(A), NEW e \in A
    PROVE  /\ Append(s, e) \in Seq(A)
           /\ Elements(Append(s, e)) = Elements(s) \cup {e}
           /\ Len(Append(s, e)) = Len(s) + 1
<1>0. <<e>> \in Seq(A)
    OBVIOUS
<1>1. PICK u \in Seq(A) : u = <<e>>
    BY <1>0
<1>2. Elements(u) = {e}
    BY <1>1 DEF Elements
<1>3. s \o u \in Seq(A) /\ Elements(s \o u) = Elements(s) \cup Elements(u)
    BY ConcatElements
<1>4. Append(s, e) = s \o u
    BY <1>1, AppendIsConcat
<1>5. Len(Append(s, e)) = Len(s) + 1
    BY AppendProperties
<1>6. /\ Append(s, e) \in Seq(A)
      /\ Elements(Append(s, e)) = Elements(s) \cup {e}
    BY <1>2, <1>3, <1>4, Zenon
<1> QED
    BY <1>5, <1>6

\* The rest of a list has its other elements.
LEMMA TailElements ==
    ASSUME NEW A, NEW s \in Seq(A), s # <<>>
    PROVE  /\ Tail(s) \in Seq(A)
           /\ Head(s) \in A
           /\ Elements(s) = {Head(s)} \cup Elements(Tail(s))
           /\ Len(Tail(s)) + 1 = Len(s)
<1>1. /\ Tail(s) \in Seq(A)
      /\ Head(s) \in A
      /\ Len(Tail(s)) = Len(s) - 1
      /\ \A i \in 1..Len(Tail(s)) : Tail(s)[i] = s[i + 1]
    BY HeadTailProperties
<1>2. PICK v \in Seq(A) : v = Tail(s)
    BY <1>1
<1>3. PICK n \in Nat : n = Len(v)
    BY <1>2, ListElements
<1>4. n + 1 = Len(s) /\ \A i \in 1..n : v[i] = s[i + 1]
  <2>1. Len(s) \in Nat
    BY ListElements
  <2> QED
    BY <1>1, <1>2, <1>3, <2>1
<1>5. Elements(v) = {v[i] : i \in 1..n}
    BY <1>3, ListElements
<1>6. Elements(s) = {s[i] : i \in 1..(n + 1)}
    BY <1>4, ListElements
<1>7. Head(s) = s[1]
    OBVIOUS
<1>8. {s[i] : i \in 1..(n + 1)} = {s[1]} \cup {s[i + 1] : i \in 1..n}
  <2>1. \A i \in 1..(n + 1) : i = 1 \/ (i - 1 \in 1..n /\ (i - 1) + 1 = i)
    OBVIOUS
  <2>2. \A i \in 1..n : i + 1 \in 1..(n + 1)
    OBVIOUS
  <2>3. 1 \in 1..(n + 1)
    OBVIOUS
  <2>4. ASSUME NEW i \in 1..(n + 1)
        PROVE  s[i] \in {s[1]} \cup {s[j + 1] : j \in 1..n}
    <3>1. CASE i = 1
        BY <3>1
    <3>2. CASE i # 1
      <4>1. PICK j \in 1..n : j + 1 = i
        BY <2>1, <3>2
      <4> QED
        BY <4>1
    <3> QED
        BY <3>1, <3>2
  <2> QED
    BY <2>2, <2>3, <2>4
<1>9. {s[i + 1] : i \in 1..n} = {v[i] : i \in 1..n}
    BY <1>4
<1>10. Elements(s) = {Head(s)} \cup Elements(v)
    BY <1>5, <1>6, <1>7, <1>8, <1>9
<1>11. Len(Tail(s)) + 1 = Len(s)
    BY <1>2, <1>3, <1>4
<1> QED
    BY <1>1, <1>2, <1>10, <1>11

\* The affinity reorders.
LEMMA PreferProperties ==
    ASSUME NEW s \in Seq(Hosts), NEW wanted
    PROVE  Prefer(s, wanted) \in Seq(Hosts) /\ Elements(Prefer(s, wanted)) = Elements(s)
<1>1. /\ Keep(s, wanted) \in Seq(Hosts)
      /\ Elements(Keep(s, wanted)) = Elements(s) \cap wanted
    BY KeepProperties
<1>2. /\ Keep(s, Hosts \ wanted) \in Seq(Hosts)
      /\ Elements(Keep(s, Hosts \ wanted)) = Elements(s) \cap (Hosts \ wanted)
    BY KeepProperties
<1>3. Elements(s) \subseteq Hosts
    BY ListElements
<1>4. PICK a \in Seq(Hosts) : a = Keep(s, wanted)
    BY <1>1
<1>5. PICK b \in Seq(Hosts) : b = Keep(s, Hosts \ wanted)
    BY <1>2
<1>6. a \o b \in Seq(Hosts) /\ Elements(a \o b) = Elements(a) \cup Elements(b)
    BY ConcatElements
<1>7. Elements(a) \cup Elements(b) = Elements(s)
    BY <1>1, <1>2, <1>3, <1>4, <1>5
<1>8. Prefer(s, wanted) = a \o b
    BY <1>4, <1>5 DEF Prefer
<1> QED
    BY <1>6, <1>7, <1>8

\* So does the rotation.
LEMMA RotateProperties ==
    ASSUME NEW s \in Seq(Hosts), NEW n \in Nat, n <= Len(s)
    PROVE  /\ Rotate(s, n) \in Seq(Hosts)
           /\ Elements(Rotate(s, n)) = Elements(s)
<1>1. PICK m \in Nat : m = Len(s)
    BY ListElements
<1>2. /\ n \in Int /\ n + 1 \in Int /\ m \in Int /\ 1 \in Int
      /\ \A i \in 1..m : s[i] \in Hosts
    BY <1>1
<1>3. /\ SubSeq(s, 1, n) \in Seq(Hosts)
      /\ Len(SubSeq(s, 1, n)) = n
      /\ \A i \in 1..n : SubSeq(s, 1, n)[i] = s[i]
  <2>1. \A i \in 1..n : s[i] \in Hosts
    BY <1>1, <1>2
  <2> QED
    BY <1>1, <1>2, <2>1, SubSeqProperties
<1>4. /\ SubSeq(s, n + 1, m) \in Seq(Hosts)
      /\ Len(SubSeq(s, n + 1, m)) = m - n
      /\ \A i \in 1..(m - n) : SubSeq(s, n + 1, m)[i] = s[n + i]
  <2>1. \A i \in (n + 1)..m : s[i] \in Hosts
    BY <1>1, <1>2
  <2>2. PICK k \in Int : k = n + 1
    OBVIOUS
  <2>3. /\ SubSeq(s, k, m) \in Seq(Hosts)
        /\ Len(SubSeq(s, k, m)) = IF k <= m THEN m - k + 1 ELSE 0
        /\ \A i \in 1..(m - k + 1) : SubSeq(s, k, m)[i] = s[k + i - 1]
    BY <1>2, <2>1, <2>2, SubSeqProperties
  <2>4. m - k + 1 = m - n /\ \A i \in 1..(m - n) : k + i - 1 = n + i
    BY <2>2
  <2>5. (IF k <= m THEN m - k + 1 ELSE 0) = m - n
    BY <1>1, <2>2
  <2> QED
    BY <2>2, <2>3, <2>4, <2>5
<1>5. PICK a \in Seq(Hosts) : a = SubSeq(s, 1, n)
    BY <1>3
<1>6. PICK b \in Seq(Hosts) : b = SubSeq(s, n + 1, m)
    BY <1>4
<1>7. b \o a \in Seq(Hosts) /\ Elements(b \o a) = Elements(b) \cup Elements(a)
    BY ConcatElements
<1>8. Rotate(s, n) = b \o a
    BY <1>1, <1>5, <1>6 DEF Rotate
<1>9. Elements(s) = {s[i] : i \in 1..m}
    BY <1>1, ListElements
<1>10. Elements(a) = {s[i] : i \in 1..n}
  <2>0. Len(a) = n
    BY <1>3, <1>5
  <2>1. Elements(a) = {a[i] : i \in 1..Len(a)}
    BY ListElements
  <2> QED
    BY <1>3, <1>5, <2>0, <2>1
<1>11. Elements(b) = {s[n + i] : i \in 1..(m - n)}
  <2>0. Len(b) = m - n
    BY <1>4, <1>6
  <2>1. Elements(b) = {b[i] : i \in 1..Len(b)}
    BY ListElements
  <2> QED
    BY <1>4, <1>6, <2>0, <2>1
<1>12. ASSUME NEW i \in 1..m
       PROVE  s[i] \in Elements(b) \cup Elements(a)
  <2>1. CASE i <= n
    <3>1. i \in 1..n
        BY <2>1
    <3> QED
        BY <1>10, <3>1
  <2>2. CASE ~(i <= n)
    <3>1. i - n \in 1..(m - n) /\ n + (i - n) = i
        BY <2>2
    <3>2. PICK j \in 1..(m - n) : n + j = i
        BY <3>1
    <3> QED
        BY <1>11, <3>2
  <2> QED
    BY <2>1, <2>2
<1>13. Elements(a) \subseteq Elements(s)
  <2>1. \A i \in 1..n : i \in 1..m
    BY <1>1
  <2> QED
    BY <1>9, <1>10, <2>1
<1>14. Elements(b) \subseteq Elements(s)
  <2>1. \A i \in 1..(m - n) : n + i \in 1..m
    BY <1>1
  <2> QED
    BY <1>9, <1>11, <2>1
<1>15. Elements(s) = Elements(b) \cup Elements(a)
    BY <1>9, <1>12, <1>13, <1>14
<1> QED
    BY <1>7, <1>8, <1>15

\* So does the sort.
LEMMA ShuffleProperties ==
    ASSUME NEW s \in Seq(Hosts), NEW p \in Shuffles(s)
    PROVE  p \in Seq(Hosts) /\ Elements(p) = Elements(s)
<1>1. PICK n \in Nat : n = Len(s)
    BY ListElements
<1>2. DOMAIN s = 1..n /\ Elements(s) \subseteq Hosts
    BY <1>1, ListElements
<1>3. p \in [1..n -> Elements(s)] /\ Elements(p) = Elements(s)
    BY <1>2 DEF Shuffles
<1>4. p \in [1..n -> Hosts]
    BY <1>2, <1>3
<1>5. p \in Seq(Hosts)
    BY <1>4, SeqDef
<1> QED
    BY <1>3, <1>5
-----------------------------------------------------------------------------
(***************************************************************************)
(* The threads keep to the lists: a host is there to be dealt with         *)
(* wherever the code deals with one, and no list of healthy owners is      *)
(* longer than the list of the hosts.                                      *)
(***************************************************************************)
\* Where the host at the head of todo is being dealt with.
Handling == {"bump", "check", "trip", "rearm", "restore", "tell_healthy",
             "tell_unhealthy"}

Ordering == {"first", "second", "order"}

HostAtHand(t) == at[t] \in Handling => todo[t] # <<>>

ListedOnce(t) ==
    /\ Len(round[t]) <= Len(Order)
    /\ at[t] = "first" => Len(healthy[t]) + Len(todo[t]) <= Len(Order)
    /\ at[t] \in Ordering => Len(healthy[t]) <= Len(Order)
    /\ at[t] \notin Ordering => healthy[t] = <<>>

Lists == \A t \in Threads : HostAtHand(t) /\ ListedOnce(t)

BreakersTyped ==
    /\ selection \in Selections
    /\ breaker \in [Hosts -> {"closed", "open", "elapsed"}]
    /\ failures \in [Hosts -> 0..Threshold]
    /\ trips \in [Hosts -> 0..TripCap]
    /\ probing \in [Hosts -> BOOLEAN]
    /\ rr \in 0..Len(Order)
    /\ known \subseteq Hosts
    /\ told \in [Hosts -> {"healthy", "unhealthy"}]

ThreadsTyped ==
    /\ at \in [Threads -> Locations]
    /\ kind \in [Threads -> {"none", "invoke", "replay", "probe", "refresh"}]
    /\ round \in [Threads -> Seq(Hosts)]
    /\ todo \in [Threads -> Seq(Hosts)]
    /\ healthy \in [Threads -> Seq(Hosts)]
    /\ rest \in [Threads -> Seq(Hosts)]
    /\ owed \in [Threads -> SUBSET Hosts]
    /\ moved \in [Threads -> SUBSET Hosts]

ThreadsInv == ThreadsTyped /\ Lists

LEMMA TypeParts == TypeOK <=> BreakersTyped /\ ThreadsTyped
    BY DEF TypeOK, BreakersTyped, ThreadsTyped

LEMMA Lengths == Len(Order) \in Nat /\ Len(<<>>) = 0 /\ <<>> \in Seq(Hosts)
<1>1. Order \in Seq(Hosts)
    BY RoutingConstants DEF RoutingConstants
<1> QED
    BY <1>1, ListElements, EmptySeq

\* The host at hand is a host, and the rest of the list a list.
LEMMA AtHand ==
    ASSUME ThreadsTyped, NEW t \in Threads, todo[t] # <<>>
    PROVE  /\ Host(t) \in Hosts
           /\ Tail(todo[t]) \in Seq(Hosts)
           /\ Elements(todo[t]) = {Host(t)} \cup Elements(Tail(todo[t]))
           /\ Len(Tail(todo[t])) + 1 = Len(todo[t])
<1>1. PICK s \in Seq(Hosts) : s = todo[t]
    BY DEF ThreadsTyped
<1>2. /\ Tail(s) \in Seq(Hosts)
      /\ Head(s) \in Hosts
      /\ Elements(s) = {Head(s)} \cup Elements(Tail(s))
      /\ Len(Tail(s)) + 1 = Len(s)
    BY <1>1, TailElements
<1> QED
    BY <1>1, <1>2, Zenon DEF Host

\* A thread that moves without touching the lists under construction.
LEMMA GoKeepsLists ==
    ASSUME ThreadsInv, NEW t \in Threads, NEW l \in Locations \ Ordering, Go(t, l),
           at[t] \notin Ordering,
           UNCHANGED <<kind, round, healthy, rest>>,
           \/ UNCHANGED todo
           \/ todo[t] # <<>> /\ todo' = [todo EXCEPT ![t] = Tail(@)] /\ l \notin Handling,
           l \in Handling => todo[t] # <<>>,
           owed' \in [Threads -> SUBSET Hosts],
           moved' \in [Threads -> SUBSET Hosts]
    PROVE  ThreadsInv'
<1>1. /\ at' = [at EXCEPT ![t] = l]
      /\ ThreadsTyped
      /\ Lists
    BY DEF Go, ThreadsInv
<1>2. todo' \in [Threads -> Seq(Hosts)] /\ \A u \in Threads : u # t => todo'[u] = todo[u]
  <2>1. CASE UNCHANGED todo
    BY <1>1, <2>1 DEF ThreadsTyped
  <2>2. CASE todo[t] # <<>> /\ todo' = [todo EXCEPT ![t] = Tail(@)] /\ l \notin Handling
    <3>1. Tail(todo[t]) \in Seq(Hosts)
        BY <1>1, <2>2, AtHand
    <3> QED
        BY <1>1, <2>2, <3>1 DEF ThreadsTyped
  <2> QED
    BY <2>1, <2>2
<1>3. ThreadsTyped'
    BY <1>1, <1>2 DEF ThreadsTyped
<1>4. ASSUME NEW u \in Threads
      PROVE  (HostAtHand(u) /\ ListedOnce(u))'
  <2>1. CASE u = t
    <3>1. at'[t] = l
        BY <1>1 DEF ThreadsTyped
    <3>2. l \in Handling => todo'[t] # <<>>
        OBVIOUS
    <3>3. l # "first" /\ l \notin Ordering
        BY DEF Ordering
    <3>4. ListedOnce(t)
        BY <1>1 DEF Lists
    <3> QED
        BY <2>1, <3>1, <3>2, <3>3, <3>4 DEF HostAtHand, ListedOnce
  <2>2. CASE u # t
    <3>1. at'[u] = at[u] /\ todo'[u] = todo[u]
        BY <1>1, <1>2, <2>2 DEF ThreadsTyped
    <3> QED
        BY <1>1, <3>1 DEF Lists, HostAtHand, ListedOnce
  <2> QED
    BY <2>1, <2>2
<1> QED
    BY <1>3, <1>4 DEF ThreadsInv, Lists

\* A thread whose round ends.
LEMMA ReturnKeepsLists ==
    ASSUME ThreadsInv, NEW t \in Threads, Return(t), at[t] \notin Ordering,
           UNCHANGED <<healthy, rest>>
    PROVE  ThreadsInv'
<1>1. /\ at' = [at EXCEPT ![t] = "idle"]
      /\ kind' = [kind EXCEPT ![t] = "none"]
      /\ round' = [round EXCEPT ![t] = <<>>]
      /\ todo' = [todo EXCEPT ![t] = <<>>]
      /\ owed' = [owed EXCEPT ![t] = {}]
      /\ moved' = [moved EXCEPT ![t] = {}]
      /\ ThreadsTyped
      /\ Lists
    BY DEF Return, Go, ThreadsInv
<1>2. ThreadsTyped'
    BY <1>1, Lengths DEF ThreadsTyped, Locations
<1>3. ASSUME NEW u \in Threads
      PROVE  (HostAtHand(u) /\ ListedOnce(u))'
  <2>1. CASE u = t
    <3>1. at'[t] = "idle" /\ round'[t] = <<>>
        BY <1>1 DEF ThreadsTyped
    <3>2. "idle" \notin Handling /\ "idle" \notin Ordering /\ "idle" # "first"
        BY DEF Handling, Ordering
    <3>3. healthy[t] = <<>>
        BY <1>1 DEF Lists, ListedOnce
    <3>4. Len(round'[t]) <= Len(Order)
        BY <3>1, Lengths
    <3> QED
        BY <2>1, <3>1, <3>2, <3>3, <3>4 DEF HostAtHand, ListedOnce
  <2>2. CASE u # t
    <3>1. at'[u] = at[u] /\ todo'[u] = todo[u] /\ round'[u] = round[u]
        BY <1>1, <2>2 DEF ThreadsTyped
    <3> QED
        BY <1>1, <3>1 DEF Lists, HostAtHand, ListedOnce
  <2> QED
    BY <2>1, <2>2
<1> QED
    BY <1>2, <1>3 DEF ThreadsInv, Lists

\* A thread that is done with a host.
LEMMA ResumeKeepsLists ==
    ASSUME ThreadsInv, NEW t \in Threads, NEW served \in BOOLEAN, Resume(t, served),
           at[t] \in Handling \cup {"clear"}, todo[t] # <<>>,
           UNCHANGED <<healthy, rest>>
    PROVE  ThreadsInv'
<1>1. at[t] \notin Ordering
    BY DEF Handling, Ordering
<1>2. CASE Return(t)
    BY <1>1, <1>2, ReturnKeepsLists
<1>3. CASE ~Return(t)
  <2>1. PICK l \in {"clear", "ask", "contact"} : Go(t, l)
    BY <1>3 DEF Resume
  <2>2. todo' = [todo EXCEPT ![t] = Tail(@)] /\ UNCHANGED <<kind, round, owed, moved>>
    BY <1>3 DEF Resume
  <2>3. l \in Locations \ Ordering /\ l \notin Handling
    BY DEF Locations, Ordering, Handling
  <2>4. /\ owed' \in [Threads -> SUBSET Hosts]
        /\ moved' \in [Threads -> SUBSET Hosts]
    BY <2>2 DEF ThreadsInv, ThreadsTyped
  <2> QED
    BY <1>1, <2>1, <2>2, <2>3, <2>4, GoKeepsLists
<1> QED
    BY <1>2, <1>3

LEMMA NoticeTyped ==
    ASSUME ThreadsTyped, NEW h \in Hosts, Notice(h)
    PROVE  moved' \in [Threads -> SUBSET Hosts]
BY DEF ThreadsTyped, Notice

-----------------------------------------------------------------------------
(***************************************************************************)
(* Type correctness                                                        *)
(***************************************************************************)
LEMMA InitTyped == Init => BreakersTyped /\ ThreadsInv
<1> SUFFICES ASSUME Init
             PROVE  BreakersTyped /\ ThreadsInv
    OBVIOUS
<1>1. /\ Threshold \in Nat /\ Threshold >= 1 /\ TripCap \in Nat /\ TripCap >= 1
      /\ Len(Order) \in Nat
    BY RoutingConstants, Lengths DEF RoutingConstants
<1>2. /\ 0 \in 0..Threshold /\ 1 \in 0..Threshold /\ 0 \in 0..TripCap /\ 1 \in 0..TripCap
      /\ 0 \in 0..Len(Order)
    BY <1>1
<1>3. BreakersTyped
    BY <1>2 DEF Init, BreakersTyped
<1>4. ThreadsTyped
    BY Lengths DEF Init, ThreadsTyped, Locations
<1>5. ASSUME NEW t \in Threads
      PROVE  HostAtHand(t) /\ ListedOnce(t)
  <2>1. at[t] = "idle" /\ round[t] = <<>> /\ healthy[t] = <<>>
    BY DEF Init
  <2>2. "idle" \notin Handling /\ "idle" \notin Ordering /\ "idle" # "first"
    BY DEF Handling, Ordering
  <2>3. Len(round[t]) <= Len(Order)
    BY <1>1, <2>1, Lengths
  <2> QED
    BY <2>1, <2>2, <2>3 DEF HostAtHand, ListedOnce
<1> QED
    BY <1>3, <1>4, <1>5 DEF ThreadsInv, Lists

\* A rotation begins within the list.
LEMMA TurnBounded ==
    ASSUME NEW n \in Nat, n > 1, NEW r \in Nat
    PROVE  r % n \in Nat /\ r % n <= n /\ (r % n) + 1 <= n
OBVIOUS

LEMMA OrderedCandidates ==
    ASSUME BreakersTyped, ThreadsInv, NEW t \in Threads, OrderCandidates(t)
    PROVE  /\ rr' \in 0..Len(Order)
           /\ \E c \in Seq(Hosts) :
                 /\ todo' = [todo EXCEPT ![t] = c]
                 /\ Elements(c) = Elements(healthy[t]) \cup Elements(rest[t])
<1>1. PICK list \in Seq(Hosts) : list = healthy[t]
    BY DEF ThreadsInv, ThreadsTyped
<1>2. PICK tl \in Seq(Hosts) : tl = rest[t]
    BY DEF ThreadsInv, ThreadsTyped
<1>3. PICK n \in Nat : n = Len(list)
    BY ListElements
<1>4. n <= Len(Order) /\ Len(Order) \in Nat
    BY <1>1, <1>3, Lengths DEF OrderCandidates, ThreadsInv, Lists, ListedOnce, Ordering
<1>5. rr \in Nat /\ rr \in 0..Len(Order)
    BY <1>4 DEF BreakersTyped
<1>6. n > 1 => /\ Turn(list) \in Nat
               /\ Turn(list) <= Len(list)
               /\ Turn(list) + 1 <= Len(list)
    BY <1>3, <1>5, TurnBounded DEF Turn
<1>7. rr' = IF selection = "round_robin" /\ n > 1 THEN Turn(list) + 1 ELSE rr
    BY <1>1, <1>3 DEF OrderCandidates
<1>8. rr' \in 0..Len(Order)
  <2>1. CASE selection = "round_robin" /\ n > 1
    <3>1. rr' = Turn(list) + 1
        BY <1>7, <2>1
    <3> QED
        BY <1>3, <1>4, <1>6, <2>1, <3>1
  <2>2. CASE ~(selection = "round_robin" /\ n > 1)
    BY <1>5, <1>7, <2>2
  <2> QED
    BY <2>1, <2>2
<1>9. PICK base \in CASE selection = "round_robin" /\ n > 1 -> {Rotate(list, Turn(list))}
                      [] selection = "least_loaded" /\ n > 1 -> Shuffles(list)
                      [] OTHER -> {list},
           wanted \in Affinities :
           todo' = [todo EXCEPT ![t] = Prefer(base, wanted) \o rest[t]]
    BY <1>1, <1>3 DEF OrderCandidates
<1>10. base \in Seq(Hosts) /\ Elements(base) = Elements(list)
  <2>1. CASE selection = "round_robin" /\ n > 1
    <3>1. base = Rotate(list, Turn(list))
        BY <1>9, <2>1
    <3> QED
        BY <1>6, <2>1, <3>1, RotateProperties
  <2>2. CASE selection = "least_loaded" /\ n > 1
    <3>1. base \in Shuffles(list)
        BY <1>9, <2>2
    <3> QED
        BY <3>1, ShuffleProperties
  <2>3. CASE ~(selection = "round_robin" /\ n > 1) /\ ~(selection = "least_loaded" /\ n > 1)
    BY <1>9, <2>3
  <2> QED
    BY <2>1, <2>2, <2>3
<1>11. Prefer(base, wanted) \in Seq(Hosts) /\ Elements(Prefer(base, wanted)) = Elements(base)
    BY <1>10, PreferProperties
<1>12. PICK first \in Seq(Hosts) : first = Prefer(base, wanted)
    BY <1>11
<1>13. first \o tl \in Seq(Hosts) /\ Elements(first \o tl) = Elements(first) \cup Elements(tl)
    BY ConcatElements
<1>14. todo' = [todo EXCEPT ![t] = first \o tl]
    BY <1>2, <1>9, <1>12
<1>15. Elements(first \o tl) = Elements(healthy[t]) \cup Elements(rest[t])
    BY <1>1, <1>2, <1>10, <1>11, <1>12, <1>13
<1> QED
    BY <1>8, <1>13, <1>14, <1>15

LEMMA AmongKnown ==
    ASSUME NEW hosts, hosts \subseteq Hosts
    PROVE  \E c \in Seq(Hosts) : c = Among(hosts) /\ Len(c) <= Len(Order) /\ Elements(c) = hosts
BY AmongProperties

\* What the round a thread begins is about.
LEMMA BeginDetails ==
    ASSUME BreakersTyped, NEW t \in Threads, Begin(t)
    PROVE  \E work \in {"invoke", "replay", "probe", "refresh"}, c \in Seq(Hosts),
              l \in {"stats", "first", "clear", "ask", "contact"} :
              /\ Len(c) <= Len(Order)
              /\ l \in {"stats", "first"} <=> work = "invoke"
              /\ work = "invoke" => Elements(c) = known
              /\ at[t] = "idle"
              /\ Go(t, l)
              /\ kind' = [kind EXCEPT ![t] = work]
              /\ round' = [round EXCEPT ![t] = c]
              /\ todo' = [todo EXCEPT ![t] = c]
              /\ owed' = [owed EXCEPT ![t] = IF work = "invoke" THEN known ELSE {}]
              /\ UNCHANGED <<selection, breakers, rr, known, told, healthy, rest, moved>>
<1>0. PICK work \in Work[t], answering \in SUBSET Hosts :
        LET hosts == CASE work = "invoke"  -> Among(known)
                       [] work = "refresh" -> Among(answering)
                       [] OTHER            -> Order
        IN  /\ at[t] = "idle"
            /\ Go(t, CASE work = "invoke"  -> FirstStop
                       [] work = "refresh" -> "clear"
                       [] work = "replay"  -> "ask"
                       [] OTHER            -> "contact")
            /\ kind' = [kind EXCEPT ![t] = work]
            /\ round' = [round EXCEPT ![t] = hosts]
            /\ todo' = [todo EXCEPT ![t] = hosts]
            /\ owed' = [owed EXCEPT ![t] = IF work = "invoke" THEN known ELSE {}]
            /\ UNCHANGED <<selection, breakers, rr, known, told, healthy, rest, moved>>
    BY Zenon DEF Begin
<1>1. PICK hosts : /\ hosts = CASE work = "invoke"  -> Among(known)
                                [] work = "refresh" -> Among(answering)
                                [] OTHER            -> Order
                   /\ round' = [round EXCEPT ![t] = hosts]
                   /\ todo' = [todo EXCEPT ![t] = hosts]
    BY <1>0
<1>2. work \in {"invoke", "replay", "probe", "refresh"}
    BY RoutingConstants DEF RoutingConstants
<1>3. /\ hosts \in Seq(Hosts)
      /\ Len(hosts) <= Len(Order)
      /\ work = "invoke" => Elements(hosts) = known
  <2>1. CASE work = "invoke"
    <3>1. known \subseteq Hosts
        BY DEF BreakersTyped
    <3>2. PICK c \in Seq(Hosts) : c = Among(known) /\ Len(c) <= Len(Order) /\ Elements(c) = known
        BY <3>1, AmongKnown
    <3>3. hosts = c
        BY <1>1, <2>1, <3>2
    <3> QED
        BY <3>2, <3>3
  <2>2. CASE work = "refresh"
    <3>2. PICK c \in Seq(Hosts) : c = Among(answering) /\ Len(c) <= Len(Order)
        BY AmongKnown
    <3>3. hosts = c
        BY <1>1, <2>2, <3>2
    <3> QED
        BY <2>2, <3>2, <3>3
  <2>3. CASE work # "invoke" /\ work # "refresh"
    <3>1. hosts = Order
        BY <1>1, <2>3
    <3>2. Order \in Seq(Hosts) /\ Len(Order) \in Nat
        BY RoutingConstants, Lengths DEF RoutingConstants
    <3> QED
        BY <2>3, <3>1, <3>2
  <2> QED
    BY <2>1, <2>2, <2>3
<1>4. PICK l : l = CASE work = "invoke"  -> FirstStop
                     [] work = "refresh" -> "clear"
                     [] work = "replay"  -> "ask"
                     [] OTHER            -> "contact"
    OBVIOUS
<1>5. /\ l \in {"stats", "first", "clear", "ask", "contact"}
      /\ l \in {"stats", "first"} <=> work = "invoke"
    BY <1>2, <1>4 DEF FirstStop
<1>6. Go(t, l)
    BY <1>0, <1>4
<1> QED
    BY <1>0, <1>1, <1>2, <1>3, <1>5, <1>6

LEMMA BeginKeepsLists ==
    ASSUME BreakersTyped, ThreadsInv, NEW t \in Threads, Begin(t)
    PROVE  ThreadsInv'
<1>1. PICK work \in {"invoke", "replay", "probe", "refresh"}, c \in Seq(Hosts),
           l \in {"stats", "first", "clear", "ask", "contact"} :
           /\ Len(c) <= Len(Order)
           /\ at[t] = "idle"
           /\ Go(t, l)
           /\ kind' = [kind EXCEPT ![t] = work]
           /\ round' = [round EXCEPT ![t] = c]
           /\ todo' = [todo EXCEPT ![t] = c]
           /\ owed' = [owed EXCEPT ![t] = IF work = "invoke" THEN known ELSE {}]
           /\ UNCHANGED <<selection, breakers, rr, known, told, healthy, rest, moved>>
    BY BeginDetails
<1>2. at' = [at EXCEPT ![t] = l] /\ ThreadsTyped /\ Lists /\ known \subseteq Hosts
    BY <1>1 DEF Go, ThreadsInv, BreakersTyped
<1>3. ThreadsTyped'
    BY <1>1, <1>2 DEF ThreadsTyped, Locations
<1>4. ASSUME NEW u \in Threads
      PROVE  (HostAtHand(u) /\ ListedOnce(u))'
  <2>1. CASE u = t
    <3>1. at'[t] = l /\ round'[t] = c /\ todo'[t] = c /\ healthy'[t] = <<>>
      <4>1. healthy[t] = <<>>
        BY <1>1, <1>2 DEF Lists, ListedOnce, Ordering
      <4> QED
        BY <1>1, <1>2, <4>1 DEF ThreadsTyped
    <3>2. l \notin Handling
        BY DEF Handling
    <3>3. Len(c) \in Nat /\ Len(Order) \in Nat /\ Len(<<>>) = 0
        BY ListElements, Lengths
    <3>4. Len(healthy'[t]) = 0
        BY <3>1, <3>3
    <3>5. /\ Len(round'[t]) <= Len(Order)
          /\ Len(healthy'[t]) + Len(todo'[t]) <= Len(Order)
          /\ Len(healthy'[t]) <= Len(Order)
        BY <1>1, <3>1, <3>3, <3>4
    <3> QED
        BY <2>1, <3>1, <3>2, <3>5 DEF HostAtHand, ListedOnce
  <2>2. CASE u # t
    <3>1. at'[u] = at[u] /\ todo'[u] = todo[u] /\ round'[u] = round[u]
        BY <1>1, <1>2, <2>2 DEF ThreadsTyped
    <3> QED
        BY <1>1, <1>2, <3>1 DEF Lists, HostAtHand, ListedOnce
  <2> QED
    BY <2>1, <2>2
<1> QED
    BY <1>3, <1>4 DEF ThreadsInv, Lists

\* What the passes over the owners do to the lists of the thread.
PassDetails(t) ==
    \/ /\ at[t] \in {"stats", "first", "second"}
       /\ todo[t] # <<>>
       /\ UNCHANGED <<at, round>>
       /\ todo' = [todo EXCEPT ![t] = Tail(@)]
       /\ \/ UNCHANGED <<healthy, rest>>
          \/ /\ at[t] = "first"
             /\ healthy' = [healthy EXCEPT ![t] = Append(@, Host(t))]
             /\ UNCHANGED rest
          \/ /\ at[t] = "second"
             /\ rest' = [rest EXCEPT ![t] = Append(@, Host(t))]
             /\ UNCHANGED healthy
    \/ /\ at[t] = "stats" /\ Go(t, "first")
       /\ todo' = [todo EXCEPT ![t] = round[t]]
       /\ UNCHANGED <<round, healthy, rest>>
    \/ /\ at[t] = "first" /\ Go(t, "second")
       /\ todo' = [todo EXCEPT ![t] = round[t]]
       /\ UNCHANGED <<round, healthy, rest>>
    \/ /\ at[t] = "second" /\ Go(t, "order")
       /\ UNCHANGED <<round, todo, healthy, rest>>

LEMMA Passes ==
    ASSUME NEW t \in Threads, AskForStats(t) \/ FirstPass(t) \/ SecondPass(t)
    PROVE  PassDetails(t) /\ UNCHANGED <<kind, owed, moved>>
<1>1. CASE AskForStats(t)
  <2>1. CASE todo[t] # <<>>
    BY <1>1, <2>1 DEF AskForStats, PassDetails
  <2>2. CASE todo[t] = <<>>
    BY <1>1, <2>2 DEF AskForStats, PassDetails
  <2> QED
    BY <2>1, <2>2
<1>2. CASE FirstPass(t)
  <2>1. CASE todo[t] # <<>>
    BY <1>2, <2>1 DEF FirstPass, PassDetails
  <2>2. CASE todo[t] = <<>>
    BY <1>2, <2>2 DEF FirstPass, PassDetails
  <2> QED
    BY <2>1, <2>2
<1>3. CASE SecondPass(t)
  <2>1. CASE todo[t] # <<>>
    BY <1>3, <2>1 DEF SecondPass, PassDetails
  <2>2. CASE todo[t] = <<>>
    BY <1>3, <2>2 DEF SecondPass, PassDetails
  <2> QED
    BY <2>1, <2>2
<1> QED
    BY <1>1, <1>2, <1>3

LEMMA PassesKeepLists ==
    ASSUME ThreadsInv, NEW t \in Threads, PassDetails(t), UNCHANGED <<kind, owed, moved>>
    PROVE  ThreadsInv'
<1>1. ThreadsTyped /\ Lists /\ ListedOnce(t)
    BY DEF ThreadsInv, Lists
<1>2. /\ round[t] \in Seq(Hosts) /\ todo[t] \in Seq(Hosts)
      /\ healthy[t] \in Seq(Hosts) /\ rest[t] \in Seq(Hosts)
    BY <1>1 DEF ThreadsTyped
<1>3. PICK r \in Seq(Hosts), d \in Seq(Hosts), g \in Seq(Hosts), b \in Seq(Hosts) :
           r = round[t] /\ d = todo[t] /\ g = healthy[t] /\ b = rest[t]
    BY <1>2
<1>4. /\ Len(r) \in Nat /\ Len(d) \in Nat /\ Len(g) \in Nat /\ Len(Order) \in Nat
      /\ Len(<<>>) = 0
    BY ListElements, Lengths
<1>5. Len(r) <= Len(Order)
    BY <1>1, <1>3 DEF ListedOnce
<1> SUFFICES /\ ThreadsTyped'
             /\ \A u \in Threads : u # t => /\ at'[u] = at[u] /\ round'[u] = round[u]
                                            /\ todo'[u] = todo[u] /\ healthy'[u] = healthy[u]
             /\ at'[t] \in {"stats", "first", "second", "order"}
             /\ round'[t] = r
             /\ at'[t] = "stats" => healthy'[t] = <<>>
             /\ at'[t] = "first" => Len(healthy'[t]) + Len(todo'[t]) <= Len(Order)
             /\ at'[t] # "stats" => Len(healthy'[t]) <= Len(Order)
  <2>1. ASSUME NEW u \in Threads
        PROVE  (HostAtHand(u) /\ ListedOnce(u))'
    <3>1. CASE u = t
        BY <1>5, <3>1 DEF HostAtHand, ListedOnce, Handling, Ordering
    <3>2. CASE u # t
        BY <1>1, <3>2 DEF Lists, HostAtHand, ListedOnce
    <3> QED
        BY <3>1, <3>2
  <2> QED
    BY <2>1 DEF ThreadsInv, Lists
<1>6. CASE /\ at[t] \in {"stats", "first", "second"}
           /\ todo[t] # <<>>
           /\ UNCHANGED <<at, round>>
           /\ todo' = [todo EXCEPT ![t] = Tail(@)]
           /\ \/ UNCHANGED <<healthy, rest>>
              \/ /\ at[t] = "first"
                 /\ healthy' = [healthy EXCEPT ![t] = Append(@, Host(t))]
                 /\ UNCHANGED rest
              \/ /\ at[t] = "second"
                 /\ rest' = [rest EXCEPT ![t] = Append(@, Host(t))]
                 /\ UNCHANGED healthy
  <2>1. /\ Host(t) \in Hosts /\ Tail(todo[t]) \in Seq(Hosts)
        /\ Len(Tail(todo[t])) + 1 = Len(todo[t])
    BY <1>1, <1>6, AtHand
  <2>2. PICK h \in Hosts, e \in Seq(Hosts) :
            h = Host(t) /\ e = Tail(todo[t]) /\ Len(e) + 1 = Len(d) /\ Len(e) \in Nat
    BY <1>3, <2>1, ListElements
  <2>3. /\ Append(g, h) \in Seq(Hosts)
        /\ Append(b, h) \in Seq(Hosts)
        /\ Len(Append(g, h)) = Len(g) + 1
    BY AppendElements
  <2>4. PICK g2 \in Seq(Hosts), b2 \in Seq(Hosts) :
            g2 = Append(g, h) /\ b2 = Append(b, h) /\ Len(g2) = Len(g) + 1
    BY <2>3
  <2>5. todo' = [todo EXCEPT ![t] = e]
    BY <1>6, <2>2
  <2>6. \/ UNCHANGED <<healthy, rest>>
        \/ at[t] = "first" /\ healthy' = [healthy EXCEPT ![t] = g2] /\ UNCHANGED rest
        \/ at[t] = "second" /\ rest' = [rest EXCEPT ![t] = b2] /\ UNCHANGED healthy
    BY <1>3, <1>6, <2>2, <2>4
  <2>7. ThreadsTyped' /\ todo'[t] = e
    <3>1. healthy' \in [Threads -> Seq(Hosts)] /\ rest' \in [Threads -> Seq(Hosts)]
        BY <1>1, <2>6 DEF ThreadsTyped
    <3>2. todo' \in [Threads -> Seq(Hosts)] /\ todo'[t] = e
        BY <1>1, <2>5 DEF ThreadsTyped
    <3>3. UNCHANGED <<at, round, kind, owed, moved>>
        BY <1>6
    <3> QED
        BY <1>1, <3>1, <3>2, <3>3, Zenon DEF ThreadsTyped
  <2>8. \A u \in Threads : u # t => todo'[u] = todo[u] /\ healthy'[u] = healthy[u]
    BY <1>1, <2>5, <2>6 DEF ThreadsTyped
  <2>9. /\ at[t] = "stats" => healthy[t] = <<>>
        /\ at[t] = "first" => Len(g) + Len(d) <= Len(Order)
        /\ at[t] # "stats" => Len(g) <= Len(Order)
    BY <1>1, <1>3, <1>6 DEF ListedOnce, Ordering
  <2>10. \/ healthy'[t] = g
         \/ at[t] = "first" /\ healthy'[t] = g2
    BY <1>1, <1>3, <2>6 DEF ThreadsTyped
  <2>11. at[t] = "first" => Len(healthy'[t]) + Len(e) <= Len(Order) /\ Len(healthy'[t]) <= Len(Order)
    <3>1. PICK i \in Nat, j \in Nat, k \in Nat : i = Len(g) /\ j = Len(d) /\ k = Len(e)
        BY <1>4, <2>2
    <3>2. CASE healthy'[t] = g
        BY <1>4, <2>2, <2>9, <3>1, <3>2
    <3>3. CASE healthy'[t] = g2 /\ at[t] = "first"
      <4>1. Len(healthy'[t]) = i + 1 /\ k + 1 = j
        BY <2>2, <2>4, <3>1, <3>3
      <4>2. PICK o \in Nat : o = Len(Order)
        BY <1>4
      <4>3. i + j <= o
        BY <2>9, <3>1, <3>3, <4>2
      <4>4. (i + 1) + k <= o /\ i + 1 <= o
        BY <4>1, <4>3
      <4> QED
        BY <3>1, <4>1, <4>2, <4>4
    <3> QED
        BY <2>10, <3>2, <3>3
  <2>12. at[t] = "second" => Len(healthy'[t]) <= Len(Order)
    BY <2>9, <2>10
  <2> QED
    BY <1>3, <1>6, <2>7, <2>8, <2>9, <2>10, <2>11, <2>12
<1>7. CASE /\ at[t] = "stats" /\ Go(t, "first")
           /\ todo' = [todo EXCEPT ![t] = round[t]]
           /\ UNCHANGED <<round, healthy, rest>>
  <2>1. at' = [at EXCEPT ![t] = "first"] /\ todo' = [todo EXCEPT ![t] = r]
    BY <1>3, <1>7 DEF Go
  <2>2. ThreadsTyped' /\ at'[t] = "first" /\ todo'[t] = r
    BY <1>1, <1>7, <2>1 DEF ThreadsTyped, Locations
  <2>3. healthy'[t] = <<>>
    BY <1>1, <1>7 DEF ListedOnce, Ordering
  <2>4. Len(healthy'[t]) + Len(todo'[t]) <= Len(Order) /\ Len(healthy'[t]) <= Len(Order)
    BY <1>4, <1>5, <2>2, <2>3
  <2>5. \A u \in Threads : u # t => at'[u] = at[u] /\ todo'[u] = todo[u]
    BY <1>1, <2>1 DEF ThreadsTyped
  <2> QED
    BY <1>3, <1>7, <2>2, <2>4, <2>5
<1>8. CASE /\ at[t] = "first" /\ Go(t, "second")
           /\ todo' = [todo EXCEPT ![t] = round[t]]
           /\ UNCHANGED <<round, healthy, rest>>
  <2>1. at' = [at EXCEPT ![t] = "second"] /\ todo' = [todo EXCEPT ![t] = r]
    BY <1>3, <1>8 DEF Go
  <2>2. ThreadsTyped' /\ at'[t] = "second" /\ todo'[t] = r
    BY <1>1, <1>8, <2>1 DEF ThreadsTyped, Locations
  <2>4. Len(healthy'[t]) <= Len(Order)
    BY <1>1, <1>8 DEF ListedOnce, Ordering
  <2>5. \A u \in Threads : u # t => at'[u] = at[u] /\ todo'[u] = todo[u]
    BY <1>1, <2>1 DEF ThreadsTyped
  <2> QED
    BY <1>3, <1>8, <2>2, <2>4, <2>5
<1>9. CASE /\ at[t] = "second" /\ Go(t, "order")
           /\ UNCHANGED <<round, todo, healthy, rest>>
  <2>1. at' = [at EXCEPT ![t] = "order"]
    BY <1>9 DEF Go
  <2>2. ThreadsTyped' /\ at'[t] = "order"
    BY <1>1, <1>9, <2>1 DEF ThreadsTyped, Locations
  <2>4. Len(healthy'[t]) <= Len(Order)
    BY <1>1, <1>9 DEF ListedOnce, Ordering
  <2>5. \A u \in Threads : u # t => at'[u] = at[u]
    BY <1>1, <2>1 DEF ThreadsTyped
  <2> QED
    BY <1>3, <1>9, <2>2, <2>4, <2>5
<1> QED
    BY <1>6, <1>7, <1>8, <1>9 DEF PassDetails

LEMMA OrderingKeepsLists ==
    ASSUME BreakersTyped, ThreadsInv, NEW t \in Threads, OrderCandidates(t)
    PROVE  ThreadsInv'
<1>1. PICK c \in Seq(Hosts) : todo' = [todo EXCEPT ![t] = c]
    BY OrderedCandidates
<1>2. /\ round' = [round EXCEPT ![t] = <<>>]
      /\ healthy' = [healthy EXCEPT ![t] = <<>>]
      /\ rest' = [rest EXCEPT ![t] = <<>>]
      /\ at' = [at EXCEPT ![t] = "contact"]
      /\ UNCHANGED <<kind, owed, moved>>
      /\ ThreadsTyped /\ Lists
    BY DEF OrderCandidates, Go, ThreadsInv
<1>3. ThreadsTyped'
    BY <1>1, <1>2, Lengths DEF ThreadsTyped, Locations
<1>4. ASSUME NEW u \in Threads
      PROVE  (HostAtHand(u) /\ ListedOnce(u))'
  <2>1. CASE u = t
    <3>1. at'[t] = "contact" /\ round'[t] = <<>> /\ healthy'[t] = <<>>
        BY <1>2 DEF ThreadsTyped
    <3>2. Len(round'[t]) <= Len(Order)
        BY <3>1, Lengths
    <3> QED
        BY <2>1, <3>1, <3>2 DEF HostAtHand, ListedOnce, Handling, Ordering
  <2>2. CASE u # t
    <3>1. /\ at'[u] = at[u] /\ todo'[u] = todo[u] /\ round'[u] = round[u]
          /\ healthy'[u] = healthy[u]
        BY <1>1, <1>2, <2>2 DEF ThreadsTyped
    <3> QED
        BY <1>2, <3>1 DEF Lists, HostAtHand, ListedOnce
  <2> QED
    BY <2>1, <2>2
<1> QED
    BY <1>3, <1>4 DEF ThreadsInv, Lists

RoutingInv == BreakersTyped /\ ThreadsInv

\* The breakers stay what they are, whatever is asked, marked or cleared.
LEMMA BreakersStayTyped ==
    ASSUME RoutingInv, NEW t \in Threads, Begin(t) \/ Step(t)
    PROVE  BreakersTyped'
<1>1. /\ ThreadsTyped
      /\ Threshold \in Nat /\ TripCap \in Nat /\ Threshold >= 1 /\ TripCap >= 1
    BY RoutingConstants DEF RoutingConstants, RoutingInv, ThreadsInv
<1>2. at[t] \in Handling => Host(t) \in Hosts
    BY <1>1, AtHand DEF RoutingInv, ThreadsInv, Lists, HostAtHand
<1>3. todo[t] # <<>> => Host(t) \in Hosts
    BY <1>1, AtHand
<1>4. \A n \in 0..Threshold : Least(n + 1, Threshold) \in 0..Threshold
    BY <1>1 DEF Least
<1>5. \A n \in 0..TripCap : Least(n + 1, TripCap) \in 0..TripCap
    BY <1>1 DEF Least
<1>6. ASSUME NEW h \in Hosts, Ask(h)
      PROVE  probing' \in [Hosts -> BOOLEAN]
    BY <1>6 DEF Ask, RoutingInv, BreakersTyped
<1>7. CASE UNCHANGED <<selection, breaker, failures, trips, rr, known, told>>
  <2>1. CASE UNCHANGED probing
    BY <1>7, <2>1 DEF RoutingInv, BreakersTyped
  <2>2. CASE probing' \in [Hosts -> BOOLEAN]
    BY <1>7, <2>2 DEF RoutingInv, BreakersTyped
  <2>3. CASE AskForStats(t)
    BY <1>3, <1>6, <2>1, <2>2, <2>3 DEF AskForStats
  <2>4. CASE FirstPass(t)
    BY <1>3, <1>6, <2>1, <2>2, <2>4 DEF FirstPass
  <2>5. CASE SecondPass(t)
    BY <1>3, <1>6, <2>1, <2>2, <2>5 DEF SecondPass
  <2>6. CASE ReplayFrom(t)
    BY <1>3, <1>6, <2>1, <2>2, <2>6 DEF ReplayFrom
  <2>7. CASE Begin(t) \/ Contact(t) \/ GiveUp(t) \/ CheckThreshold(t)
    BY <2>1, <2>7 DEF Begin, Contact, GiveUp, CheckThreshold, breakers
  <2>8. QED
    <3>1. CASE OrderCandidates(t) \/ SwapCatalog(t)
        BY <2>1, <3>1 DEF OrderCandidates, SwapCatalog, breakers
    <3>2. CASE Trip(t) \/ Rearm(t) \/ Restore(t) \/ Tell(t)
        BY <2>1, <3>2 DEF Trip, Rearm, Restore, Tell, breakers
    <3>3. CASE BumpFailures(t) \/ ClearCounts(t)
      <4>1. probing' = [probing EXCEPT ![Host(t)] = FALSE]
        BY <3>3 DEF BumpFailures, ClearCounts
      <4> QED
        BY <2>2, <4>1 DEF RoutingInv, BreakersTyped
    <3> QED
        BY <2>3, <2>4, <2>5, <2>6, <2>7, <3>1, <3>2, <3>3 DEF Step
<1>8. CASE Begin(t) \/ Contact(t) \/ GiveUp(t) \/ CheckThreshold(t)
    BY <1>7, <1>8 DEF Begin, Contact, GiveUp, CheckThreshold, breakers
<1>9. CASE AskForStats(t) \/ FirstPass(t) \/ SecondPass(t) \/ ReplayFrom(t)
    BY <1>7, <1>9 DEF AskForStats, FirstPass, SecondPass, ReplayFrom
<1>10. CASE OrderCandidates(t)
  <2>1. rr' \in 0..Len(Order)
    BY <1>10, OrderedCandidates DEF RoutingInv
  <2> QED
    BY <1>10, <2>1 DEF OrderCandidates, breakers, RoutingInv, BreakersTyped
<1>11. CASE SwapCatalog(t)
  <2>1. round[t] \in Seq(Hosts)
    BY <1>1 DEF ThreadsTyped
  <2>2. Elements(round[t]) \subseteq Hosts
    BY <2>1, ListElements
  <2> QED
    BY <1>11, <2>2 DEF SwapCatalog, breakers, RoutingInv, BreakersTyped
<1>12. CASE BumpFailures(t)
    BY <1>2, <1>4, <1>12 DEF BumpFailures, Handling, RoutingInv, BreakersTyped
<1>13. CASE Trip(t)
    BY <1>2, <1>5, <1>13 DEF Trip, Handling, RoutingInv, BreakersTyped
<1>14. CASE Rearm(t)
    BY <1>14 DEF Rearm, RoutingInv, BreakersTyped
<1>15. CASE ClearCounts(t)
  <2>1. 0 \in 0..Threshold /\ 0 \in 0..TripCap
    BY <1>1
  <2>2. failures' \in [Hosts -> 0..Threshold] /\ trips' \in [Hosts -> 0..TripCap]
    BY <1>15, <2>1 DEF ClearCounts, RoutingInv, BreakersTyped
  <2>3. probing' \in [Hosts -> BOOLEAN]
    BY <1>15 DEF ClearCounts, RoutingInv, BreakersTyped
  <2>4. UNCHANGED <<selection, breaker, rr, known, told>>
    BY <1>15 DEF ClearCounts
  <2> QED
    BY <2>2, <2>3, <2>4 DEF RoutingInv, BreakersTyped
<1>16. CASE Restore(t)
    BY <1>16 DEF Restore, RoutingInv, BreakersTyped
<1>17. CASE Tell(t)
    BY <1>17 DEF Tell, breakers, RoutingInv, BreakersTyped
<1> QED
    BY <1>8, <1>9, <1>10, <1>11, <1>12, <1>13, <1>14, <1>15, <1>16, <1>17 DEF Step

\* The threads keep to the lists.
LEMMA ListsStay ==
    ASSUME RoutingInv, NEW t \in Threads, Begin(t) \/ Step(t)
    PROVE  ThreadsInv'
<1>1. BreakersTyped /\ ThreadsInv /\ ThreadsTyped /\ HostAtHand(t)
    BY DEF RoutingInv, ThreadsInv, Lists
<1>2. at[t] \in Handling => todo[t] # <<>>
    BY <1>1 DEF HostAtHand
<1>3. todo[t] # <<>> => Host(t) \in Hosts
    BY <1>1, AtHand
<1>4. /\ owed \in [Threads -> SUBSET Hosts]
      /\ moved \in [Threads -> SUBSET Hosts]
    BY <1>1 DEF ThreadsTyped
<1>5. CASE Begin(t)
    BY <1>1, <1>5, BeginKeepsLists
<1>6. CASE AskForStats(t) \/ FirstPass(t) \/ SecondPass(t)
    BY <1>1, <1>6, Passes, PassesKeepLists
<1>7. CASE OrderCandidates(t)
    BY <1>1, <1>7, OrderingKeepsLists
<1>8. CASE Contact(t)
  <2>1. PICK l \in {"clear", "bump"} : Go(t, l)
    BY <1>8 DEF Contact
  <2>2. /\ l \in Locations \ Ordering
        /\ at[t] \notin Ordering
        /\ todo[t] # <<>>
        /\ UNCHANGED <<kind, round, todo, healthy, rest, moved>>
    BY <1>8 DEF Contact, Locations, Ordering
  <2>3. owed' \in [Threads -> SUBSET Hosts] /\ moved' \in [Threads -> SUBSET Hosts]
    BY <1>4, <1>8 DEF Contact
  <2> QED
    BY <1>1, <2>1, <2>2, <2>3, GoKeepsLists
<1>9. CASE GiveUp(t) \/ SwapCatalog(t)
  <2>1. Return(t) /\ at[t] \notin Ordering /\ UNCHANGED <<healthy, rest>>
    BY <1>9 DEF GiveUp, SwapCatalog, Ordering
  <2> QED
    BY <1>1, <2>1, ReturnKeepsLists
<1>10. CASE ReplayFrom(t)
  <2>1. at[t] = "ask" /\ at[t] \notin Ordering /\ UNCHANGED <<healthy, rest>>
    BY <1>10 DEF ReplayFrom, Ordering
  <2>2. CASE todo[t] = <<>>
    <3>1. Return(t)
        BY <1>10, <2>2 DEF ReplayFrom
    <3> QED
        BY <1>1, <2>1, <3>1, ReturnKeepsLists
  <2>3. CASE todo[t] # <<>>
    <3>1. /\ UNCHANGED <<kind, round, owed, moved>>
          /\ \/ Go(t, "bump") /\ UNCHANGED todo
             \/ UNCHANGED at /\ todo' = [todo EXCEPT ![t] = Tail(@)]
        BY <1>10, <2>3 DEF ReplayFrom
    <3>2. "bump" \in Locations \ Ordering /\ "ask" \in Locations \ Ordering /\ "ask" \notin Handling
        BY DEF Locations, Ordering, Handling
    <3>3. owed' \in [Threads -> SUBSET Hosts] /\ moved' \in [Threads -> SUBSET Hosts]
        BY <1>4, <3>1
    <3>4. CASE Go(t, "bump") /\ UNCHANGED todo
        BY <1>1, <2>1, <2>3, <3>1, <3>2, <3>3, <3>4, GoKeepsLists
    <3>5. CASE UNCHANGED at /\ todo' = [todo EXCEPT ![t] = Tail(@)]
      <4>1. Go(t, "ask")
        BY <1>1, <2>1, <3>5 DEF Go, ThreadsTyped
      <4> QED
        BY <1>1, <2>1, <2>3, <3>1, <3>2, <3>3, <3>5, <4>1, GoKeepsLists
    <3> QED
        BY <3>1, <3>4, <3>5
  <2> QED
    BY <2>2, <2>3
<1>11. CASE BumpFailures(t) \/ ClearCounts(t)
  <2>1. PICK l \in {"check", "restore"} : Go(t, l)
    BY <1>11 DEF BumpFailures, ClearCounts
  <2>2. /\ at[t] \notin Ordering
        /\ todo[t] # <<>>
        /\ UNCHANGED <<kind, round, todo, healthy, rest, owed>>
        /\ Notice(Host(t))
    BY <1>2, <1>11 DEF BumpFailures, ClearCounts, Handling, Ordering
  <2>3. l \in Locations \ Ordering
    BY DEF Locations, Ordering
  <2>4. owed' \in [Threads -> SUBSET Hosts] /\ moved' \in [Threads -> SUBSET Hosts]
    BY <1>1, <1>3, <1>4, <2>2, NoticeTyped
  <2> QED
    BY <1>1, <2>1, <2>2, <2>3, <2>4, GoKeepsLists
<1>12. CASE CheckThreshold(t)
  <2>1. at[t] \in Handling /\ at[t] \notin Ordering /\ todo[t] # <<>> /\ UNCHANGED <<healthy, rest>>
    BY <1>2, <1>12 DEF CheckThreshold, Handling, Ordering
  <2>2. \/ Return(t) \/ Resume(t, FALSE)
        \/ /\ Go(t, "trip") \/ Go(t, "rearm")
           /\ UNCHANGED <<kind, round, todo, owed, moved>>
    BY <1>12 DEF CheckThreshold
  <2>3. CASE Return(t)
    BY <1>1, <2>1, <2>3, ReturnKeepsLists
  <2>4. CASE Resume(t, FALSE)
    BY <1>1, <2>1, <2>4, ResumeKeepsLists
  <2>5. CASE /\ Go(t, "trip") \/ Go(t, "rearm")
             /\ UNCHANGED <<kind, round, todo, owed, moved>>
    <3>1. PICK l \in {"trip", "rearm"} : Go(t, l)
        BY <2>5
    <3>2. l \in Locations \ Ordering
        BY DEF Locations, Ordering
    <3>3. owed' \in [Threads -> SUBSET Hosts] /\ moved' \in [Threads -> SUBSET Hosts]
        BY <1>4, <2>5
    <3> QED
        BY <1>1, <2>1, <2>5, <3>1, <3>2, <3>3, GoKeepsLists
  <2> QED
    BY <2>2, <2>3, <2>4, <2>5
<1>13. CASE Trip(t)
  <2>1. at[t] \notin Ordering /\ todo[t] # <<>>
    BY <1>2, <1>13 DEF Trip, Handling, Ordering
  <2>2. "tell_unhealthy" \in Locations \ Ordering
    BY DEF Locations, Ordering
  <2>3. /\ Go(t, "tell_unhealthy")
        /\ UNCHANGED <<kind, round, todo, healthy, rest, owed, moved>>
    BY <1>13 DEF Trip
  <2>4. owed' \in [Threads -> SUBSET Hosts] /\ moved' \in [Threads -> SUBSET Hosts]
    BY <1>4, <2>3
  <2> QED
    BY <1>1, <2>1, <2>2, <2>3, <2>4, GoKeepsLists
<1>14. CASE Rearm(t)
  <2>1. /\ at[t] \in Handling /\ todo[t] # <<>> /\ UNCHANGED <<healthy, rest>>
        /\ Resume(t, FALSE)
    BY <1>2, <1>14 DEF Rearm, Handling
  <2> QED
    BY <1>1, <2>1, ResumeKeepsLists
<1>15. CASE Restore(t)
  <2>1. at[t] \in Handling /\ at[t] \notin Ordering /\ todo[t] # <<>> /\ UNCHANGED <<healthy, rest>>
    BY <1>2, <1>15 DEF Restore, Handling, Ordering
  <2>2. CASE Resume(t, TRUE)
    BY <1>1, <2>1, <2>2, ResumeKeepsLists
  <2>3. CASE /\ Go(t, "tell_healthy")
             /\ Notice(Host(t))
             /\ UNCHANGED <<kind, round, todo, owed>>
    <3>1. "tell_healthy" \in Locations \ Ordering
        BY DEF Locations, Ordering
    <3>2. owed' \in [Threads -> SUBSET Hosts] /\ moved' \in [Threads -> SUBSET Hosts]
        BY <1>1, <1>3, <1>4, <2>1, <2>3, NoticeTyped
    <3> QED
        BY <1>1, <2>1, <2>3, <3>1, <3>2, GoKeepsLists
  <2> QED
    BY <1>15, <2>2, <2>3 DEF Restore
<1>16. CASE Tell(t)
  <2>1. PICK served \in BOOLEAN : Resume(t, served)
    BY <1>16 DEF Tell
  <2>2. at[t] \in Handling /\ todo[t] # <<>> /\ UNCHANGED <<healthy, rest>>
    BY <1>2, <1>16 DEF Tell, Handling
  <2> QED
    BY <1>1, <2>1, <2>2, ResumeKeepsLists
<1> QED
    BY <1>5, <1>6, <1>7, <1>8, <1>9, <1>10, <1>11, <1>12, <1>13, <1>14, <1>15, <1>16
    DEF Step

LEMMA ElapseKeepsInv ==
    ASSUME RoutingInv, NEW h \in Hosts, Elapse(h)
    PROVE  RoutingInv'
<1>1. /\ breaker' = [breaker EXCEPT ![h] = "elapsed"]
      /\ Notice(h)
      /\ UNCHANGED <<selection, failures, trips, probing, rr, known, told, at,
                     kind, round, todo, healthy, rest, owed>>
    BY DEF Elapse
<1>2. moved' \in [Threads -> SUBSET Hosts]
    BY <1>1, NoticeTyped DEF RoutingInv, ThreadsInv
<1>3. BreakersTyped'
    BY <1>1 DEF RoutingInv, BreakersTyped
<1>4. ThreadsTyped'
    BY <1>1, <1>2 DEF RoutingInv, ThreadsInv, ThreadsTyped
<1>5. Lists'
    BY <1>1 DEF RoutingInv, ThreadsInv, Lists, HostAtHand, ListedOnce
<1> QED
    BY <1>3, <1>4, <1>5 DEF RoutingInv, ThreadsInv

LEMMA RoutingInvStays == RoutingInv /\ [Next]_vars => RoutingInv'
<1> SUFFICES ASSUME RoutingInv, [Next]_vars
             PROVE  RoutingInv'
    OBVIOUS
<1>1. ASSUME NEW t \in Threads, Begin(t) \/ Step(t)
      PROVE  RoutingInv'
    BY <1>1, BreakersStayTyped, ListsStay DEF RoutingInv
<1>2. ASSUME NEW h \in Hosts, Elapse(h)
      PROVE  RoutingInv'
    BY <1>2, ElapseKeepsInv
<1>3. CASE UNCHANGED vars
    BY <1>3 DEF vars, control, breakers, RoutingInv, ThreadsInv, ThreadsTyped, Lists,
                HostAtHand, ListedOnce, BreakersTyped
<1> QED
    BY <1>1, <1>2, <1>3 DEF Next

\* Whatever the threads do in between each other's steps, the breaker's counts
\* stay in their ranges, the rotation begins within the hosts, and a thread that
\* deals with a host has one to deal with.
THEOREM RoutingTypeCorrect == Spec => []TypeOK
<1>1. Init => RoutingInv
    BY InitTyped DEF RoutingInv
<1>2. RoutingInv => TypeOK
    BY TypeParts DEF RoutingInv, ThreadsInv
<1> QED
    BY <1>1, <1>2, RoutingInvStays, PTL DEF Spec

-----------------------------------------------------------------------------
(***************************************************************************)
(* No owner is lost.  The two passes of _ordered_candidates ask the same   *)
(* question of the same owners one after the other, while other threads    *)
(* and the clock change the answers: an owner that is in neither list was  *)
(* refused by the first pass and has been admitted since.  An owner that   *)
(* is in one of them stays among the candidates until it is attempted.     *)
(***************************************************************************)
\* Where the owner h, not attempted and never turned admissible, still is.
OwnerKept(t, h) ==
    /\ at[t] \in {"stats", "first"} => h \in Elements(round[t])
    /\ at[t] = "first" => \/ h \in Elements(todo[t]) \cup Elements(healthy[t])
                          \/ ~Admits(h)
    /\ at[t] = "second" => \/ h \in Elements(healthy[t]) \cup Elements(rest[t])
                           \/ h \in Elements(todo[t]) /\ ~Admits(h)
    /\ at[t] = "order" => h \in Elements(healthy[t]) \cup Elements(rest[t])
    /\ at[t] = "contact" => h \in Elements(todo[t])
    /\ at[t] \in Handling \cup {"clear"} => h \in Elements(Tail(todo[t]))

OwnersKept(t) ==
    kind[t] = "invoke" =>
        /\ at[t] # "ask"
        /\ at[t] = "clear" => todo[t] # <<>>
        /\ \A h \in owed[t] \ moved[t] : OwnerKept(t, h)

\* A host that begins to be admitted is noticed by the threads that are ordering.
Noticed ==
    \A h \in Hosts : ~Admits(h) /\ Admits(h)' =>
        \A u \in Threads : at[u] \in {"first", "second"} /\ h \in owed[u] => h \in moved'[u]

Untouched(u) ==
    /\ at'[u] = at[u] /\ kind'[u] = kind[u] /\ round'[u] = round[u]
    /\ todo'[u] = todo[u] /\ healthy'[u] = healthy[u] /\ rest'[u] = rest[u]
    /\ owed'[u] = owed[u] /\ moved[u] \subseteq moved'[u]

LEMMA NoticeNotices ==
    ASSUME RoutingInv, NEW x \in Hosts, Notice(x),
           \A h \in Hosts : h # x => breaker'[h] = breaker[h] /\ probing'[h] = probing[h]
    PROVE  Noticed
<1> SUFFICES ASSUME NEW h \in Hosts, ~Admits(h), Admits(h)',
                    NEW u \in Threads, at[u] \in {"first", "second"}, h \in owed[u]
             PROVE  h \in moved'[u]
    BY DEF Noticed
<1>1. h = x
    BY DEF Admits
<1> QED
    BY <1>1 DEF Notice

LEMMA NothingToNotice ==
    ASSUME RoutingInv,
           \A h \in Hosts : \/ breaker'[h] = breaker[h] /\ (probing[h] => probing'[h])
                            \/ breaker'[h] = "open"
    PROVE  Noticed
<1>1. ASSUME NEW h \in Hosts, Admits(h)'
      PROVE  Admits(h)
  <2>1. breaker'[h] # "open"
    BY <1>1 DEF Admits
  <2>2. breaker'[h] = breaker[h] /\ (probing[h] => probing'[h])
    BY <2>1
  <2> QED
    BY <1>1, <2>2, Zenon DEF Admits
<1> QED
    BY <1>1 DEF Noticed

LEMMA AskRefusesMore ==
    ASSUME RoutingInv, NEW x \in Hosts, Ask(x), UNCHANGED breaker
    PROVE  /\ Noticed
           /\ \A h \in Hosts : ~Admits(h) => ~Admits(h)'
<1>1. \A h \in Hosts : breaker'[h] = breaker[h] /\ (probing[h] => probing'[h])
    BY DEF Ask, RoutingInv, BreakersTyped
<1>2. ASSUME NEW h \in Hosts, Admits(h)'
      PROVE  Admits(h)
    BY <1>1, <1>2, Zenon DEF Admits
<1> QED
    BY <1>1, <1>2, NothingToNotice

\* Every step is noticed where it must be.
LEMMA StepsNoticed ==
    ASSUME RoutingInv, NEW t \in Threads, Begin(t) \/ Step(t)
    PROVE  Noticed
<1>1. /\ BreakersTyped /\ ThreadsTyped
      /\ at[t] \in Handling => todo[t] # <<>>
      /\ todo[t] # <<>> => Host(t) \in Hosts
    BY AtHand DEF RoutingInv, ThreadsInv, Lists, HostAtHand
<1>2. CASE UNCHANGED <<breaker, probing>>
    BY <1>2, NothingToNotice
<1>3. ASSUME todo[t] # <<>>, Ask(Host(t)), UNCHANGED breaker
      PROVE  Noticed
    BY <1>1, <1>3, AskRefusesMore
<1>4. CASE Begin(t) \/ OrderCandidates(t) \/ Contact(t) \/ GiveUp(t) \/ SwapCatalog(t)
           \/ CheckThreshold(t) \/ Tell(t)
    BY <1>2, <1>4 DEF Begin, OrderCandidates, Contact, GiveUp, SwapCatalog, CheckThreshold, Tell,
                      breakers
<1>5. CASE AskForStats(t)
    BY <1>2, <1>3, <1>5 DEF AskForStats
<1>6. CASE FirstPass(t)
    BY <1>2, <1>3, <1>6 DEF FirstPass
<1>7. CASE SecondPass(t)
    BY <1>2, <1>3, <1>7 DEF SecondPass
<1>8. CASE ReplayFrom(t)
    BY <1>2, <1>3, <1>8 DEF ReplayFrom
<1>9. CASE BumpFailures(t) \/ ClearCounts(t)
  <2>1. /\ todo[t] # <<>> /\ Notice(Host(t)) /\ UNCHANGED breaker
        /\ probing' = [probing EXCEPT ![Host(t)] = FALSE]
    BY <1>1, <1>9 DEF BumpFailures, ClearCounts, Handling
  <2>2. \A h \in Hosts : h # Host(t) => breaker'[h] = breaker[h] /\ probing'[h] = probing[h]
    BY <1>1, <2>1 DEF BreakersTyped
  <2> QED
    BY <1>1, <2>1, <2>2, NoticeNotices
<1>10. CASE Trip(t) \/ Rearm(t)
  <2>1. breaker' = [breaker EXCEPT ![Host(t)] = "open"] /\ UNCHANGED probing
    BY <1>10 DEF Trip, Rearm
  <2>2. \A h \in Hosts : \/ breaker'[h] = breaker[h] /\ (probing[h] => probing'[h])
                         \/ breaker'[h] = "open"
    BY <1>1, <2>1 DEF BreakersTyped
  <2> QED
    BY <2>2, NothingToNotice
<1>11. CASE Restore(t)
  <2>1. /\ todo[t] # <<>> /\ UNCHANGED probing
        /\ breaker' = [breaker EXCEPT ![Host(t)] = "closed"]
    BY <1>1, <1>11 DEF Restore, Handling
  <2>2. CASE breaker[Host(t)] = "closed"
    <3>1. UNCHANGED breaker
        BY <1>1, <2>1, <2>2 DEF BreakersTyped
    <3> QED
        BY <1>2, <2>1, <3>1
  <2>3. CASE breaker[Host(t)] # "closed"
    <3>1. Notice(Host(t))
        BY <1>11, <2>3 DEF Restore
    <3>2. \A h \in Hosts : h # Host(t) => breaker'[h] = breaker[h] /\ probing'[h] = probing[h]
        BY <1>1, <2>1 DEF BreakersTyped
    <3> QED
        BY <1>1, <2>1, <3>1, <3>2, NoticeNotices
  <2> QED
    BY <2>2, <2>3
<1> QED
    BY <1>4, <1>5, <1>6, <1>7, <1>8, <1>9, <1>10, <1>11 DEF Step

LEMMA NoticeGrows ==
    ASSUME ThreadsTyped, NEW x, Notice(x)
    PROVE  \A u \in Threads : /\ moved[u] \subseteq moved'[u]
                              /\ at[u] \notin {"first", "second"} => moved'[u] = moved[u]
BY DEF Notice

\* The steps of a thread leave the others what they were.
LEMMA OthersUntouched ==
    ASSUME RoutingInv, NEW t \in Threads, Begin(t) \/ Step(t), NEW u \in Threads, u # t
    PROVE  Untouched(u)
<1>1. ThreadsTyped
    BY DEF RoutingInv, ThreadsInv
<1>2. ASSUME Return(t), UNCHANGED <<healthy, rest>>
      PROVE  Untouched(u)
    BY <1>1, <1>2 DEF Return, Go, Untouched, ThreadsTyped
<1>3. ASSUME NEW served, Resume(t, served), UNCHANGED <<healthy, rest>>
      PROVE  Untouched(u)
  <2>1. CASE Return(t)
    BY <1>2, <1>3, <2>1
  <2>2. CASE ~Return(t)
    BY <1>1, <1>3, <2>2 DEF Resume, Go, Untouched, ThreadsTyped
  <2> QED
    BY <2>1, <2>2
<1>4. CASE Begin(t)
  <2>1. PICK work, c, l :
           /\ Go(t, l)
           /\ kind' = [kind EXCEPT ![t] = work]
           /\ round' = [round EXCEPT ![t] = c]
           /\ todo' = [todo EXCEPT ![t] = c]
           /\ owed' = [owed EXCEPT ![t] = IF work = "invoke" THEN known ELSE {}]
           /\ UNCHANGED <<healthy, rest, moved>>
    BY <1>4, BeginDetails DEF RoutingInv
  <2> QED
    BY <1>1, <2>1 DEF Go, Untouched, ThreadsTyped
<1>5. CASE AskForStats(t) \/ FirstPass(t) \/ SecondPass(t)
  <2>1. PassDetails(t) /\ UNCHANGED <<kind, owed, moved>>
    BY <1>5, Passes
  <2>2. at'[u] = at[u] /\ round'[u] = round[u]
    BY <1>1, <2>1 DEF PassDetails, Go, ThreadsTyped
  <2>3. todo'[u] = todo[u]
    BY <1>1, <2>1 DEF PassDetails, ThreadsTyped
  <2>4. healthy'[u] = healthy[u] /\ rest'[u] = rest[u]
    BY <1>1, <2>1 DEF PassDetails, ThreadsTyped
  <2> QED
    BY <2>1, <2>2, <2>3, <2>4 DEF Untouched
<1>6. CASE OrderCandidates(t)
  <2>1. PICK c : todo' = [todo EXCEPT ![t] = c]
    BY <1>6, OrderedCandidates DEF RoutingInv
  <2> QED
    BY <1>1, <1>6, <2>1 DEF OrderCandidates, Go, Untouched, ThreadsTyped
<1>7. CASE Contact(t)
    BY <1>1, <1>7 DEF Contact, Go, Untouched, ThreadsTyped
<1>8. CASE GiveUp(t) \/ SwapCatalog(t)
    BY <1>2, <1>8 DEF GiveUp, SwapCatalog
<1>9. CASE ReplayFrom(t)
  <2>1. CASE Return(t)
    BY <1>2, <1>9, <2>1 DEF ReplayFrom
  <2>2. CASE ~Return(t)
    BY <1>1, <1>9, <2>2 DEF ReplayFrom, Go, Untouched, ThreadsTyped
  <2> QED
    BY <2>1, <2>2
<1>10. CASE BumpFailures(t) \/ ClearCounts(t)
  <2>1. PICK l : Go(t, l)
    BY <1>10 DEF BumpFailures, ClearCounts
  <2>2. Notice(Host(t)) /\ UNCHANGED <<kind, round, todo, healthy, rest, owed>>
    BY <1>10 DEF BumpFailures, ClearCounts
  <2> QED
    BY <1>1, <2>1, <2>2, NoticeGrows DEF Go, Untouched, ThreadsTyped
<1>11. CASE CheckThreshold(t)
  <2>1. CASE Return(t)
    BY <1>2, <1>11, <2>1 DEF CheckThreshold
  <2>2. CASE Resume(t, FALSE)
    BY <1>3, <1>11, <2>2 DEF CheckThreshold
  <2>3. CASE ~Return(t) /\ ~Resume(t, FALSE)
    BY <1>1, <1>11, <2>3 DEF CheckThreshold, Go, Untouched, ThreadsTyped
  <2> QED
    BY <2>1, <2>2, <2>3
<1>12. CASE Trip(t)
    BY <1>1, <1>12 DEF Trip, Go, Untouched, ThreadsTyped
<1>13. CASE Rearm(t)
    BY <1>3, <1>13 DEF Rearm
<1>14. CASE Restore(t)
  <2>1. CASE Resume(t, TRUE)
    BY <1>3, <1>14, <2>1 DEF Restore
  <2>2. CASE ~Resume(t, TRUE)
    <3>1. Go(t, "tell_healthy") /\ Notice(Host(t)) /\ UNCHANGED <<kind, round, todo, owed, healthy, rest>>
        BY <1>14, <2>2 DEF Restore
    <3> QED
        BY <1>1, <3>1, NoticeGrows DEF Go, Untouched, ThreadsTyped
  <2> QED
    BY <2>1, <2>2
<1>15. CASE Tell(t)
    BY <1>3, <1>15 DEF Tell
<1> QED
    BY <1>4, <1>5, <1>6, <1>7, <1>8, <1>9, <1>10, <1>11, <1>12, <1>13, <1>14, <1>15 DEF Step

\* What others do takes no owner away from a thread.
LEMMA OthersKept ==
    ASSUME RoutingInv, NEW u \in Threads, Untouched(u), Noticed, OwnersKept(u)
    PROVE  OwnersKept(u)'
<1> SUFFICES ASSUME kind[u] = "invoke"
             PROVE  /\ at[u] # "ask"
                    /\ at[u] = "clear" => todo[u] # <<>>
                    /\ \A h \in owed[u] \ moved'[u] : OwnerKept(u, h)'
    BY DEF OwnersKept, Untouched
<1>1. ASSUME NEW h \in owed[u] \ moved'[u]
      PROVE  OwnerKept(u, h)'
  <2>1. h \in Hosts /\ h \in owed[u] \ moved[u]
    BY DEF Untouched, RoutingInv, ThreadsInv, ThreadsTyped
  <2>2. OwnerKept(u, h)
    BY <2>1 DEF OwnersKept
  <2>3. at[u] \in {"first", "second"} => (~Admits(h) => ~Admits(h)')
    BY <2>1 DEF Noticed
  <2> QED
    BY <2>2, <2>3 DEF OwnerKept, Untouched
<1> QED
    BY <1>1 DEF OwnersKept

LEMMA NoElements == Elements(<<>>) = {}
BY DEF Elements

\* A round that is over owes nothing, and one that is no invocation never does.
LEMMA NotInvoking ==
    ASSUME RoutingInv, NEW t \in Threads, Return(t)
    PROVE  OwnersKept(t)'
<1>1. kind'[t] = "none"
    BY DEF Return, RoutingInv, ThreadsInv, ThreadsTyped
<1> QED
    BY <1>1 DEF OwnersKept

LEMMA ResumeKeepsOwners ==
    ASSUME RoutingInv, NEW t \in Threads, NEW served, Resume(t, served), OwnersKept(t),
           at[t] \in Handling \cup {"clear"}
    PROVE  OwnersKept(t)'
<1>1. CASE Return(t)
    BY <1>1, NotInvoking
<1>2. CASE ~Return(t) /\ kind[t] # "invoke"
  <2>1. kind'[t] # "invoke"
    BY <1>2 DEF Resume
  <2> QED
    BY <2>1 DEF OwnersKept
<1>3. CASE ~Return(t) /\ kind[t] = "invoke"
  <2>1. Go(t, "contact") /\ todo' = [todo EXCEPT ![t] = Tail(@)] /\ UNCHANGED <<kind, round, owed, moved>>
    BY <1>3 DEF Resume
  <2>2. at'[t] = "contact" /\ todo'[t] = Tail(todo[t])
    BY <2>1 DEF Go, RoutingInv, ThreadsInv, ThreadsTyped
  <2>3. ASSUME NEW h \in owed'[t] \ moved'[t]
        PROVE  OwnerKept(t, h)'
    <3>1. OwnerKept(t, h)
        BY <1>3, <2>1 DEF OwnersKept
    <3>2. h \in Elements(todo'[t])
        BY <2>2, <3>1 DEF OwnerKept
    <3> QED
        BY <2>2, <3>2 DEF OwnerKept, Handling
  <2> QED
    BY <2>2, <2>3 DEF OwnersKept
<1> QED
    BY <1>1, <1>2, <1>3

\* A thread that goes on dealing with the host at hand.
LEMMA DealingKeepsOwners ==
    ASSUME RoutingInv, NEW t \in Threads, OwnersKept(t),
           at[t] \in Handling \cup {"clear"}, NEW l \in Handling, Go(t, l),
           UNCHANGED <<kind, todo, owed>>, moved[t] \subseteq moved'[t]
    PROVE  OwnersKept(t)'
<1>1. at'[t] = l
    BY DEF Go, RoutingInv, ThreadsInv, ThreadsTyped
<1>2. ASSUME kind[t] = "invoke", NEW h \in owed[t] \ moved'[t]
      PROVE  OwnerKept(t, h)'
  <2>1. OwnerKept(t, h)
    BY <1>2 DEF OwnersKept
  <2>2. h \in Elements(Tail(todo[t]))
    BY <2>1 DEF OwnerKept
  <2> QED
    BY <1>1, <2>2 DEF OwnerKept, Handling
<1> QED
    BY <1>1, <1>2 DEF OwnersKept, Handling

LEMMA BeginKeepsOwners ==
    ASSUME RoutingInv, NEW t \in Threads, Begin(t)
    PROVE  OwnersKept(t)'
<1>1. PICK work \in {"invoke", "replay", "probe", "refresh"}, c \in Seq(Hosts),
           l \in {"stats", "first", "clear", "ask", "contact"} :
           /\ l \in {"stats", "first"} <=> work = "invoke"
           /\ work = "invoke" => Elements(c) = known
           /\ Go(t, l)
           /\ kind' = [kind EXCEPT ![t] = work]
           /\ round' = [round EXCEPT ![t] = c]
           /\ todo' = [todo EXCEPT ![t] = c]
           /\ owed' = [owed EXCEPT ![t] = IF work = "invoke" THEN known ELSE {}]
    BY BeginDetails DEF RoutingInv
<1>2. /\ at'[t] = l /\ kind'[t] = work /\ round'[t] = c /\ todo'[t] = c
      /\ owed'[t] = IF work = "invoke" THEN known ELSE {}
    BY <1>1 DEF Go, RoutingInv, ThreadsInv, ThreadsTyped
<1>3. CASE work = "invoke"
  <2>1. l \in {"stats", "first"} /\ owed'[t] = Elements(c)
    BY <1>1, <1>2, <1>3
  <2>2. ASSUME NEW h \in owed'[t] \ moved'[t]
        PROVE  OwnerKept(t, h)'
    BY <1>2, <2>1 DEF OwnerKept, Handling
  <2> QED
    BY <1>2, <2>1, <2>2 DEF OwnersKept
<1>4. CASE work # "invoke"
    BY <1>2, <1>4 DEF OwnersKept
<1> QED
    BY <1>3, <1>4

\* The first pass: the owners it refuses are kept for the second.
LEMMA FirstPassKeepsOwners ==
    ASSUME RoutingInv, NEW t \in Threads, FirstPass(t), OwnersKept(t)
    PROVE  OwnersKept(t)'
<1>1. ThreadsTyped /\ at[t] = "first" /\ UNCHANGED <<breaker, kind, round, rest, owed, moved>>
    BY DEF RoutingInv, ThreadsInv, FirstPass
<1>2. CASE todo[t] # <<>>
  <2>1. /\ Ask(Host(t))
        /\ healthy' = IF Admits(Host(t)) THEN [healthy EXCEPT ![t] = Append(@, Host(t))]
                      ELSE healthy
        /\ todo' = [todo EXCEPT ![t] = Tail(@)]
        /\ UNCHANGED at
    BY <1>2 DEF FirstPass
  <2>2. PICK d \in Seq(Hosts), g \in Seq(Hosts), x \in Hosts :
            /\ d = Tail(todo[t]) /\ g = healthy[t] /\ x = Host(t)
            /\ Elements(todo[t]) = {x} \cup Elements(d)
    BY <1>1, <1>2, AtHand DEF ThreadsTyped
  <2>3. Elements(Append(g, x)) = Elements(g) \cup {x}
    BY AppendElements
  <2>4. todo'[t] = d /\ healthy'[t] = IF Admits(x) THEN Append(g, x) ELSE g
    BY <1>1, <2>1, <2>2 DEF ThreadsTyped
  <2>5. \A h \in Hosts : ~Admits(h) => ~Admits(h)'
    BY <1>1, <2>1, <2>2, AskRefusesMore
  <2>6. ASSUME kind[t] = "invoke", NEW h \in owed[t] \ moved[t]
        PROVE  OwnerKept(t, h)'
    <3>1. OwnerKept(t, h) /\ h \in Hosts
        BY <1>1, <2>6 DEF OwnersKept, ThreadsTyped
    <3>2. h \in Elements(round[t])
        BY <1>1, <3>1 DEF OwnerKept
    <3>3. h \in Elements(d) \cup {x} \cup Elements(g) \/ ~Admits(h)
        BY <1>1, <2>2, <3>1 DEF OwnerKept
    <3>4. h \in Elements(todo'[t]) \cup Elements(healthy'[t]) \/ ~Admits(h)
      <4>1. CASE Admits(x)
        BY <2>3, <2>4, <3>3, <4>1
      <4>2. CASE ~Admits(x)
        BY <2>4, <3>3, <4>2
      <4> QED
        BY <4>1, <4>2
    <3>5. h \in Elements(todo'[t]) \cup Elements(healthy'[t]) \/ ~Admits(h)'
        BY <2>5, <3>1, <3>4
    <3> QED
        BY <1>1, <2>1, <3>2, <3>5 DEF OwnerKept, Handling
  <2> QED
    BY <1>1, <2>1, <2>6 DEF OwnersKept
<1>3. CASE todo[t] = <<>>
  <2>1. /\ Go(t, "second") /\ todo' = [todo EXCEPT ![t] = round[t]]
        /\ UNCHANGED <<probing, healthy>>
    BY <1>3 DEF FirstPass
  <2>2. at'[t] = "second" /\ todo'[t] = round[t]
    BY <1>1, <2>1 DEF Go, ThreadsTyped
  <2>3. ASSUME kind[t] = "invoke", NEW h \in owed[t] \ moved[t]
        PROVE  OwnerKept(t, h)'
    <3>1. OwnerKept(t, h)
        BY <2>3 DEF OwnersKept
    <3>2. h \in Elements(round[t]) /\ (h \in Elements(healthy[t]) \/ ~Admits(h))
        BY <1>1, <1>3, <3>1, NoElements DEF OwnerKept
    <3>3. Admits(h)' <=> Admits(h)
        BY <1>1, <2>1 DEF Admits
    <3> QED
        BY <1>1, <2>1, <2>2, <3>2, <3>3 DEF OwnerKept, Handling
  <2> QED
    BY <1>1, <2>2, <2>3 DEF OwnersKept
<1> QED
    BY <1>2, <1>3

\* The second pass: those it refuses too are tried last.
LEMMA SecondPassKeepsOwners ==
    ASSUME RoutingInv, NEW t \in Threads, SecondPass(t), OwnersKept(t)
    PROVE  OwnersKept(t)'
<1>1. ThreadsTyped /\ at[t] = "second" /\ UNCHANGED <<breaker, kind, round, healthy, owed, moved>>
    BY DEF RoutingInv, ThreadsInv, SecondPass
<1>2. CASE todo[t] # <<>>
  <2>1. /\ Ask(Host(t))
        /\ rest' = IF Admits(Host(t)) THEN rest ELSE [rest EXCEPT ![t] = Append(@, Host(t))]
        /\ todo' = [todo EXCEPT ![t] = Tail(@)]
        /\ UNCHANGED at
    BY <1>2 DEF SecondPass
  <2>2. PICK d \in Seq(Hosts), b \in Seq(Hosts), x \in Hosts :
            /\ d = Tail(todo[t]) /\ b = rest[t] /\ x = Host(t)
            /\ Elements(todo[t]) = {x} \cup Elements(d)
    BY <1>1, <1>2, AtHand DEF ThreadsTyped
  <2>3. Elements(Append(b, x)) = Elements(b) \cup {x}
    BY AppendElements
  <2>4. todo'[t] = d /\ rest'[t] = IF Admits(x) THEN b ELSE Append(b, x)
    BY <1>1, <2>1, <2>2 DEF ThreadsTyped
  <2>5. \A h \in Hosts : ~Admits(h) => ~Admits(h)'
    BY <1>1, <2>1, <2>2, AskRefusesMore
  <2>6. ASSUME kind[t] = "invoke", NEW h \in owed[t] \ moved[t]
        PROVE  OwnerKept(t, h)'
    <3>1. OwnerKept(t, h) /\ h \in Hosts
        BY <1>1, <2>6 DEF OwnersKept, ThreadsTyped
    <3>2. \/ h \in Elements(healthy[t]) \cup Elements(b)
          \/ h \in {x} \cup Elements(d) /\ ~Admits(h)
        BY <1>1, <2>2, <3>1 DEF OwnerKept
    <3>3. CASE Admits(x)
      <4>1. \/ h \in Elements(healthy[t]) \cup Elements(rest'[t])
            \/ h \in Elements(todo'[t]) /\ ~Admits(h)
        BY <2>4, <3>2, <3>3
      <4> QED
        BY <1>1, <2>1, <2>5, <3>1, <4>1 DEF OwnerKept, Handling
    <3>4. CASE ~Admits(x)
      <4>1. \/ h \in Elements(healthy[t]) \cup Elements(rest'[t])
            \/ h \in Elements(todo'[t]) /\ ~Admits(h)
        BY <2>3, <2>4, <3>2, <3>4
      <4> QED
        BY <1>1, <2>1, <2>5, <3>1, <4>1 DEF OwnerKept, Handling
    <3> QED
        BY <3>3, <3>4
  <2> QED
    BY <1>1, <2>1, <2>6 DEF OwnersKept
<1>3. CASE todo[t] = <<>>
  <2>1. Go(t, "order") /\ UNCHANGED rest
    BY <1>3 DEF SecondPass
  <2>2. at'[t] = "order"
    BY <1>1, <2>1 DEF Go, ThreadsTyped
  <2>3. ASSUME kind[t] = "invoke", NEW h \in owed[t] \ moved[t]
        PROVE  OwnerKept(t, h)'
    <3>1. OwnerKept(t, h)
        BY <2>3 DEF OwnersKept
    <3>2. h \in Elements(healthy[t]) \cup Elements(rest[t])
        BY <1>1, <1>3, <3>1, NoElements DEF OwnerKept
    <3> QED
        BY <1>1, <2>1, <2>2, <3>2 DEF OwnerKept, Handling
  <2> QED
    BY <1>1, <2>2, <2>3 DEF OwnersKept
<1> QED
    BY <1>2, <1>3

\* The order has the owners of both passes; an attempt is one owner less.
LEMMA OrderKeepsOwners ==
    ASSUME RoutingInv, NEW t \in Threads, OrderCandidates(t), OwnersKept(t)
    PROVE  OwnersKept(t)'
<1>1. PICK c \in Seq(Hosts) :
           /\ todo' = [todo EXCEPT ![t] = c]
           /\ Elements(c) = Elements(healthy[t]) \cup Elements(rest[t])
    BY OrderedCandidates DEF RoutingInv
<1>2. at[t] = "order" /\ Go(t, "contact") /\ UNCHANGED <<kind, owed, moved>>
    BY DEF OrderCandidates
<1>3. at'[t] = "contact" /\ todo'[t] = c
    BY <1>1, <1>2 DEF Go, RoutingInv, ThreadsInv, ThreadsTyped
<1>4. ASSUME kind[t] = "invoke", NEW h \in owed[t] \ moved[t]
      PROVE  OwnerKept(t, h)'
  <2>1. OwnerKept(t, h)
    BY <1>4 DEF OwnersKept
  <2>2. h \in Elements(c)
    BY <1>1, <1>2, <2>1 DEF OwnerKept
  <2> QED
    BY <1>3, <2>2 DEF OwnerKept, Handling
<1> QED
    BY <1>2, <1>3, <1>4 DEF OwnersKept

LEMMA ContactKeepsOwners ==
    ASSUME RoutingInv, NEW t \in Threads, Contact(t), OwnersKept(t)
    PROVE  OwnersKept(t)'
<1>1. PICK l \in {"clear", "bump"} : Go(t, l)
    BY DEF Contact
<1>2. /\ at[t] = "contact" /\ todo[t] # <<>>
      /\ owed' = [owed EXCEPT ![t] = @ \ {Host(t)}]
      /\ UNCHANGED <<kind, todo, moved>>
    BY DEF Contact
<1>3. at'[t] = l /\ owed'[t] = owed[t] \ {Host(t)}
    BY <1>1, <1>2 DEF Go, RoutingInv, ThreadsInv, ThreadsTyped
<1>4. Elements(todo[t]) = {Host(t)} \cup Elements(Tail(todo[t]))
    BY <1>2, AtHand DEF RoutingInv, ThreadsInv
<1>5. ASSUME kind[t] = "invoke", NEW h \in owed'[t] \ moved'[t]
      PROVE  OwnerKept(t, h)'
  <2>1. OwnerKept(t, h) /\ h # Host(t)
    BY <1>2, <1>3, <1>5 DEF OwnersKept
  <2>2. h \in Elements(Tail(todo[t]))
    BY <1>2, <1>4, <2>1 DEF OwnerKept
  <2> QED
    BY <1>2, <1>3, <2>2 DEF OwnerKept
<1> QED
    BY <1>2, <1>3, <1>5 DEF OwnersKept

\* A thread's own steps lose none of its owners.
LEMMA OwnStepKeepsOwners ==
    ASSUME RoutingInv, NEW t \in Threads, Begin(t) \/ Step(t), OwnersKept(t)
    PROVE  OwnersKept(t)'
<1>1. ThreadsTyped
    BY DEF RoutingInv, ThreadsInv
<1>2. CASE Begin(t)
    BY <1>2, BeginKeepsOwners
<1>3. CASE AskForStats(t)
  <2>1. /\ at[t] = "stats"
        /\ UNCHANGED <<kind, round, owed, moved>>
        /\ UNCHANGED at \/ (Go(t, "first") /\ todo' = [todo EXCEPT ![t] = round[t]])
    BY <1>3 DEF AskForStats
  <2>2. \/ at'[t] = "stats"
        \/ at'[t] = "first" /\ todo'[t] = round[t]
    BY <1>1, <2>1 DEF Go, ThreadsTyped
  <2>3. ASSUME kind[t] = "invoke", NEW h \in owed[t] \ moved[t]
        PROVE  OwnerKept(t, h)'
    <3>1. OwnerKept(t, h)
        BY <2>3 DEF OwnersKept
    <3>2. h \in Elements(round[t])
        BY <2>1, <3>1 DEF OwnerKept
    <3> QED
        BY <2>1, <2>2, <3>2 DEF OwnerKept, Handling
  <2> QED
    BY <2>1, <2>2, <2>3 DEF OwnersKept
<1>4. CASE FirstPass(t)
    BY <1>4, FirstPassKeepsOwners
<1>5. CASE SecondPass(t)
    BY <1>5, SecondPassKeepsOwners
<1>6. CASE OrderCandidates(t)
    BY <1>6, OrderKeepsOwners
<1>7. CASE Contact(t)
    BY <1>7, ContactKeepsOwners
<1>8. CASE GiveUp(t) \/ SwapCatalog(t)
    BY <1>8, NotInvoking DEF GiveUp, SwapCatalog
<1>9. CASE ReplayFrom(t)
  <2>1. CASE Return(t)
    BY <2>1, NotInvoking
  <2>2. CASE ~Return(t)
    <3>1. at[t] = "ask" /\ UNCHANGED kind
        BY <1>9, <2>2 DEF ReplayFrom
    <3>2. kind[t] # "invoke"
        BY <3>1 DEF OwnersKept
    <3> QED
        BY <3>1, <3>2 DEF OwnersKept
  <2> QED
    BY <2>1, <2>2
<1>10. CASE BumpFailures(t) \/ ClearCounts(t)
  <2>1. PICK l \in Handling : Go(t, l)
    BY <1>10 DEF BumpFailures, ClearCounts, Handling
  <2>2. /\ at[t] \in Handling \cup {"clear"} /\ Notice(Host(t))
        /\ UNCHANGED <<kind, todo, owed>>
    BY <1>10 DEF BumpFailures, ClearCounts, Handling
  <2>3. moved[t] \subseteq moved'[t]
    BY <1>1, <2>2, NoticeGrows
  <2> QED
    BY <2>1, <2>2, <2>3, DealingKeepsOwners
<1>11. CASE CheckThreshold(t)
  <2>1. at[t] \in Handling
    BY <1>11 DEF CheckThreshold, Handling
  <2>2. CASE Return(t)
    BY <2>2, NotInvoking
  <2>3. CASE Resume(t, FALSE)
    BY <2>1, <2>3, ResumeKeepsOwners
  <2>4. CASE ~Return(t) /\ ~Resume(t, FALSE)
    <3>1. UNCHANGED <<kind, todo, owed, moved>>
        BY <1>11, <2>4 DEF CheckThreshold
    <3>2. PICK l \in Handling : Go(t, l)
        BY <1>11, <2>4 DEF CheckThreshold, Handling
    <3> QED
        BY <2>1, <3>1, <3>2, DealingKeepsOwners
  <2> QED
    BY <2>2, <2>3, <2>4
<1>12. CASE Trip(t)
  <2>1. /\ at[t] \in Handling /\ "tell_unhealthy" \in Handling /\ Go(t, "tell_unhealthy")
        /\ UNCHANGED <<kind, todo, owed, moved>>
    BY <1>12 DEF Trip, Handling
  <2> QED
    BY <2>1, DealingKeepsOwners
<1>13. CASE Rearm(t)
    BY <1>13, ResumeKeepsOwners DEF Rearm, Handling
<1>14. CASE Restore(t)
  <2>1. at[t] \in Handling /\ "tell_healthy" \in Handling
    BY <1>14 DEF Restore, Handling
  <2>2. CASE Resume(t, TRUE)
    BY <2>1, <2>2, ResumeKeepsOwners
  <2>3. CASE ~Resume(t, TRUE)
    <3>1. Go(t, "tell_healthy") /\ Notice(Host(t)) /\ UNCHANGED <<kind, todo, owed>>
        BY <1>14, <2>3 DEF Restore
    <3>2. moved[t] \subseteq moved'[t]
        BY <1>1, <3>1, NoticeGrows
    <3> QED
        BY <2>1, <3>1, <3>2, DealingKeepsOwners
  <2> QED
    BY <2>2, <2>3
<1>15. CASE Tell(t)
    BY <1>15, ResumeKeepsOwners DEF Tell, Handling
<1> QED
    BY <1>2, <1>3, <1>4, <1>5, <1>6, <1>7, <1>8, <1>9, <1>10, <1>11, <1>12, <1>13, <1>14,
       <1>15 DEF Step

OwnersInv == RoutingInv /\ \A t \in Threads : OwnersKept(t)

LEMMA OwnersInvStays == OwnersInv /\ [Next]_vars => OwnersInv'
<1> SUFFICES ASSUME OwnersInv, [Next]_vars
             PROVE  OwnersInv'
    OBVIOUS
<1>1. RoutingInv /\ RoutingInv'
    BY RoutingInvStays DEF OwnersInv
<1>2. ASSUME NEW t \in Threads, Begin(t) \/ Step(t), NEW u \in Threads
      PROVE  OwnersKept(u)'
  <2>1. OwnersKept(u)
    BY DEF OwnersInv
  <2>2. CASE u = t
    BY <1>1, <1>2, <2>1, <2>2, OwnStepKeepsOwners
  <2>3. CASE u # t
    BY <1>1, <1>2, <2>1, <2>3, StepsNoticed, OthersUntouched, OthersKept
  <2> QED
    BY <2>2, <2>3
<1>3. ASSUME NEW x \in Hosts, Elapse(x), NEW u \in Threads
      PROVE  OwnersKept(u)'
  <2>1. /\ Notice(x) /\ breaker' = [breaker EXCEPT ![x] = "elapsed"]
        /\ UNCHANGED <<probing, at, kind, round, todo, healthy, rest, owed>>
    BY <1>3 DEF Elapse
  <2>2. \A h \in Hosts : h # x => breaker'[h] = breaker[h] /\ probing'[h] = probing[h]
    BY <1>1, <2>1 DEF RoutingInv, BreakersTyped
  <2>3. Noticed
    BY <1>1, <2>1, <2>2, NoticeNotices
  <2>4. Untouched(u)
    BY <1>1, <2>1, NoticeGrows DEF Untouched, RoutingInv, ThreadsInv
  <2> QED
    BY <1>1, <2>3, <2>4, OthersKept DEF OwnersInv
<1>4. CASE UNCHANGED vars
  <2>1. ASSUME NEW u \in Threads
        PROVE  OwnersKept(u)'
    <3>1. OwnersKept(u)
        BY DEF OwnersInv
    <3> QED
        BY <1>4, <3>1 DEF OwnersKept, OwnerKept, Admits, vars, control, breakers
  <2> QED
    BY <1>1, <2>1 DEF OwnersInv
<1> QED
    BY <1>1, <1>2, <1>3, <1>4 DEF OwnersInv, Next

\* An invocation is denied host_unreachable only after it has attempted every
\* owner, whatever their breakers say, save those that other threads or the clock
\* made admissible while it was ordering: _ordered_candidates keeps the owners
\* that are refused as a last resort.
THEOREM OwnersAllTried == Spec => []NeverGivenUp
<1>1. Init => OwnersInv
  <2> SUFFICES ASSUME Init
               PROVE  OwnersInv
    OBVIOUS
  <2>1. \A t \in Threads : kind[t] = "none"
    BY DEF Init
  <2> QED
    BY <2>1, InitTyped DEF OwnersInv, RoutingInv, OwnersKept
<1>2. OwnersInv => NeverGivenUp
  <2> SUFFICES ASSUME OwnersInv, NEW t \in Threads, Denying(t), NEW h \in owed[t]
               PROVE  h \in moved[t]
    BY DEF NeverGivenUp
  <2>1. kind[t] = "invoke" /\ at[t] = "contact" /\ todo[t] = <<>>
    BY DEF Denying
  <2>2. h \notin moved[t] => OwnerKept(t, h)
    BY <2>1 DEF OwnersInv, OwnersKept
  <2> QED
    BY <2>1, <2>2, NoElements DEF OwnerKept
<1> QED
    BY <1>1, <1>2, OwnersInvStays, PTL DEF Spec

=============================================================================
