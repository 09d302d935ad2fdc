------------------------- MODULE Detection_proofs --------------------------
(***************************************************************************)
(* Proofs about detection: a call is fail-closed, in whatever order the    *)
(* backends answer or fail; it is one step of the abstract detector, and   *)
(* no lone span is missing from its answer; mergeDetections returns        *)
(* disjoint spans of its input, and gives up none but for another; and the *)
(* HTTP client of a backend sends nothing without its protection.          *)
(***************************************************************************)
EXTENDS Detection, MergeLoop, RemoteClient, WellFoundedInduction, FiniteSetTheorems, TLAPS

\* A set of numbers that has 0, and n + 1 with every n in it, has them all: the least
\* number outside it cannot be.
LEMMA SetInduction ==
    ASSUME NEW S, 0 \in S, \A n \in Nat : n \in S => n + 1 \in S
    PROVE  Nat \subseteq S
<1> SUFFICES ASSUME Nat \ S # {} PROVE FALSE
  OBVIOUS
<1>1. IsWellFoundedOn(OpToRel(<, Nat), Nat)
  BY NatLessThanWellFounded
<1>2. PICK x \in Nat \ S : \A y \in Nat \ S : ~(<<y, x>> \in OpToRel(<, Nat))
  <2> DEFINE T == Nat \ S
             R == OpToRel(<, Nat)
  <2>1. T \subseteq Nat /\ T # {} /\ IsWellFoundedOn(R, Nat)
    BY <1>1
  <2> HIDE DEF T, R
  <2>2. \E x \in T : \A y \in T : ~(<<y, x>> \in R)
    BY <2>1, WFMin
  <2> QED BY <2>2 DEF T, R
<1>3. x # 0 /\ x - 1 \in Nat /\ (x - 1) + 1 = x /\ x - 1 < x
  OBVIOUS
<1>4. x - 1 \notin S
  BY <1>3
<1>5. <<x - 1, x>> \in OpToRel(<, Nat)
  BY <1>3 DEF OpToRel
<1> QED BY <1>2, <1>3, <1>4, <1>5

-----------------------------------------------------------------------------
(* Sequences put in order                                                   *)

\* What a list holds, in whatever order.
Members(s) == {s[i] : i \in DOMAIN s}

\* A strict total order of K.
IsOrder(K, order) ==
    /\ \A i \in K : <<i, i>> \notin order
    /\ \A i, j \in K : i = j \/ <<i, j>> \in order \/ <<j, i>> \in order
    /\ \A i, j, k \in K : <<i, j>> \in order /\ <<j, k>> \in order => <<i, k>> \in order

\* The ranks of a finite set in an order are the first numbers.
LEMMA Ranks ==
    ASSUME NEW K, IsFiniteSet(K), NEW order, IsOrder(K, order)
    PROVE  \E r \in [K -> Nat] :
               /\ r = [i \in K |-> Cardinality({j \in K : <<j, i>> \in order})]
               /\ \A i, j \in K : <<i, j>> \in order => r[i] < r[j]
               /\ \A i \in K : r[i] < Cardinality(K)
               /\ \A n \in 1 .. Cardinality(K) : \E i \in K : r[i] = n - 1
<1> DEFINE pred(i) == {j \in K : <<j, i>> \in order}
           c == Cardinality(K)
           r == [i \in K |-> Cardinality(pred(i))]
<1>0. \A i, j \in K : i = j \/ <<i, j>> \in order \/ <<j, i>> \in order
  BY DEF IsOrder
<1>1. c \in Nat
  BY FS_CardinalityType
<1>2. \A i \in K : IsFiniteSet(pred(i)) /\ Cardinality(pred(i)) \in Nat /\ Cardinality(pred(i)) <= c
                   /\ Cardinality(pred(i)) # c
  <2> SUFFICES ASSUME NEW i \in K
               PROVE  IsFiniteSet(pred(i)) /\ Cardinality(pred(i)) \in Nat /\ Cardinality(pred(i)) <= c
                      /\ Cardinality(pred(i)) # c
    OBVIOUS
  <2>1. pred(i) \in SUBSET K /\ i \notin pred(i)
    BY DEF IsOrder
  <2> HIDE DEF pred
  <2>2. IsFiniteSet(pred(i)) /\ Cardinality(pred(i)) <= c /\ (c = Cardinality(pred(i)) => K = pred(i))
    BY <2>1, FS_Subset
  <2> QED BY <2>1, <2>2, FS_CardinalityType
<1>3. \A i, j \in K : <<i, j>> \in order => Cardinality(pred(i)) < Cardinality(pred(j))
  <2> SUFFICES ASSUME NEW i \in K, NEW j \in K, <<i, j>> \in order
               PROVE  Cardinality(pred(i)) < Cardinality(pred(j))
    OBVIOUS
  <2>1. pred(i) \in SUBSET pred(j) /\ i \in pred(j) /\ i \notin pred(i)
    BY DEF IsOrder
  <2>2. IsFiniteSet(pred(j)) /\ Cardinality(pred(j)) \in Nat /\ Cardinality(pred(i)) \in Nat
    BY <1>2
  <2> HIDE DEF pred
  <2>3. Cardinality(pred(i)) <= Cardinality(pred(j)) /\ (Cardinality(pred(j)) = Cardinality(pred(i)) => pred(j) = pred(i))
    BY <2>1, <2>2, FS_Subset
  <2> QED BY <2>1, <2>2, <2>3
<1>4. r \in [K -> Nat] /\ \A i \in K : r[i] = Cardinality(pred(i))
  BY <1>2
<1>5. \A i, j \in K : <<i, j>> \in order => r[i] < r[j]
  BY <1>3, <1>4
<1>6. \A i \in K : r[i] < c /\ r[i] \in Nat
  <2> HIDE DEF pred, c
  <2> QED BY <1>1, <1>2, <1>4
<1>7. \A i, j \in K : r[i] = r[j] => i = j
  <2> HIDE DEF r
  <2> SUFFICES ASSUME NEW i \in K, NEW j \in K, r[i] = r[j], i # j PROVE FALSE
    OBVIOUS
  <2>1. <<i, j>> \in order \/ <<j, i>> \in order
    BY <1>0
  <2>2. r[i] < r[j] \/ r[j] < r[i]
    BY <2>1, <1>5
  <2> QED BY <2>2, <1>6
<1>8. \A n \in 1 .. c : \E i \in K : r[i] = n - 1
  <2> DEFINE T == 0 .. c - 1
  <2> HIDE DEF r, c, pred
  <2>1. r \in [K -> T]
    BY <1>1, <1>4, <1>6
  <2>2. IsFiniteSet(T) /\ Cardinality(T) = c
    <3>1. 0 \in Int /\ c - 1 \in Int
      BY <1>1
    <3>2. IsFiniteSet(0 .. c - 1) /\ Cardinality(0 .. c - 1) = IF 0 > c - 1 THEN 0 ELSE c - 1 - 0 + 1
      BY <3>1, FS_Interval
    <3> QED BY <1>1, <3>2
  <2>3. r \in Injection(K, T)
    BY <2>1, <1>7 DEF Injection, IsInjective
  <2>4. r \in Surjection(K, T)
    <3> HIDE DEF T
    <3>1. Cardinality(K) = Cardinality(T) <=> r \in Surjection(K, T)
      BY <2>2, <2>3, FS_Injection
    <3> QED BY <3>1, <2>2 DEF c
  <2>5. \A m \in T : \E i \in K : r[i] = m
    BY <2>4 DEF Surjection
  <2>6. \A n \in 1 .. c : n - 1 \in T
    BY <1>1
  <2> QED BY <2>5, <2>6
<1> HIDE DEF pred, c
<1>9. r = [i \in K |-> Cardinality({j \in K : <<j, i>> \in order})]
  BY DEF pred
<1> HIDE DEF r
<1> QED BY <1>4, <1>5, <1>6, <1>8, <1>9 DEF c

\* a has the members of s at the indices in K, each at the place of its rank.
IsArranged(a, s, K, order) ==
    /\ Members(a) = {s[i] : i \in K}
    /\ \A m, n \in 1 .. Len(a) : m < n =>
           \E i, j \in K : <<i, j>> \in order /\ a[m] = s[i] /\ a[n] = s[j]

\* A list put in order holds what was chosen of it, one member before the other as ordered.
LEMMA ArrangedIs ==
    ASSUME NEW S, NEW s \in Seq(S), NEW K \in SUBSET DOMAIN s, NEW order, IsOrder(K, order)
    PROVE  Arranged(s, K, order) \in Seq(S) /\ IsArranged(Arranged(s, K, order), s, K, order)
<1> DEFINE c == Cardinality(K)
           at(n) == CHOOSE i \in K : Cardinality({j \in K : <<j, i>> \in order}) = n - 1
           a == [n \in 1 .. c |-> s[at(n)]]
<1>1. IsFiniteSet(K) /\ c \in Nat
  <2>1. IsFiniteSet(1 .. Len(s))
    BY FS_Interval
  <2>2. K \in SUBSET (1 .. Len(s))
    OBVIOUS
  <2>3. IsFiniteSet(K)
    BY <2>1, <2>2, FS_Subset
  <2> QED BY <2>3, FS_CardinalityType
<1>2. PICK r \in [K -> Nat] :
          /\ r = [i \in K |-> Cardinality({j \in K : <<j, i>> \in order})]
          /\ \A i, j \in K : <<i, j>> \in order => r[i] < r[j]
          /\ \A i \in K : r[i] < Cardinality(K)
          /\ \A n \in 1 .. Cardinality(K) : \E i \in K : r[i] = n - 1
  BY <1>1, Ranks
<1>3. \A i \in K : r[i] = Cardinality({j \in K : <<j, i>> \in order})
  BY <1>2
<1>4. \A n \in 1 .. c : at(n) \in K /\ r[at(n)] = n - 1
  <2> SUFFICES ASSUME NEW n \in 1 .. c PROVE at(n) \in K /\ r[at(n)] = n - 1
    OBVIOUS
  <2>1. \E i \in K : Cardinality({j \in K : <<j, i>> \in order}) = n - 1
    BY <1>2, <1>3
  <2>2. at(n) \in K /\ Cardinality({j \in K : <<j, at(n)>> \in order}) = n - 1
    BY <2>1, Zenon
  <2> HIDE DEF at
  <2> QED BY <2>2, <1>3
<1>5. \A i \in K : r[i] \in Nat /\ r[i] + 1 \in 1 .. c /\ (r[i] + 1) - 1 = r[i]
  <2> SUFFICES ASSUME NEW i \in K PROVE r[i] \in Nat /\ r[i] + 1 \in 1 .. c /\ (r[i] + 1) - 1 = r[i]
    OBVIOUS
  <2>1. r[i] \in Nat /\ r[i] < c
    BY <1>2
  <2> HIDE DEF c
  <2> QED BY <1>1, <2>1
<1>6. \A i, j \in K : r[i] = r[j] => i = j
  <2> SUFFICES ASSUME NEW i \in K, NEW j \in K, r[i] = r[j], i # j PROVE FALSE
    OBVIOUS
  <2>1. <<i, j>> \in order \/ <<j, i>> \in order
    BY DEF IsOrder
  <2>2. r[i] < r[j] \/ r[j] < r[i]
    BY <2>1, <1>2
  <2> QED BY <2>2, <1>5
<1>7. Arranged(s, K, order) = a
  BY DEF Arranged
<1> HIDE DEF at
<1>8. \A n \in 1 .. c : s[at(n)] \in S
  BY <1>4
<1>9. a \in Seq(S) /\ DOMAIN a = 1 .. c /\ \A n \in 1 .. c : a[n] = s[at(n)]
  BY <1>1, <1>8
<1> HIDE DEF a, c
<1>10. Members(a) = {s[i] : i \in K}
  <2>1. ASSUME NEW i \in K PROVE \E n \in 1 .. c : s[i] = a[n]
    <3>1. r[i] + 1 \in 1 .. c /\ (r[i] + 1) - 1 = r[i]
      BY <1>5
    <3>2. r[at(r[i] + 1)] = (r[i] + 1) - 1 /\ at(r[i] + 1) \in K
      BY <3>1, <1>4
    <3>3. at(r[i] + 1) = i
      BY <3>1, <3>2, <1>6
    <3> QED BY <3>1, <3>3, <1>9
  <2>2. ASSUME NEW n \in 1 .. c PROVE \E i \in K : a[n] = s[i]
    BY <1>4, <1>9
  <2>3. Members(a) = {a[n] : n \in 1 .. c}
    BY <1>9 DEF Members
  <2> QED BY <2>1, <2>2, <2>3
<1>11. ASSUME NEW m \in 1 .. c, NEW n \in 1 .. c, m < n
       PROVE  \E i, j \in K : <<i, j>> \in order /\ a[m] = s[i] /\ a[n] = s[j]
  <2>1. /\ at(m) \in K /\ at(n) \in K /\ r[at(m)] = m - 1 /\ r[at(n)] = n - 1
        /\ a[m] = s[at(m)] /\ a[n] = s[at(n)]
    BY <1>4, <1>9, <1>11
  <2>2. r[at(m)] < r[at(n)] /\ ~(r[at(n)] < r[at(m)])
    <3>1. m - 1 < n - 1 /\ ~(n - 1 < m - 1)
      BY <1>1, <1>11
    <3> QED BY <2>1, <3>1
  <2>3. ~(<<at(n), at(m)>> \in order)
    BY <2>1, <2>2, <1>2
  <2>5. at(m) # at(n)
    BY <2>1, <1>11, <1>1
  <2>4. <<at(m), at(n)>> \in order
    BY <2>1, <2>3, <2>5 DEF IsOrder
  <2> QED BY <2>1, <2>4
<1>12. \A m, n \in 1 .. Len(a) : m < n => \E i, j \in K : <<i, j>> \in order /\ a[m] = s[i] /\ a[n] = s[j]
  <2> SUFFICES ASSUME NEW m \in 1 .. Len(a), NEW n \in 1 .. Len(a), m < n
               PROVE  \E i, j \in K : <<i, j>> \in order /\ a[m] = s[i] /\ a[n] = s[j]
    OBVIOUS
  <2>1. 1 .. c = 1 .. Len(a)
    <3>1. DOMAIN a = 1 .. Len(a)
      BY <1>9
    <3> QED BY <3>1, <1>9
  <2>2. m \in 1 .. c /\ n \in 1 .. c /\ m \in Int /\ n \in Int
    BY <2>1, <1>1
  <2>3. \E i, j \in K : <<i, j>> \in order /\ a[m] = s[i] /\ a[n] = s[j]
    BY <1>11, <2>2
  <2> QED BY <2>3
<1>13. a \in Seq(S)
  BY <1>9
<1> HIDE DEF Members
<1>14. IsArranged(a, s, K, order)
  BY <1>10, <1>12 DEF IsArranged
<1> QED BY <1>7, <1>13, <1>14

\* filter keeps the members chosen.
LEMMA ChosenIs ==
    ASSUME NEW S, NEW s \in Seq(S), NEW K \in SUBSET DOMAIN s
    PROVE  Chosen(s, K) \in Seq(S) /\ Members(Chosen(s, K)) = {s[i] : i \in K}
<1> DEFINE order == {p \in K \X K : p[1] < p[2]}
<1>1. DOMAIN s = 1 .. Len(s) /\ K \subseteq Nat
  OBVIOUS
<1>2. IsOrder(K, order)
  <2>1. \A i, j \in K : <<i, j>> \in order <=> i < j
    OBVIOUS
  <2> HIDE DEF order
  <2>2. \A i \in K : <<i, i>> \notin order
    <3>1. \A i \in Nat : ~(i < i)
      OBVIOUS
    <3> QED BY <1>1, <2>1, <3>1
  <2>3. \A i, j \in K : i = j \/ <<i, j>> \in order \/ <<j, i>> \in order
    <3> SUFFICES ASSUME NEW i \in K, NEW j \in K PROVE i = j \/ <<i, j>> \in order \/ <<j, i>> \in order
      OBVIOUS
    <3>1. i \in Nat /\ j \in Nat
      BY <1>1
    <3>2. i = j \/ i < j \/ j < i
      BY <3>1
    <3> QED BY <2>1, <3>2
  <2>4. \A i, j, k \in K : <<i, j>> \in order /\ <<j, k>> \in order => <<i, k>> \in order
    BY <1>1, <2>1
  <2> QED BY <2>2, <2>3, <2>4 DEF IsOrder
<1> HIDE DEF order
<1>3. Arranged(s, K, order) \in Seq(S) /\ IsArranged(Arranged(s, K, order), s, K, order)
  BY <1>2, ArrangedIs
<1> QED BY <1>3 DEF Chosen, order, IsArranged

\* The sort keeps every span, and they start one after the other.
LEMMA SortedIs ==
    ASSUME NEW ds \in Seq(Detected)
    PROVE  /\ Sorted(ds) \in Seq(Detected) /\ Members(Sorted(ds)) = Members(ds)
           /\ \A m, n \in 1 .. Len(ds) : m < n => Sorted(ds)[m].start <= Sorted(ds)[n].start
           /\ Len(Sorted(ds)) = Len(ds)
<1> DEFINE K == DOMAIN ds
           order == {p \in K \X K : Precedes(ds, p[1], p[2])}
<1>1. \A i \in K : /\ i \in Nat /\ ds[i].start \in Nat /\ ds[i].end \in Nat /\ ds[i].conf \in Nat
                   /\ Width(ds[i]) \in Int
  BY DEF Detected, Width
<1>2. \A i, j \in K : <<i, j>> \in order <=> Precedes(ds, i, j)
  OBVIOUS
<1>3. IsOrder(K, order)
  <2> HIDE DEF K, order
  <2>1. \A i \in K : ~Precedes(ds, i, i)
    BY <1>1 DEF Precedes
  <2>2. \A i, j \in K : i = j \/ Precedes(ds, i, j) \/ Precedes(ds, j, i)
    BY <1>1 DEF Precedes
  <2>3. \A i, j, k \in K : Precedes(ds, i, j) /\ Precedes(ds, j, k) => Precedes(ds, i, k)
    <3> SUFFICES ASSUME NEW i \in K, NEW j \in K, NEW k \in K, Precedes(ds, i, j), Precedes(ds, j, k)
                 PROVE  Precedes(ds, i, k)
      OBVIOUS
    <3> DEFINE w(x) == Width(ds[x])
    <3>1. w(i) \in Int /\ w(j) \in Int /\ w(k) \in Int
      BY <1>1
    <3>2. ds[i].start <= ds[j].start /\ ds[j].start <= ds[k].start
      BY <1>1 DEF Precedes
    <3> QED BY <1>1, <3>1, <3>2 DEF Precedes
  <2> QED BY <1>2, <2>1, <2>2, <2>3 DEF IsOrder
<1>4. Sorted(ds) = Arranged(ds, K, order)
  BY DEF Sorted
<1>5. \A i, j \in K : <<i, j>> \in order => ds[i].start <= ds[j].start
  <2> HIDE DEF K, order
  <2> QED BY <1>1, <1>2 DEF Precedes
<1> HIDE DEF order
<1>6. Arranged(ds, K, order) \in Seq(Detected) /\ IsArranged(Arranged(ds, K, order), ds, K, order)
  <2>1. K \in SUBSET DOMAIN ds
    OBVIOUS
  <2> HIDE DEF K
  <2> QED BY <1>3, <2>1, ArrangedIs
<1>7. Len(Sorted(ds)) = Len(ds)
  <2>1. Cardinality(1 .. Len(ds)) = Len(ds) /\ Len(ds) \in Nat /\ K = 1 .. Len(ds)
    <3>1. Cardinality(1 .. Len(ds)) = IF 1 > Len(ds) THEN 0 ELSE Len(ds) - 1 + 1
      BY FS_Interval
    <3> QED BY <3>1
  <2>2. DOMAIN Arranged(ds, K, order) = 1 .. Cardinality(K)
    BY DEF Arranged
  <2> HIDE DEF K
  <2> QED BY <1>4, <1>6, <2>1, <2>2
<1>8. ASSUME NEW m \in 1 .. Len(Sorted(ds)), NEW n \in 1 .. Len(Sorted(ds)), m < n
      PROVE  Sorted(ds)[m].start <= Sorted(ds)[n].start
  <2> HIDE DEF K
  <2> DEFINE a == Sorted(ds)
  <2>2. \A k, l \in 1 .. Len(a) : k < l =>
            \E i, j \in K : <<i, j>> \in order /\ a[k] = ds[i] /\ a[l] = ds[j]
    <3>1. IsArranged(a, ds, K, order)
      BY <1>4, <1>6
    <3> HIDE DEF a
    <3> QED BY <3>1 DEF IsArranged
  <2>3. m \in 1 .. Len(a) /\ n \in 1 .. Len(a) /\ m < n
    BY <1>8
  <2> HIDE DEF a
  <2>1. PICK i \in K, j \in K : <<i, j>> \in order /\ a[m] = ds[i] /\ a[n] = ds[j]
    BY <2>2, <2>3
  <2>4. a[m].start <= a[n].start
    BY <2>1, <1>5
  <2> QED BY <2>4 DEF a
<1>9. Members(Sorted(ds)) = Members(ds)
  <2>1. Members(Sorted(ds)) = {ds[i] : i \in K}
    BY <1>4, <1>6 DEF IsArranged
  <2> QED BY <2>1 DEF Members
<1> QED BY <1>4, <1>6, <1>7, <1>8, <1>9

\* map, and concatenation.
LEMMA JoinedTwo ==
    ASSUME NEW S, NEW s \in Seq(S), NEW t \in Seq(S)
    PROVE  s \o t \in Seq(S) /\ Members(s \o t) = Members(s) \cup Members(t)
<1>1. /\ s \o t \in Seq(S) /\ DOMAIN s = 1 .. Len(s) /\ DOMAIN t = 1 .. Len(t)
      /\ DOMAIN (s \o t) = 1 .. Len(s) + Len(t) /\ Len(s) \in Nat /\ Len(t) \in Nat
      /\ \A i \in 1 .. Len(s) + Len(t) : (s \o t)[i] = IF i <= Len(s) THEN s[i] ELSE t[i - Len(s)]
  OBVIOUS
<1>2. ASSUME NEW i \in DOMAIN (s \o t) PROVE (s \o t)[i] \in Members(s) \cup Members(t)
  <2>1. CASE i <= Len(s)
    <3>1. i \in DOMAIN s /\ (s \o t)[i] = s[i]
      BY <1>1, <2>1
    <3> QED BY <3>1 DEF Members
  <2>2. CASE ~(i <= Len(s))
    <3>1. i - Len(s) \in DOMAIN t /\ (s \o t)[i] = t[i - Len(s)]
      BY <1>1, <2>2
    <3> QED BY <3>1 DEF Members
  <2> QED BY <2>1, <2>2
<1>3. ASSUME NEW i \in DOMAIN s PROVE s[i] \in Members(s \o t)
  <2>1. i \in DOMAIN (s \o t) /\ (s \o t)[i] = s[i]
    BY <1>1
  <2> QED BY <2>1 DEF Members
<1>4. ASSUME NEW i \in DOMAIN t PROVE t[i] \in Members(s \o t)
  <2>1. i + Len(s) \in DOMAIN (s \o t) /\ (s \o t)[i + Len(s)] = t[i]
    BY <1>1
  <2> QED BY <2>1 DEF Members
<1> QED BY <1>1, <1>2, <1>3, <1>4 DEF Members

-----------------------------------------------------------------------------
(* Walks over a sequence                                                    *)

\* f starts at base and makes n steps.
IsWalk(f, base, n, step) == f[0] = base /\ \A i \in 1 .. n : f[i] = step[<<i, f[i - 1]>>]

\* A walk over 1 .. n exists.
LEMMA Walk ==
    ASSUME NEW S, NEW base \in S, NEW n \in Nat, NEW step \in [(1 .. n) \X S -> S]
    PROVE  \E f \in [0 .. n -> S] : IsWalk(f, base, n, step)
<1> DEFINE Good(k, f) == f[0] = base /\ \A i \in 1 .. k : f[i] = step[<<i, f[i - 1]>>]
           T == {k \in Nat : k <= n => \E f \in [0 .. k -> S] : Good(k, f)}
<1>1. 0 \in T
  <2> DEFINE f == [i \in 0 .. 0 |-> base]
  <2>1. f \in [0 .. 0 -> S] /\ Good(0, f)
    OBVIOUS
  <2> QED BY <2>1
<1>2. ASSUME NEW k \in Nat, k \in T PROVE k + 1 \in T
  <2> SUFFICES ASSUME k + 1 <= n PROVE \E f \in [0 .. k + 1 -> S] : Good(k + 1, f)
    OBVIOUS
  <2>1. PICK g \in [0 .. k -> S] : Good(k, g)
    BY <1>2
  <2> DEFINE f == [i \in 0 .. k + 1 |-> IF i <= k THEN g[i] ELSE step[<<k + 1, g[k]>>]]
  <2>2. step[<<k + 1, g[k]>>] \in S
    <3>1. <<k + 1, g[k]>> \in (1 .. n) \X S
      BY <2>1
    <3> QED BY <3>1
  <2>3. f \in [0 .. k + 1 -> S]
    BY <2>1, <2>2
  <2>4. Good(k + 1, f)
    <3>1. f[0] = base
      BY <2>1
    <3>2. ASSUME NEW i \in 1 .. k + 1 PROVE f[i] = step[<<i, f[i - 1]>>]
      <4>1. CASE i = k + 1
        <5>1. i - 1 = k /\ ~(i <= k) /\ k \in 0 .. k + 1 /\ i \in 0 .. k + 1
          BY <4>1
        <5>2. f[i - 1] = g[k] /\ f[i] = step[<<k + 1, g[k]>>]
          BY <5>1
        <5> QED BY <5>2, <4>1
      <4>2. CASE i \in 1 .. k
        BY <4>2, <2>1
      <4> QED BY <4>1, <4>2
    <3> QED BY <3>1, <3>2
  <2> QED BY <2>3, <2>4
<1> HIDE DEF T
<1>3. n \in T
  BY <1>1, <1>2, SetInduction
<1> QED BY <1>3 DEF T, IsWalk

-----------------------------------------------------------------------------
(* mergeDetections                                                          *)

\* The fields of a span.
LEMMA DetectedFields ==
    \A d \in Detected : /\ d.start \in Nat /\ d.end \in Nat /\ d.start < d.end
                        /\ d.conf \in Nat /\ d.cat \in STRING
  BY DEF Detected

\* The list a round leaves: the old one, one longer, or one with another end.
LEMMA StepCases ==
    ASSUME NEW Elem, NEW ds \in Seq(Elem), NEW d \in Elem
    PROVE  \/ MergeStep(ds, d) = Append(ds, d) /\ Clear(ds, d)
           \/ ds # <<>> /\ MergeStep(ds, d) = [ds EXCEPT ![Len(ds)] = d] /\ ~Clear(ds, d)
           \/ ds # <<>> /\ MergeStep(ds, d) = ds /\ ~Clear(ds, d)
  BY DEF MergeStep, Clear

\* A round keeps the list a list of detections.
LEMMA StepType ==
    ASSUME NEW Elem, NEW ds \in Seq(Elem), NEW d \in Elem
    PROVE  MergeStep(ds, d) \in Seq(Elem)
  BY StepCases

\* Which spans a round keeps: it adds at most the one at hand, and gives up at most
\* the last one, and that only when the two overlap.
LEMMA StepElements ==
    ASSUME NEW Elem, NEW ds \in Seq(Elem), NEW d \in Elem
    PROVE  LET new == MergeStep(ds, d)
           IN  /\ \A k \in DOMAIN new : new[k] = d \/ (k \in DOMAIN ds /\ new[k] = ds[k])
               /\ \A k \in DOMAIN ds : k # Len(ds) \/ Clear(ds, d)
                                     => k \in DOMAIN new /\ new[k] = ds[k]
               /\ Clear(ds, d) => Len(new) \in DOMAIN new /\ new[Len(new)] = d
  <1> DEFINE new == MergeStep(ds, d)
  <1>1. CASE new = Append(ds, d) /\ Clear(ds, d)
    BY <1>1
  <1>2. CASE ds # <<>> /\ new = [ds EXCEPT ![Len(ds)] = d] /\ ~Clear(ds, d)
    <2>1. DOMAIN new = DOMAIN ds
      BY <1>2
    <2> QED
      BY <1>2, <2>1
  <1>3. CASE ds # <<>> /\ new = ds /\ ~Clear(ds, d)
    BY <1>3
  <1> QED
    BY <1>1, <1>2, <1>3, StepCases

\* A round keeps the spans apart and in the order of the text, when the span at
\* hand starts no earlier than the last one kept.
LEMMA StepOrdered ==
    ASSUME NEW Elem, NEW ds \in Seq(Elem), NEW d \in Elem,
           \A x \in Elem : x.start \in Nat /\ x.end \in Nat /\ x.start < x.end,
           \A k, l \in DOMAIN ds : k < l => ds[k].end <= ds[l].start,
           ds # <<>> => ds[Len(ds)].start <= d.start
    PROVE  LET new == MergeStep(ds, d)
           IN  /\ \A k, l \in DOMAIN new : k < l => new[k].end <= new[l].start
               /\ new # <<>>
               /\ new[Len(new)].start <= d.start
  <1> DEFINE new == MergeStep(ds, d)
  <1>1. /\ d.start \in Nat /\ d.end \in Nat /\ d.start < d.end
        /\ \A k \in DOMAIN ds : ds[k].start \in Nat /\ ds[k].end \in Nat /\ ds[k].start < ds[k].end
    OBVIOUS
  <1>2. CASE new = Append(ds, d) /\ Clear(ds, d)
    <2>1. Len(new) = Len(ds) + 1 /\ new # <<>> /\ new[Len(new)] = d
      BY <1>2
    <2>2. \A k \in DOMAIN new : k # Len(new) => k \in DOMAIN ds /\ new[k] = ds[k]
      BY <1>2
    <2>3. \A k \in DOMAIN ds : ds[k].end <= d.start
      BY <1>1, <1>2 DEF Clear
    <2> QED
      BY <1>1, <2>1, <2>2, <2>3
  <1>3. CASE ds # <<>> /\ new = [ds EXCEPT ![Len(ds)] = d]
    <2>1. /\ Len(new) = Len(ds) /\ DOMAIN new = DOMAIN ds /\ new # <<>> /\ new[Len(new)] = d
          /\ \A k \in DOMAIN ds : k # Len(ds) => new[k] = ds[k]
      BY <1>3
    <2>2. \A k \in DOMAIN ds : k # Len(ds) => ds[k].end <= d.start
      BY <1>1, <1>3
    <2> QED
      BY <1>1, <2>1, <2>2
  <1>4. CASE ds # <<>> /\ new = ds
    BY <1>1, <1>4
  <1> QED
    BY <1>2, <1>3, <1>4, StepCases

\* What the loop has after each round over s.
MergedTo(s, len) ==
    CHOOSE merged : merged = [n \in 0 .. len |->
            IF n = 0 THEN <<>> ELSE MergeStep(merged[n - 1], s[n])]

\* mergeDetections returns what the last round leaves.
LEMMA MergedIsLast == \A ds : MergeDetections(ds) = MergedTo(Sorted(ds), Len(ds))[Len(ds)]
  BY DEF MergeDetections, MergedTo

\* The recursive function is what its body says: there is one, by Walk.
LEMMA MergedToWalk ==
    ASSUME NEW Elem, NEW s \in Seq(Elem)
    PROVE  /\ MergedTo(s, Len(s))[0] = <<>>
           /\ \A n \in 1 .. Len(s) :
                  MergedTo(s, Len(s))[n] = MergeStep(MergedTo(s, Len(s))[n - 1], s[n])
           /\ \A n \in 0 .. Len(s) : MergedTo(s, Len(s))[n] \in Seq(Elem)
<1> DEFINE len == Len(s)
           P(f) == f = [n \in 0 .. len |-> IF n = 0 THEN <<>> ELSE MergeStep(f[n - 1], s[n])]
           F == CHOOSE f : P(f)
           Q == Seq(Elem)
           e == <<>>
           step == [x \in (1 .. len) \X Q |-> MergeStep(x[2], s[x[1]])]
<1>1. step \in [(1 .. len) \X Q -> Q]
  <2> SUFFICES ASSUME NEW x \in (1 .. len) \X Q PROVE MergeStep(x[2], s[x[1]]) \in Q
    OBVIOUS
  <2>1. x[2] \in Seq(Elem) /\ s[x[1]] \in Elem
    OBVIOUS
  <2> QED BY <2>1, StepType
<1>2. e \in Q /\ len \in Nat
  OBVIOUS
<1>3. PICK g \in [0 .. len -> Q] : IsWalk(g, e, len, step)
  <2> HIDE DEF step, P, F, Q, len, e
  <2> QED BY ONLY <1>1, <1>2, Walk
<1>4. g[0] = <<>> /\ \A i \in 1 .. len : g[i] = step[<<i, g[i - 1]>>]
  BY <1>3 DEF IsWalk
<1>5. ASSUME NEW i \in 1 .. len PROVE g[i] = MergeStep(g[i - 1], s[i])
  <2>1. i - 1 \in 0 .. len
    BY <1>2
  <2>2. g[i - 1] \in Q
    BY <2>1
  <2>3. <<i, g[i - 1]>> \in (1 .. len) \X Q
    BY <2>2
  <2>4. step[<<i, g[i - 1]>>] = MergeStep(g[i - 1], s[i])
    BY <2>3
  <2> HIDE DEF step
  <2> QED BY <2>4, <1>4
<1> HIDE DEF step
<1>6. P(g)
  <2>1. ASSUME NEW n \in 0 .. len
        PROVE  g[n] = IF n = 0 THEN <<>> ELSE MergeStep(g[n - 1], s[n])
    <3> HIDE DEF F, P
    <3>1. n = 0 \/ n \in 1 .. len
      BY <1>2
    <3> QED BY <3>1, <1>4, <1>5
  <2> HIDE DEF F
  <2> QED BY <2>1
<1> HIDE DEF P, F
<1>7. P(F)
  BY <1>6 DEF F
<1>8. F = MergedTo(s, len)
  BY DEF F, P, MergedTo
<1>9. F = [n \in 0 .. len |-> IF n = 0 THEN <<>> ELSE MergeStep(F[n - 1], s[n])]
  BY <1>7 DEF P
<1>10. F[0] = <<>> /\ \A n \in 1 .. len : F[n] = MergeStep(F[n - 1], s[n])
  <2>1. \A n \in 0 .. len : F[n] = IF n = 0 THEN <<>> ELSE MergeStep(F[n - 1], s[n])
    BY <1>9
  <2>2. 0 \in 0 .. len /\ \A n \in 1 .. len : n \in 0 .. len /\ n # 0
    BY <1>2
  <2> QED BY <2>1, <2>2
<1>11. \A n \in Nat : n <= len => F[n] \in Q
  <2> DEFINE T == {n \in Nat : n <= len => F[n] \in Q}
  <2>1. 0 \in T
    BY <1>2, <1>10
  <2>2. ASSUME NEW n \in Nat, n \in T PROVE n + 1 \in T
    <3> SUFFICES ASSUME n + 1 <= len PROVE F[n + 1] \in Q
      OBVIOUS
    <3>1. n + 1 \in 1 .. len /\ (n + 1) - 1 = n /\ n <= len
      BY <1>2
    <3>2. F[n] \in Seq(Elem) /\ s[n + 1] \in Elem
      BY <2>2, <3>1
    <3>3. F[n + 1] = MergeStep(F[n], s[n + 1])
      BY <3>1, <1>10
    <3> QED BY <3>2, <3>3, StepType
  <2> HIDE DEF T
  <2>3. Nat \subseteq T
    BY <2>1, <2>2, SetInduction
  <2> QED BY <2>3 DEF T
<1> QED BY <1>2, <1>8, <1>10, <1>11

\* e overlaps no span of ds that differs from it.
Clean(e, ds) == \A x \in Members(ds) : x = e \/ ~Overlaps(e, x)

\* After n rounds over a sorted list: the spans kept are of the list, apart and in the order
\* of the text, and a clean one that has come up is there.
LEMMA Rounds ==
    ASSUME NEW s \in Seq(Detected), \A m, n \in 1 .. Len(s) : m < n => s[m].start <= s[n].start,
           NEW n \in 0 .. Len(s)
    PROVE  LET kept == MergedTo(s, Len(s))[n] IN
           /\ Members(kept) \subseteq {s[i] : i \in 1 .. n}
           /\ \A k, l \in DOMAIN kept : k < l => kept[k].end <= kept[l].start
           /\ n # 0 => kept # <<>> /\ kept[Len(kept)].start <= s[n].start
           /\ \A i \in 1 .. n : Clean(s[i], s) => s[i] \in Members(kept)
<1> DEFINE F == MergedTo(s, Len(s))
           Apart(ds) == \A k, l \in DOMAIN ds : k < l => ds[k].end <= ds[l].start
           Good(m) == /\ Members(F[m]) \subseteq {s[i] : i \in 1 .. m}
                      /\ Apart(F[m])
                      /\ m # 0 => F[m] # <<>> /\ F[m][Len(F[m])].start <= s[m].start
                      /\ \A i \in 1 .. m : Clean(s[i], s) => s[i] \in Members(F[m])
           T == {m \in Nat : m <= Len(s) => Good(m)}
<1>1. /\ F[0] = <<>> /\ \A m \in 1 .. Len(s) : F[m] = MergeStep(F[m - 1], s[m])
      /\ \A m \in 0 .. Len(s) : F[m] \in Seq(Detected)
  BY MergedToWalk
<1> HIDE DEF F
<1>2. 0 \in T
  BY <1>1 DEF Members
<1>3. ASSUME NEW m \in Nat, m \in T PROVE m + 1 \in T
  <2> SUFFICES ASSUME m + 1 <= Len(s) PROVE Good(m + 1)
    OBVIOUS
  <2> DEFINE d == s[m + 1]
             ds == F[m]
             new == F[m + 1]
  <2>1. m + 1 \in 1 .. Len(s) /\ (m + 1) - 1 = m /\ m \in 0 .. Len(s) /\ m <= Len(s)
    OBVIOUS
  <2>2. Good(m)
    BY <1>3, <2>1
  <2>3. ds \in Seq(Detected) /\ d \in Detected /\ new = MergeStep(ds, d) /\ new \in Seq(Detected)
    BY <1>1, <2>1
  <2>4. ds # <<>> => ds[Len(ds)].start <= d.start
    <3>1. CASE m = 0
      BY <3>1, <1>1
    <3>2. CASE m # 0
      <4>1. m \in 1 .. Len(s) /\ m < m + 1
        BY <2>1, <3>2
      <4>2. s[m].start <= d.start /\ s[m].start \in Nat /\ d.start \in Nat
        BY <4>1, <2>1, DetectedFields
      <4>3. ds # <<>> /\ ds[Len(ds)].start <= s[m].start
        BY <2>2, <3>2
      <4>4. ds[Len(ds)].start \in Nat
        BY <2>3, <4>3, DetectedFields
      <4> QED BY <4>2, <4>3, <4>4
    <3> QED BY <3>1, <3>2
  <2>5. Apart(ds)
    BY <2>2
  <2> HIDE DEF ds, new, d
  <2>6. Apart(new) /\ new # <<>> /\ new[Len(new)].start <= d.start
    BY <2>3, <2>4, <2>5, StepOrdered, DetectedFields
  <2>7. /\ \A k \in DOMAIN new : new[k] = d \/ (k \in DOMAIN ds /\ new[k] = ds[k])
        /\ \A k \in DOMAIN ds : k # Len(ds) \/ Clear(ds, d) => k \in DOMAIN new /\ new[k] = ds[k]
        /\ Clear(ds, d) => Len(new) \in DOMAIN new /\ new[Len(new)] = d
    BY <2>3, StepElements
  <2>8. Members(new) \subseteq Members(ds) \cup {d}
    BY <2>7 DEF Members
  <2>9. Members(new) \subseteq {s[i] : i \in 1 .. m + 1}
    <3>1. Members(ds) \subseteq {s[i] : i \in 1 .. m}
      BY <2>2 DEF ds
    <3>2. 1 .. m \subseteq 1 .. m + 1 /\ m + 1 \in 1 .. m + 1
      OBVIOUS
    <3> QED BY <2>8, <3>1, <3>2 DEF d
  <2>10. ASSUME NEW i \in 1 .. m + 1, Clean(s[i], s) PROVE s[i] \in Members(new)
    <3> DEFINE e == s[i]
    <3>1. e \in Detected /\ i \in 1 .. Len(s)
      BY <2>1
    <3>2. \A x \in Members(ds) \cup {d} : x \in Detected /\ (x = e \/ ~Overlaps(e, x))
      <4>1. Members(ds) \subseteq Members(s) /\ d \in Members(s) /\ Members(s) \subseteq Detected
        <5>1. DOMAIN s = 1 .. Len(s) /\ 1 .. m \subseteq 1 .. Len(s)
          BY <2>1
        <5>2. Members(ds) \subseteq {s[j] : j \in 1 .. m}
          BY <2>2 DEF ds
        <5>3. Members(s) = {s[j] : j \in 1 .. Len(s)}
          BY <5>1 DEF Members
        <5>4. Members(s) \subseteq Detected
          BY <5>3
        <5>5. d \in Members(s)
          BY <5>3, <2>1 DEF d
        <5> QED BY <5>1, <5>2, <5>3, <5>4, <5>5
      <4> QED BY <4>1, <2>10 DEF Clean
    <3>3. CASE Clear(ds, d)
      <4>1. Members(new) = Members(ds) \cup {d}
        BY <2>7, <2>8, <3>3 DEF Members
      <4>2. e \in Members(ds) \cup {d}
        <5>1. i \in 1 .. m \/ i = m + 1
          OBVIOUS
        <5>2. i \in 1 .. m => e \in Members(ds)
          BY <2>2, <2>10 DEF ds
        <5> QED BY <5>1, <5>2 DEF d
      <4> QED BY <4>1, <4>2
    <3>4. CASE ~Clear(ds, d)
      <4>1. /\ ds # <<>> /\ d.start < ds[Len(ds)].end /\ Len(ds) \in DOMAIN ds
            /\ ds[Len(ds)] \in Members(ds)
        <5>1. ds # <<>> /\ Len(ds) \in DOMAIN ds /\ ds[Len(ds)] \in Detected
          BY <2>3, <3>4 DEF Clear
        <5> QED BY <5>1, <2>3, <3>4, DetectedFields DEF Clear, Members
      <4>2. Overlaps(ds[Len(ds)], d) /\ Overlaps(d, ds[Len(ds)])
        BY <4>1, <2>3, <2>4, <3>2, DetectedFields DEF Overlaps
      <4>3. CASE i = m + 1
        <5>1. ds[Len(ds)] = d /\ e = d
          BY <3>2, <4>1, <4>2, <4>3 DEF d
        <5>2. ~Beats(d, d)
          BY <2>3, DetectedFields DEF Beats, Width
        <5>3. new = ds
          BY <2>3, <3>4, <5>1, <5>2 DEF MergeStep
        <5> QED BY <4>1, <5>1, <5>3
      <4>4. CASE i \in 1 .. m
        <5>1. e \in Members(ds)
          BY <2>2, <2>10, <4>4 DEF ds
        <5>2. PICK k \in DOMAIN ds : ds[k] = e
          BY <5>1 DEF Members
        <5>3. CASE k # Len(ds)
          <6>1. k \in DOMAIN new /\ new[k] = e
            BY <2>7, <5>2, <5>3
          <6> QED BY <6>1 DEF Members
        <5>4. CASE k = Len(ds)
          <6>1. e = d
            BY <3>2, <4>2, <5>2, <5>4
          <6>2. ~Beats(d, ds[Len(ds)])
            BY <6>1, <5>2, <5>4, <2>3, DetectedFields DEF Beats, Width
          <6>3. new = ds
            BY <2>3, <3>4, <6>2 DEF MergeStep
          <6> QED BY <5>1, <6>3
        <5> QED BY <5>3, <5>4
      <4> QED BY <4>3, <4>4
    <3> QED BY <3>3, <3>4
  <2> QED BY <2>6, <2>9, <2>10 DEF new, d
<1> HIDE DEF T
<1>4. Nat \subseteq T
  BY <1>2, <1>3, SetInduction
<1>5. Good(n)
  <2>1. n \in T /\ n <= Len(s)
    BY <1>4
  <2> HIDE DEF Good
  <2> QED BY <2>1 DEF T
<1> HIDE DEF Good
<1> QED BY <1>5 DEF Good, F

\* mergeDetections returns spans of the list, apart, and gives up none that is clean.
LEMMA MergedIs ==
    ASSUME NEW ds \in Seq(Detected)
    PROVE  /\ MergeDetections(ds) \in Seq(Detected) /\ Disjoint(MergeDetections(ds))
           /\ Members(MergeDetections(ds)) \subseteq Members(ds)
           /\ \A e \in Members(ds) : Clean(e, ds) => e \in Members(MergeDetections(ds))
<1> DEFINE s == Sorted(ds)
           kept == MergedTo(s, Len(s))[Len(s)]
<1>1. /\ s \in Seq(Detected) /\ Members(s) = Members(ds) /\ Len(s) = Len(ds)
      /\ \A m, n \in 1 .. Len(s) : m < n => s[m].start <= s[n].start
  <2>1. Len(s) = Len(ds)
    BY SortedIs
  <2> QED BY <2>1, SortedIs
<1>2. MergeDetections(ds) = kept
  BY <1>1, MergedIsLast
<1> HIDE DEF s
<1>3. kept \in Seq(Detected)
  BY <1>1, MergedToWalk
<1>4. /\ Members(kept) \subseteq {s[i] : i \in 1 .. Len(s)}
      /\ \A k, l \in DOMAIN kept : k < l => kept[k].end <= kept[l].start
      /\ \A i \in 1 .. Len(s) : Clean(s[i], s) => s[i] \in Members(kept)
  <2>1. Len(s) \in 0 .. Len(s)
    BY <1>1
  <2> QED BY <1>1, <2>1, Rounds
<1> HIDE DEF kept
<1>5. Members(s) = {s[i] : i \in 1 .. Len(s)}
  BY <1>1 DEF Members
<1>6. Disjoint(kept)
  <2> SUFFICES ASSUME NEW i \in DOMAIN kept, NEW j \in DOMAIN kept, i < j
               PROVE  ~Overlaps(kept[i], kept[j])
    BY DEF Disjoint
  <2>1. kept[i] \in Detected /\ kept[j] \in Detected
    BY <1>3
  <2>2. kept[i].end <= kept[j].start
    BY <1>4
  <2> QED BY <2>1, <2>2, DetectedFields DEF Overlaps
<1>7. ASSUME NEW e \in Members(ds), Clean(e, ds) PROVE e \in Members(kept)
  <2>1. PICK i \in 1 .. Len(s) : s[i] = e
    BY <1>1, <1>5
  <2>2. Clean(e, s)
    BY <1>1, <1>7 DEF Clean
  <2> QED BY <2>1, <2>2, <1>4
<1> QED BY <1>1, <1>2, <1>3, <1>4, <1>5, <1>6, <1>7

-----------------------------------------------------------------------------
(* mergeBackendDetections and the widening of names                         *)

\* What flat has after each result.
JoinedTo(s) ==
    CHOOSE joined : joined = [n \in 0 .. Len(s) |-> IF n = 0 THEN <<>> ELSE joined[n - 1] \o s[n]]

\* flat keeps the members of every result.
LEMMA JoinedIs ==
    ASSUME NEW Elem, NEW s \in Seq(Seq(Elem))
    PROVE  Joined(s) \in Seq(Elem) /\ Members(Joined(s)) = UNION {Members(s[i]) : i \in DOMAIN s}
<1> DEFINE len == Len(s)
           P(f) == f = [n \in 0 .. len |-> IF n = 0 THEN <<>> ELSE f[n - 1] \o s[n]]
           F == CHOOSE f : P(f)
           Q == Seq(Elem)
           e == <<>>
           step == [x \in (1 .. len) \X Q |-> x[2] \o s[x[1]]]
<1>1. step \in [(1 .. len) \X Q -> Q]
  <2> SUFFICES ASSUME NEW x \in (1 .. len) \X Q PROVE x[2] \o s[x[1]] \in Q
    OBVIOUS
  <2>1. x[2] \in Seq(Elem) /\ s[x[1]] \in Seq(Elem)
    OBVIOUS
  <2> QED BY <2>1
<1>2. e \in Q /\ len \in Nat /\ DOMAIN s = 1 .. len
  OBVIOUS
<1>3. PICK g \in [0 .. len -> Q] : IsWalk(g, e, len, step)
  <2> HIDE DEF step, P, F, Q, len, e
  <2> QED BY ONLY <1>1, <1>2, Walk
<1>4. g[0] = <<>> /\ \A i \in 1 .. len : g[i] = step[<<i, g[i - 1]>>]
  BY <1>3 DEF IsWalk
<1>5. ASSUME NEW i \in 1 .. len PROVE g[i] = g[i - 1] \o s[i]
  <2>1. i - 1 \in 0 .. len
    BY <1>2
  <2>2. g[i - 1] \in Q
    BY <2>1
  <2>3. <<i, g[i - 1]>> \in (1 .. len) \X Q
    BY <2>2
  <2>4. step[<<i, g[i - 1]>>] = g[i - 1] \o s[i]
    BY <2>3
  <2> HIDE DEF step
  <2> QED BY <2>4, <1>4
<1> HIDE DEF step
<1>6. P(g)
  <2>1. ASSUME NEW n \in 0 .. len
        PROVE  g[n] = IF n = 0 THEN <<>> ELSE g[n - 1] \o s[n]
    <3> HIDE DEF F, P
    <3>1. n = 0 \/ n \in 1 .. len
      BY <1>2
    <3> QED BY <3>1, <1>4, <1>5
  <2> HIDE DEF F
  <2> QED BY <2>1
<1> HIDE DEF P, F
<1>7. P(F)
  BY <1>6 DEF F
<1>8. F = JoinedTo(s) /\ Joined(s) = F[len]
  BY DEF F, P, JoinedTo, Joined
<1>9. F = [n \in 0 .. len |-> IF n = 0 THEN <<>> ELSE F[n - 1] \o s[n]]
  BY <1>7 DEF P
<1>10. F[0] = <<>> /\ \A n \in 1 .. len : F[n] = F[n - 1] \o s[n]
  <2>1. \A n \in 0 .. len : F[n] = IF n = 0 THEN <<>> ELSE F[n - 1] \o s[n]
    BY <1>9
  <2>2. 0 \in 0 .. len /\ \A n \in 1 .. len : n \in 0 .. len /\ n # 0
    BY <1>2
  <2> QED BY <2>1, <2>2
<1> DEFINE Good(n) == F[n] \in Seq(Elem) /\ Members(F[n]) = UNION {Members(s[i]) : i \in 1 .. n}
           T == {n \in Nat : n <= len => Good(n)}
<1>11. 0 \in T
  <2>1. F[0] \in Seq(Elem) /\ Members(F[0]) = {} /\ 1 .. 0 = {}
    BY <1>2, <1>10 DEF Members
  <2> QED BY <2>1
<1>12. ASSUME NEW n \in Nat, n \in T PROVE n + 1 \in T
  <2> SUFFICES ASSUME n + 1 <= len PROVE Good(n + 1)
    OBVIOUS
  <2>1. n + 1 \in 1 .. len /\ (n + 1) - 1 = n /\ n <= len
    BY <1>2
  <2>2. F[n] \in Seq(Elem) /\ s[n + 1] \in Seq(Elem) /\ Members(F[n]) = UNION {Members(s[i]) : i \in 1 .. n}
    BY <1>12, <2>1
  <2>3. F[n + 1] = F[n] \o s[n + 1]
    BY <2>1, <1>10
  <2>4. F[n + 1] \in Seq(Elem) /\ Members(F[n + 1]) = Members(F[n]) \cup Members(s[n + 1])
    BY <2>2, <2>3, JoinedTwo
  <2>5. 1 .. n + 1 = (1 .. n) \cup {n + 1}
    OBVIOUS
  <2> QED BY <2>2, <2>4, <2>5
<1> HIDE DEF T
<1>13. Nat \subseteq T
  BY <1>11, <1>12, SetInduction
<1>14. Good(len)
  <2>1. len \in T /\ len <= len
    BY <1>2, <1>13
  <2> HIDE DEF Good
  <2> QED BY <2>1 DEF T
<1> QED BY <1>2, <1>8, <1>14

\* The members of a list are what it is a list of.
LEMMA MembersAre == \A Elem : \A s \in Seq(Elem) : Members(s) \subseteq Elem
  BY DEF Members

\* What becomes of two lists of spans: all that are no persons, and some persons of them.
LEMMA CombinedIs ==
    ASSUME NEW Elem, NEW local \in Seq(Elem), NEW others \in Seq(Elem)
    PROVE  /\ Combined(local, others) \in Seq(Elem)
           /\ Members(Combined(local, others)) \subseteq Members(local) \cup Members(others)
           /\ \A e \in Members(local) \cup Members(others) :
                  ~IsPerson(e) => e \in Members(Combined(local, others))
<1> DEFINE persons == Chosen(others, Persons(others))
           a == Chosen(local, DOMAIN local \ Persons(local))
           b == [n \in DOMAIN persons |-> Tightened(persons[n], local)]
           c == Chosen(others, DOMAIN others \ Persons(others))
<1>1. /\ persons \in Seq(Elem) /\ Members(persons) = {others[i] : i \in Persons(others)}
  <2>1. Persons(others) \in SUBSET DOMAIN others
    BY DEF Persons
  <2> QED BY <2>1, ChosenIs
<1>2. a \in Seq(Elem) /\ Members(a) = {local[i] : i \in DOMAIN local \ Persons(local)}
  <2>1. DOMAIN local \ Persons(local) \in SUBSET DOMAIN local
    OBVIOUS
  <2> QED BY <2>1, ChosenIs
<1>3. c \in Seq(Elem) /\ Members(c) = {others[i] : i \in DOMAIN others \ Persons(others)}
  <2>1. DOMAIN others \ Persons(others) \in SUBSET DOMAIN others
    OBVIOUS
  <2> QED BY <2>1, ChosenIs
<1>4. Combined(local, others) = (a \o b) \o c
  BY DEF Combined
<1> HIDE DEF a, c, persons
<1>5. \A n \in DOMAIN persons : b[n] \in Members(local) \cup Members(others) /\ b[n] \in Elem
  <2> SUFFICES ASSUME NEW n \in DOMAIN persons
               PROVE  b[n] \in Members(local) \cup Members(others) /\ b[n] \in Elem
    OBVIOUS
  <2> DEFINE rp == persons[n]
             inside == {i \in Persons(local) : /\ local[i].start >= rp.start
                                               /\ local[i].end <= rp.end
                                               /\ Width(local[i]) < Width(rp)}
  <2>1. inside \subseteq DOMAIN local
    BY DEF Persons
  <2>2. rp \in Members(others) /\ rp \in Elem
    <3>1. rp \in Members(persons) /\ rp \in Elem
      BY <1>1 DEF Members
    <3> QED BY <3>1, <1>1 DEF Members, Persons
  <2>3. b[n] = Tightened(rp, local)
    OBVIOUS
  <2>4. b[n] = IF \E i \in inside : inside = {i} THEN local[CHOOSE i \in inside : TRUE] ELSE rp
    BY <2>3 DEF Tightened
  <2> HIDE DEF inside, rp, b
  <2>5. CASE \E i \in inside : inside = {i}
    <3>1. (CHOOSE i \in inside : TRUE) \in inside
      BY <2>5, Zenon
    <3>2. PICK i \in DOMAIN local : b[n] = local[i]
      BY <3>1, <2>1, <2>4, <2>5
    <3> QED BY <3>2 DEF Members
  <2>6. CASE ~(\E i \in inside : inside = {i})
    BY <2>2, <2>4, <2>6
  <2> QED BY <2>5, <2>6
<1>6. b \in Seq(Elem) /\ Members(b) \subseteq Members(local) \cup Members(others)
  <2>1. DOMAIN persons = 1 .. Len(persons) /\ Len(persons) \in Nat
    BY <1>1
  <2>2. b \in Seq(Elem)
    BY <2>1, <1>5
  <2> QED BY <2>2, <1>5 DEF Members
<1> HIDE DEF b
<1>7. /\ Combined(local, others) \in Seq(Elem)
      /\ Members(Combined(local, others)) = (Members(a) \cup Members(b)) \cup Members(c)
  <2>1. a \o b \in Seq(Elem) /\ Members(a \o b) = Members(a) \cup Members(b)
    BY <1>2, <1>6, JoinedTwo
  <2>2. /\ (a \o b) \o c \in Seq(Elem)
        /\ Members((a \o b) \o c) = Members(a \o b) \cup Members(c)
    <3> DEFINE ab == a \o b
    <3>1. ab \in Seq(Elem) /\ c \in Seq(Elem)
      BY <2>1, <1>3
    <3> HIDE DEF ab
    <3>2. ab \o c \in Seq(Elem) /\ Members(ab \o c) = Members(ab) \cup Members(c)
      BY ONLY <3>1, JoinedTwo
    <3> QED BY <3>2 DEF ab
  <2> QED BY <2>1, <2>2, <1>4
<1>8. Members(a) \subseteq Members(local) /\ Members(c) \subseteq Members(others)
  BY <1>2, <1>3 DEF Members
<1>9. ASSUME NEW e \in Members(local), ~IsPerson(e) PROVE e \in Members(a)
  <2>1. PICK i \in DOMAIN local : local[i] = e
    BY <1>9 DEF Members
  <2> QED BY <2>1, <1>2, <1>9 DEF Persons
<1>10. ASSUME NEW e \in Members(others), ~IsPerson(e) PROVE e \in Members(c)
  <2>1. PICK i \in DOMAIN others : others[i] = e
    BY <1>10 DEF Members
  <2> QED BY <2>1, <1>3, <1>10 DEF Persons
<1> QED BY <1>6, <1>7, <1>8, <1>9, <1>10

\* The same for the answers of any number of backends.
LEMMA MergeBackendsIs ==
    ASSUME NEW Elem, NEW results \in Seq(Seq(Elem)), results # <<>>
    PROVE  LET all == UNION {Members(results[i]) : i \in DOMAIN results} IN
           /\ MergeBackends(results) \in Seq(Elem) /\ Members(MergeBackends(results)) \subseteq all
           /\ \A e \in all : ~IsPerson(e) => e \in Members(MergeBackends(results))
<1> DEFINE all == UNION {Members(results[i]) : i \in DOMAIN results}
           rest == Tail(results)
<1>1. /\ DOMAIN results = 1 .. Len(results) /\ Len(results) \in Nat /\ Len(results) >= 1
      /\ results[1] \in Seq(Elem)
      /\ rest \in Seq(Seq(Elem)) /\ Len(rest) = Len(results) - 1
      /\ \A i \in 1 .. Len(results) - 1 : rest[i] = results[i + 1]
  OBVIOUS
<1>2. CASE Len(results) = 1
  <2>1. MergeBackends(results) = results[1]
    BY <1>2 DEF MergeBackends
  <2>2. all = Members(results[1])
    BY <1>1, <1>2
  <2> QED BY <1>1, <2>1, <2>2
<1>3. CASE Len(results) # 1
  <2>1. MergeBackends(results) = Combined(results[1], Joined(rest))
    BY <1>3 DEF MergeBackends
  <2>2. Joined(rest) \in Seq(Elem) /\ Members(Joined(rest)) = UNION {Members(rest[i]) : i \in DOMAIN rest}
    BY <1>1, JoinedIs
  <2>3. all = Members(results[1]) \cup Members(Joined(rest))
    <3> HIDE DEF rest
    <3>1. DOMAIN rest = 1 .. Len(results) - 1
      BY <1>1
    <3>2. \A i \in DOMAIN rest : i + 1 \in DOMAIN results /\ rest[i] = results[i + 1]
      BY <1>1, <3>1
    <3>3. \A i \in DOMAIN results : i = 1 \/ (i - 1 \in DOMAIN rest /\ rest[i - 1] = results[i])
      BY <1>1, <3>1
    <3>4. 1 \in DOMAIN results
      BY <1>1
    <3> QED BY <2>2, <3>2, <3>3, <3>4
  <2> HIDE DEF all, rest
  <2>4. /\ Combined(results[1], Joined(rest)) \in Seq(Elem)
        /\ Members(Combined(results[1], Joined(rest))) \subseteq Members(results[1]) \cup Members(Joined(rest))
        /\ \A e \in Members(results[1]) \cup Members(Joined(rest)) :
               ~IsPerson(e) => e \in Members(Combined(results[1], Joined(rest)))
    BY <1>1, <2>2, CombinedIs
  <2>5. MergeBackends(results) \in Seq(Elem) /\ Members(MergeBackends(results)) \subseteq all
        /\ \A e \in all : ~IsPerson(e) => e \in Members(MergeBackends(results))
    BY <2>1, <2>3, <2>4
  <2> QED BY <2>5 DEF all
<1> QED BY <1>2, <1>3
-----------------------------------------------------------------------------
(* Widening                                                                 *)

\* A finite set of numbers has a least and a greatest one.
LEMMA Extremes ==
    ASSUME NEW S \in SUBSET Nat, IsFiniteSet(S), S # {}
    PROVE  /\ Min(S) \in S /\ \A y \in S : Min(S) <= y
           /\ Max(S) \in S /\ \A y \in S : Max(S) >= y
<1> DEFINE Good == {n \in Nat : \A T \in SUBSET Nat : IsFiniteSet(T) /\ T # {} /\ Cardinality(T) = n =>
                        /\ \E x \in T : \A y \in T : x <= y
                        /\ \E x \in T : \A y \in T : x >= y}
<1>1. 0 \in Good
  <2>1. \A T : IsFiniteSet(T) /\ Cardinality(T) = 0 => T = {}
    BY FS_EmptySet
  <2> QED BY <2>1
<1>2. ASSUME NEW n \in Nat, n \in Good PROVE n + 1 \in Good
  <2> SUFFICES ASSUME NEW T \in SUBSET Nat, IsFiniteSet(T), T # {}, Cardinality(T) = n + 1
               PROVE  /\ \E x \in T : \A y \in T : x <= y
                      /\ \E x \in T : \A y \in T : x >= y
    OBVIOUS
  <2>1. PICK t \in T : TRUE
    OBVIOUS
  <2> DEFINE U == T \ {t}
  <2>2. IsFiniteSet(U) /\ Cardinality(U) = n /\ U \in SUBSET Nat
    <3>1. IsFiniteSet(U) /\ Cardinality(U) = Cardinality(T) - 1
      BY <2>1, FS_RemoveElement
    <3> QED BY <3>1
  <2>3. CASE U = {}
    <3>1. T = {t} /\ t \in Nat
      BY <2>1, <2>3
    <3> QED BY <3>1
  <2>4. CASE U # {}
    <3> HIDE DEF U
    <3>1. PICK lo \in U : \A y \in U : lo <= y
      BY <1>2, <2>2, <2>4
    <3>2. PICK hi \in U : \A y \in U : hi >= y
      BY <1>2, <2>2, <2>4
    <3>3. /\ lo \in Nat /\ hi \in Nat /\ t \in Nat /\ lo \in T /\ hi \in T
          /\ \A y \in T : y = t \/ y \in U
          /\ \A y \in U : y \in Nat
      BY <2>1, <2>2 DEF U
    <3>4. \E x \in T : \A y \in T : x <= y
      <4>1. CASE lo <= t
        BY <3>1, <3>3, <4>1
      <4>2. CASE ~(lo <= t)
        <5>1. \A y \in U : t <= y
          BY <3>1, <3>3, <4>2
        <5> QED BY <5>1, <3>3, <2>1
      <4> QED BY <4>1, <4>2
    <3>5. \E x \in T : \A y \in T : x >= y
      <4>1. CASE hi >= t
        BY <3>2, <3>3, <4>1
      <4>2. CASE ~(hi >= t)
        <5>1. \A y \in U : t >= y
          BY <3>2, <3>3, <4>2
        <5> QED BY <5>1, <3>3, <2>1
      <4> QED BY <4>1, <4>2
    <3> QED BY <3>4, <3>5
  <2> QED BY <2>3, <2>4
<1>3. Nat \subseteq Good
  <2>1. \A n \in Nat : n \in Good => n + 1 \in Good
    BY <1>2
  <2> HIDE DEF Good
  <2> QED BY <1>1, <2>1, SetInduction
<1>4. Cardinality(S) \in Nat
  BY FS_CardinalityType
<1>5. /\ \E x \in S : \A y \in S : x <= y
      /\ \E x \in S : \A y \in S : x >= y
  <2>1. Cardinality(S) \in Good
    BY <1>3, <1>4
  <2> QED BY <2>1
<1>6. Min(S) \in S /\ \A y \in S : Min(S) <= y
  BY <1>5, Zenon DEF Min
<1>7. Max(S) \in S /\ \A y \in S : Max(S) >= y
  BY <1>5, Zenon DEF Max
<1> QED BY <1>6, <1>7

\* Widening grows a person's span, and leaves every other one as it is.
LEMMA WidenedIs ==
    ASSUME NEW d \in Detected, NEW L, IsFiniteSet(L)
    PROVE  /\ WidenOne(d, L) \in Detected
           /\ ~IsPerson(d) => WidenOne(d, L) = d
           /\ WidenOne(d, L).cat = d.cat
<1> DEFINE starts == {s \in 0 .. d.start : s .. d.start \subseteq L} \cup {d.start}
           ends == {e \in d.end .. (d.end + Cardinality(L)) : (d.end - 1) .. (e - 1) \subseteq L} \cup {d.end}
<1>1. d.start \in Nat /\ d.end \in Nat /\ d.start < d.end /\ Cardinality(L) \in Nat
  BY DetectedFields, FS_CardinalityType
<1>2. CASE ~IsPerson(d)
  BY <1>2 DEF WidenOne
<1>3. CASE IsPerson(d)
  <2>1. IsFiniteSet(starts) /\ starts \in SUBSET Nat /\ starts # {} /\ d.start \in starts
    <3>1. IsFiniteSet(0 .. d.start) /\ starts \in SUBSET (0 .. d.start)
      <4>1. 0 \in Int /\ d.start \in Int
        BY <1>1
      <4>2. IsFiniteSet(0 .. d.start)
        BY <4>1, FS_Interval
      <4>3. d.start \in 0 .. d.start
        BY <1>1
      <4> QED BY <4>2, <4>3
    <3>2. IsFiniteSet(starts)
      <4> HIDE DEF starts
      <4> QED BY <3>1, FS_Subset
    <3> QED BY <1>1, <3>1, <3>2
  <2>2. IsFiniteSet(ends) /\ ends \in SUBSET Nat /\ ends # {} /\ d.end \in ends
    <3>1. IsFiniteSet(d.end .. (d.end + Cardinality(L))) /\ ends \in SUBSET (d.end .. (d.end + Cardinality(L)))
      <4>1. d.end \in Int /\ d.end + Cardinality(L) \in Int
        BY <1>1
      <4>2. IsFiniteSet(d.end .. (d.end + Cardinality(L)))
        BY <4>1, FS_Interval
      <4>3. d.end \in d.end .. (d.end + Cardinality(L))
        BY <1>1
      <4> QED BY <4>2, <4>3
    <3>2. IsFiniteSet(ends)
      <4> HIDE DEF ends
      <4> QED BY <3>1, FS_Subset
    <3> QED BY <1>1, <3>1, <3>2
  <2>3. WidenOne(d, L) = [d EXCEPT !.start = Min(starts), !.end = Max(ends)]
    BY <1>3 DEF WidenOne
  <2> HIDE DEF starts, ends
  <2>4. Min(starts) \in Nat /\ Min(starts) <= d.start /\ Max(ends) \in Nat /\ Max(ends) >= d.end
    BY <2>1, <2>2, Extremes
  <2> DEFINE lo == Min(starts)
             hi == Max(ends)
  <2>5. lo \in Nat /\ hi \in Nat /\ lo < hi
    BY <1>1, <2>4
  <2> HIDE DEF lo, hi
  <2>6. WidenOne(d, L) = [d EXCEPT !.start = lo, !.end = hi]
    BY <2>3 DEF lo, hi
  <2> QED BY <1>3, <2>5, <2>6 DEF Detected
<1> QED BY <1>2, <1>3

\* Widening a list widens each of its spans.
LEMMA WidenIs ==
    ASSUME NEW ds \in Seq(Detected), NEW L, IsFiniteSet(L)
    PROVE  Widen(ds, L) \in Seq(Detected) /\ Members(Widen(ds, L)) = {WidenOne(d, L) : d \in Members(ds)}
<1>1. DOMAIN ds = 1 .. Len(ds) /\ Len(ds) \in Nat /\ \A n \in DOMAIN ds : ds[n] \in Detected
  OBVIOUS
<1>2. \A n \in DOMAIN ds : WidenOne(ds[n], L) \in Detected
  BY <1>1, WidenedIs
<1>3. Widen(ds, L) = [n \in DOMAIN ds |-> WidenOne(ds[n], L)]
  BY DEF Widen
<1>4. Widen(ds, L) \in Seq(Detected)
  BY <1>1, <1>2, <1>3
<1>5. Members(Widen(ds, L)) = {WidenOne(d, L) : d \in Members(ds)}
  BY <1>1, <1>3 DEF Members
<1> QED BY <1>4, <1>5

-----------------------------------------------------------------------------
(* A call                                                                  *)

\* What the call has to know to be fail-closed: the remote backend of a tiered call
\* is asked only after a local answer, and a call that ended without asking it had
\* none.
CallInv ==
    /\ TypeOK
    /\ config.tiered /\ state[Remote] = "idle" => sent = {}
    /\ config.tiered /\ state[Remote] # "idle" => GroupSettled /\ ~GroupFails
    /\ config.tiered /\ outcome # "pending" /\ state[Remote] = "idle" => GroupSettled /\ GroupFails
    /\ outcome = "answered" => ~config.remote \/ ~config.critical \/ state[Remote] = "answered"
                               \/ (config.tiered /\ state[Remote] = "idle"
                                   /\ config.onLocalFailure = "skip_remote")

\* The backends of the group are backends, and the remote one is among them exactly
\* when it is asked at once.
LEMMA GroupType ==
    ASSUME config \in Configs
    PROVE  /\ Group \in Seq(Backends)
           /\ config.tiered => Group = config.locals /\ config.remote
           /\ (\E n \in DOMAIN Group : Group[n] = Remote) <=> config.remote /\ ~config.tiered
  <1>1. /\ config.locals \in Seq(Backends \ {Remote})
        /\ config.remote \in BOOLEAN /\ config.tiered \in BOOLEAN
        /\ config.tiered => config.remote
    BY ConfigsAssumption
  <1>2. \A n \in DOMAIN config.locals : config.locals[n] # Remote
    BY <1>1
  <1>3. CASE config.remote /\ ~config.tiered
    <2>1. Group = Append(config.locals, Remote)
      BY <1>3 DEF Group
    <2>2. config.locals \in Seq(Backends)
      BY <1>1
    <2>3. Group \in Seq(Backends) /\ Len(Group) = Len(config.locals) + 1 /\ Group[Len(Group)] = Remote
      BY <2>1, <2>2, RemoteAssumption
    <2> QED
      BY <1>3, <2>3
  <1>4. CASE ~(config.remote /\ ~config.tiered)
    <2>1. Group = config.locals
      BY <1>4 DEF Group
    <2> QED
      BY <1>1, <1>2, <1>4, <2>1
  <1> QED
    BY <1>3, <1>4

\* A call to a settled group leaves it as it is.
LEMMA GroupStays ==
    ASSUME config \in Configs, config' = config, NEW b \in Backends, NEW s,
           state \in [Backends -> {"idle", "pending", "answered", "failed"}],
           state' = [state EXCEPT ![b] = s], ~Settled(b) \/ s = state[b],
           GroupSettled
    PROVE  GroupSettled' /\ (GroupFails' <=> GroupFails)
  <1>1. Group' = Group
    BY DEF Group
  <1>2. Group \in Seq(Backends)
    BY GroupType
  <1>3. \A n \in DOMAIN Group : state'[Group[n]] = state[Group[n]]
    BY <1>2 DEF GroupSettled, Settled
  <1>4. (\E n \in DOMAIN Group : Group[n] = Remote) => state'[Remote] = state[Remote]
    BY <1>3
  <1>5. GroupSettled'
    BY <1>1, <1>3 DEF GroupSettled, Settled
  <1>6. GroupFails' <=> GroupFails
    BY <1>1, <1>3, <1>4 DEF GroupFails
  <1> QED
    BY <1>5, <1>6

\* The invariant holds of every call.
THEOREM CallSafe == Spec => []CallInv
  <1> USE RemoteAssumption
  <1>1. Init => CallInv
    <2> SUFFICES ASSUME Init
                 PROVE  CallInv
      OBVIOUS
    <2>1. config \in Configs /\ outcome = "pending"
      BY DEF Init
    <2>2. state \in [Backends -> {"idle", "pending", "answered", "failed"}]
      BY DEF Init
    <2>3. config.tiered => state[Remote] = "idle" /\ sent = {}
      BY <2>1, GroupType DEF Init
    <2> QED
      BY <2>1, <2>2, <2>3 DEF CallInv, TypeOK
  <1>2. CallInv /\ [Next]_vars => CallInv'
    <2> SUFFICES ASSUME CallInv, [Next]_vars
                 PROVE  CallInv'
      OBVIOUS
    <2>0. /\ config \in Configs
          /\ config.tiered \in BOOLEAN /\ config.remote \in BOOLEAN /\ config.critical \in BOOLEAN
          /\ config.onLocalFailure \in {"skip_remote", "throw"}
      BY ConfigsAssumption DEF CallInv, TypeOK
    <2>1. ASSUME NEW b \in Backends, Answer(b) \/ Fail(b)
          PROVE  CallInv'
      <3>1. PICK s \in {"answered", "failed"} : state' = [state EXCEPT ![b] = s]
        BY <2>1 DEF Answer, Fail
      <3>2. state[b] = "pending" /\ UNCHANGED <<config, sent, outcome>>
        BY <2>1 DEF Answer, Fail
      <3>3. GroupSettled => GroupSettled' /\ (GroupFails' <=> GroupFails)
        BY <2>0, <3>1, <3>2, GroupStays DEF CallInv, TypeOK, Settled
      <3>4. state' \in [Backends -> {"idle", "pending", "answered", "failed"}]
        BY <3>1 DEF CallInv, TypeOK
      <3>5. /\ state'[Remote] = "idle" <=> state[Remote] = "idle"
            /\ state[Remote] = "answered" => state'[Remote] = "answered"
        BY <3>1, <3>2 DEF CallInv, TypeOK
      <3> QED
        BY <3>2, <3>3, <3>4, <3>5 DEF CallInv, TypeOK
    <2>2. CASE SettleGroup
      <3>1. UNCHANGED <<config, state, sent>> /\ ~config.tiered /\ outcome' \in {"answered", "rejected"}
        BY <2>2 DEF SettleGroup, Finish, Reject
      <3>2. outcome' = "answered" => GroupSettled /\ ~GroupFails
        BY <2>2 DEF SettleGroup, Finish, Reject
      <3>3. outcome' = "answered" /\ config.remote /\ config.critical => state[Remote] = "answered"
        BY <2>0, <3>1, <3>2, GroupType DEF GroupSettled, GroupFails, Settled
      <3> QED
        BY <2>0, <3>1, <3>3 DEF CallInv, TypeOK
    <2>3. CASE SettleLocalFailure
      <3>1. /\ UNCHANGED <<config, state, sent>> /\ config.tiered /\ outcome' \in {"answered", "rejected"}
            /\ GroupSettled /\ GroupFails
            /\ outcome' = "answered" => config.onLocalFailure = "skip_remote"
        BY <2>3 DEF SettleLocalFailure, Finish, Reject
      <3>2. state[Remote] = "idle"
        BY <3>1 DEF CallInv, TypeOK
      <3>3. (GroupSettled /\ GroupFails)'
        BY <3>1 DEF GroupSettled, GroupFails, Group, Settled
      <3> QED
        BY <3>1, <3>2, <3>3 DEF CallInv, TypeOK
    <2>4. CASE AskRemote
      <3>1. /\ config.tiered /\ GroupSettled /\ ~GroupFails /\ state[Remote] = "idle"
            /\ state' = [state EXCEPT ![Remote] = "pending"] /\ UNCHANGED <<config, outcome>>
        BY <2>4 DEF AskRemote
      <3>2. (GroupSettled /\ ~GroupFails)'
        BY <2>0, <3>1, GroupStays DEF CallInv, TypeOK, Settled
      <3>3. outcome = "pending"
        BY <3>1 DEF CallInv, TypeOK
      <3>4. state' \in [Backends -> {"idle", "pending", "answered", "failed"}] /\ state'[Remote] = "pending"
        BY <3>1 DEF CallInv, TypeOK
      <3> QED
        BY <2>0, <3>1, <3>2, <3>3, <3>4 DEF CallInv, TypeOK
    <2>5. CASE SettleTiered
      <3>1. /\ UNCHANGED <<config, state, sent>> /\ outcome' \in {"answered", "rejected"}
            /\ Settled(Remote)
            /\ outcome' = "answered" => ~config.critical \/ state[Remote] = "answered"
        BY <2>5 DEF SettleTiered, Finish, Reject
      <3>2. (GroupSettled' <=> GroupSettled) /\ (GroupFails' <=> GroupFails)
        BY <3>1 DEF GroupSettled, GroupFails, Group, Settled
      <3> QED
        BY <2>0, <3>1, <3>2 DEF CallInv, TypeOK, Settled
    <2>6. CASE UNCHANGED vars
      <3>1. (GroupSettled' <=> GroupSettled) /\ (GroupFails' <=> GroupFails)
        BY <2>6 DEF vars, GroupSettled, GroupFails, Group, Settled
      <3> QED
        BY <2>6, <3>1 DEF vars, CallInv, TypeOK
    <2> QED
      BY <2>1, <2>2, <2>3, <2>4, <2>5, <2>6 DEF Next
  <1> QED
    BY <1>1, <1>2, PTL DEF Spec

\* A detection call never answers when a critical backend it asked has failed.
THEOREM DetectionFailsClosed == Spec => []FailClosed
  <1>1. CallInv => FailClosed
    BY ConfigsAssumption DEF CallInv, TypeOK, FailClosed
  <1> QED
    BY <1>1, CallSafe, PTL

-----------------------------------------------------------------------------
(* What a call answers                                                      *)

\* The list the strategy hands to the detector.
Final ==
    IF ~config.tiered THEN GroupResult
    ELSE IF GroupFails THEN <<>>
    ELSE IF state[Remote] = "failed" THEN MergeDetections(GroupResult)
    ELSE MergeDetections(Combined(GroupResult, found[Remote]))

\* Who is asked, and that a report is of one who answered.
AskedInv ==
    /\ found \in [Backends -> Seq(Detected)]
    /\ \A b \in Backends : found[b] = <<>> \/ state[b] = "answered"
    /\ \A b \in Backends : state[b] # "idle" =>
           (config.tiered /\ b = Remote) \/ \E n \in DOMAIN Group : Group[n] = b

\* The text the remote backend of a tiered call was shown, and the answer, are the ones
\* that follow from the reports; nobody reports any more once there is an answer.
AnswerInv ==
    /\ config.tiered /\ state[Remote] # "idle" => sent = Visible(GroupResult)
    /\ outcome = "pending" => detections = <<>>
    /\ outcome # "pending" => GroupSettled /\ (config.tiered /\ ~GroupFails => Settled(Remote))
    /\ outcome = "answered" => /\ config.tiered \/ ~GroupFails
                               /\ detections = MergeDetections(Widen(Final, Latin))

\* The invariant of a call with its reports.
DetInv == CallInv /\ AskedInv /\ AnswerInv

\* The spans the group reported.
OfGroup == UNION {Members(found[Group[n]]) : n \in DOMAIN Group}

\* What the group reports: spans of its backends, among them each that is no person and
\* overlaps no other.
LEMMA GroupResultIs ==
    ASSUME config \in Configs, AskedInv, state \in [Backends -> {"idle", "pending", "answered", "failed"}],
           GroupSettled, ~GroupFails
    PROVE  /\ GroupResult \in Seq(Detected) /\ Members(GroupResult) \subseteq OfGroup
           /\ \A e \in OfGroup :
                  ~IsPerson(e) /\ (\A x \in OfGroup : x = e \/ ~Overlaps(e, x)) => e \in Members(GroupResult)
<1>1. Group \in Seq(Backends) /\ \A n \in DOMAIN Group : Group[n] \in Backends
  BY GroupType
<1>2. found \in [Backends -> Seq(Detected)] /\ \A b \in Backends : found[b] = <<>> \/ state[b] = "answered"
  BY DEF AskedInv
<1>3. PICK k \in DOMAIN Group : state[Group[k]] = "answered"
  BY DEF GroupSettled, GroupFails, Settled
<1>4. CASE Len(Group) = 1
  <2>1. DOMAIN Group = {1}
    BY <1>1, <1>4
  <2>2. OfGroup = Members(found[Group[1]])
    BY <2>1 DEF OfGroup
  <2>3. GroupResult = found[Group[1]]
    BY <1>4 DEF GroupResult
  <2>4. found[Group[1]] \in Seq(Detected)
    BY <1>1, <1>2, <2>1
  <2> QED BY <2>2, <2>3, <2>4
<1>5. CASE Len(Group) # 1
  <2> DEFINE K == {n \in DOMAIN Group : state[Group[n]] = "answered"}
             answered == Chosen(Group, K)
             results == [n \in DOMAIN answered |-> found[answered[n]]]
             merged == MergeBackends(results)
  <2>5. GroupResult = MergeDetections(merged)
    BY <1>5 DEF GroupResult
  <2>1. answered \in Seq(Backends) /\ Members(answered) = {Group[n] : n \in K}
    <3>1. K \in SUBSET DOMAIN Group
      OBVIOUS
    <3> HIDE DEF K
    <3> QED BY <1>1, <3>1, ChosenIs
  <2>2. \A e : (\E n \in DOMAIN answered : e \in Members(found[answered[n]])) <=> e \in OfGroup
    <3>1. ASSUME NEW n \in DOMAIN answered PROVE \E m \in DOMAIN Group : answered[n] = Group[m]
      <4>1. answered[n] \in Members(answered)
        BY DEF Members
      <4> QED BY <4>1, <2>1
    <3>2. ASSUME NEW m \in DOMAIN Group, NEW e \in Members(found[Group[m]])
          PROVE  \E n \in DOMAIN answered : answered[n] = Group[m]
      <4>1. found[Group[m]] # <<>>
        BY <3>2 DEF Members
      <4>2. m \in K
        BY <1>1, <1>2, <4>1
      <4>3. Group[m] \in Members(answered)
        BY <2>1, <4>2
      <4> HIDE DEF answered
      <4> QED BY <4>3 DEF Members
    <3> HIDE DEF answered
    <3> QED BY <3>1, <3>2 DEF OfGroup
  <2>3. answered # <<>>
    <3>1. Group[k] \in Members(answered)
      BY <1>3, <2>1
    <3> HIDE DEF answered
    <3> QED BY <3>1 DEF Members
  <2> HIDE DEF answered, K
  <2>4. /\ results \in Seq(Seq(Detected)) /\ results # <<>> /\ DOMAIN results = DOMAIN answered
        /\ \A n \in DOMAIN results : results[n] = found[answered[n]]
    <3>1. DOMAIN answered = 1 .. Len(answered) /\ Len(answered) \in Nat /\ Len(answered) # 0
      BY <2>1, <2>3
    <3>2. \A n \in DOMAIN answered : answered[n] \in Backends
      BY <2>1
    <3>3. \A n \in DOMAIN answered : found[answered[n]] \in Seq(Detected)
      BY <1>2, <3>2
    <3> DEFINE len == Len(answered)
               Q == Seq(Detected)
    <3>4. \A n \in 1 .. len : results[n] \in Q
      BY <3>1, <3>3
    <3>5. results = [n \in 1 .. len |-> results[n]] /\ len \in Nat /\ len # 0
      BY <3>1
    <3>6. \A n \in DOMAIN results : results[n] = found[answered[n]]
      OBVIOUS
    <3>7. DOMAIN results = DOMAIN answered
      OBVIOUS
    <3> HIDE DEF results, Q, len
    <3>8. results \in Seq(Q) /\ results # <<>>
      BY <3>4, <3>5
    <3> QED BY <3>6, <3>7, <3>8 DEF Q
  <2> HIDE DEF results
  <2>6. UNION {Members(results[i]) : i \in DOMAIN results} = OfGroup
    <3> DEFINE all == UNION {Members(results[i]) : i \in DOMAIN results}
    <3>1. \A e : e \in all <=> \E i \in DOMAIN results : e \in Members(results[i])
      OBVIOUS
    <3>2. \A e : e \in all <=> \E i \in DOMAIN answered : e \in Members(found[answered[i]])
      <4> HIDE DEF all
      <4> QED BY <2>4, <3>1
    <3>3. \A e : e \in all <=> e \in OfGroup
      <4> HIDE DEF all
      <4> QED BY <2>2, <3>2
    <3> HIDE DEF all
    <3>4. all = OfGroup
      BY <3>3
    <3> QED BY <3>4 DEF all
  <2>7. /\ merged \in Seq(Detected) /\ Members(merged) \subseteq OfGroup
        /\ \A e \in OfGroup : ~IsPerson(e) => e \in Members(merged)
    BY <2>4, <2>6, MergeBackendsIs
  <2> HIDE DEF merged
  <2>8. /\ MergeDetections(merged) \in Seq(Detected)
        /\ Members(MergeDetections(merged)) \subseteq Members(merged)
        /\ \A e \in Members(merged) : Clean(e, merged) => e \in Members(MergeDetections(merged))
    BY <2>7, MergedIs
  <2>9. ASSUME NEW e \in OfGroup, ~IsPerson(e), \A x \in OfGroup : x = e \/ ~Overlaps(e, x)
        PROVE  e \in Members(GroupResult)
    <3>1. e \in Members(merged) /\ Clean(e, merged)
      BY <2>7, <2>9 DEF Clean
    <3> QED BY <2>5, <2>8, <3>1
  <2> QED BY <2>5, <2>7, <2>8, <2>9
<1> QED BY <1>4, <1>5

\* The group's report stays while its backends do.
LEMMA GroupResultStays ==
    ASSUME config \in Configs, config' = config,
           \A n \in DOMAIN Group : state'[Group[n]] = state[Group[n]] /\ found'[Group[n]] = found[Group[n]]
    PROVE  GroupResult' = GroupResult
<1>1. Group' = Group
  BY DEF Group
<1>2. Group \in Seq(Backends)
  BY GroupType
<1> DEFINE K == {n \in DOMAIN Group : state[Group[n]] = "answered"}
           answered == Chosen(Group, K)
<1>3. {n \in DOMAIN Group : state'[Group[n]] = "answered"} = K
  OBVIOUS
<1>4. answered \in Seq(Backends) /\ Members(answered) = {Group[n] : n \in K}
  <2>1. K \in SUBSET DOMAIN Group
    OBVIOUS
  <2> HIDE DEF K
  <2> QED BY <1>2, <2>1, ChosenIs
<1>5. \A n \in DOMAIN answered : found'[answered[n]] = found[answered[n]]
  <2> SUFFICES ASSUME NEW n \in DOMAIN answered PROVE found'[answered[n]] = found[answered[n]]
    OBVIOUS
  <2>1. answered[n] \in Members(answered)
    BY DEF Members
  <2> HIDE DEF K
  <2>2. PICK m \in K : answered[n] = Group[m]
    BY <1>4, <2>1
  <2>3. m \in DOMAIN Group
    BY DEF K
  <2> HIDE DEF answered
  <2> QED BY <2>2, <2>3
<1>6. [n \in DOMAIN answered |-> found'[answered[n]]] = [n \in DOMAIN answered |-> found[answered[n]]]
  <2> HIDE DEF answered
  <2> QED BY <1>5
<1>7. GroupResult = IF Len(Group) = 1 THEN found[Group[1]]
                    ELSE MergeDetections(MergeBackends([n \in DOMAIN answered |-> found[answered[n]]]))
  BY DEF GroupResult
<1>8. GroupResult' = IF Len(Group) = 1 THEN found'[Group[1]]
                     ELSE MergeDetections(MergeBackends([n \in DOMAIN answered |-> found'[answered[n]]]))
  BY <1>1, <1>3 DEF GroupResult
<1>9. Len(Group) = 1 => found'[Group[1]] = found[Group[1]]
  BY <1>2
<1> HIDE DEF answered
<1> QED BY <1>6, <1>7, <1>8, <1>9

\* The list the detector gets is one of spans.
LEMMA FinalIs ==
    ASSUME CallInv, AskedInv, GroupSettled, config.tiered \/ ~GroupFails
    PROVE  Final \in Seq(Detected)
<1>1. config \in Configs /\ state \in [Backends -> {"idle", "pending", "answered", "failed"}]
  BY DEF CallInv, TypeOK
<1>2. CASE GroupFails
  BY <1>2 DEF Final
<1>3. CASE ~GroupFails
  <2>1. GroupResult \in Seq(Detected) /\ found[Remote] \in Seq(Detected)
    BY <1>1, <1>3, GroupResultIs, RemoteAssumption DEF AskedInv
  <2>2. Combined(GroupResult, found[Remote]) \in Seq(Detected)
    BY <2>1, CombinedIs
  <2>3. MergeDetections(GroupResult) \in Seq(Detected)
    BY <2>1, MergedIs
  <2>4. MergeDetections(Combined(GroupResult, found[Remote])) \in Seq(Detected)
    BY <2>2, MergedIs
  <2> QED BY <1>3, <2>1, <2>3, <2>4 DEF Final
<1> QED BY <1>2, <1>3

\* Reporting or failing, and asking the remote backend, change nothing of what a settled
\* group has reported.
LEMMA OthersLeaveGroup ==
    ASSUME CallInv, AskedInv, NEW b \in Backends, NEW s, NEW report,
           UNCHANGED config, state' = [state EXCEPT ![b] = s], found' = [found EXCEPT ![b] = report],
           GroupSettled, ~Settled(b)
    PROVE  GroupResult' = GroupResult
<1>1. config \in Configs /\ state \in [Backends -> {"idle", "pending", "answered", "failed"}]
      /\ found \in [Backends -> Seq(Detected)]
  BY DEF CallInv, TypeOK, AskedInv
<1>2. Group \in Seq(Backends)
  BY <1>1, GroupType
<1>3. \A n \in DOMAIN Group : Group[n] # b /\ Group[n] \in Backends
  BY <1>2 DEF GroupSettled
<1>4. \A n \in DOMAIN Group : state'[Group[n]] = state[Group[n]] /\ found'[Group[n]] = found[Group[n]]
  BY <1>1, <1>3
<1> QED BY <1>1, <1>4, GroupResultStays

\* A backend answers or fails.
LEMMA AnswerKeeps ==
    ASSUME DetInv, CallInv', NEW b \in Backends, Answer(b) \/ Fail(b)
    PROVE  DetInv'
<1>1. /\ config \in Configs /\ state \in [Backends -> {"idle", "pending", "answered", "failed"}]
      /\ found \in [Backends -> Seq(Detected)] /\ CallInv /\ AskedInv /\ AnswerInv
  BY DEF DetInv, CallInv, TypeOK, AskedInv
<1>2. /\ state[b] = "pending" /\ UNCHANGED <<config, sent, outcome, detections>>
      /\ \E s \in {"answered", "failed"}, ds \in Seq(Detected) :
             /\ state' = [state EXCEPT ![b] = s]
             /\ found' = [found EXCEPT ![b] = ds]
             /\ ds = <<>> \/ s = "answered"
  <2>1. CASE Answer(b)
    <3>1. PICK ds \in Reports[b] : found' = [found EXCEPT ![b] = ds]
      BY <2>1 DEF Answer
    <3>2. ds \in Seq(Detected)
      BY ReportsAssumption
    <3> QED BY <2>1, <3>1, <3>2 DEF Answer
  <2>2. CASE Fail(b)
    <3>1. found[b] = <<>> /\ found' = [found EXCEPT ![b] = <<>>]
      BY <1>1, <2>2 DEF Fail, AskedInv
    <3>2. <<>> \in Seq(Detected) /\ "failed" \in {"answered", "failed"}
      OBVIOUS
    <3>3. /\ state[b] = "pending" /\ UNCHANGED <<config, sent, outcome, detections>>
          /\ state' = [state EXCEPT ![b] = "failed"]
      BY <2>2 DEF Fail
    <3> QED BY <3>1, <3>2, <3>3
  <2> QED BY <2>1, <2>2
<1>3. PICK s \in {"answered", "failed"}, ds \in Seq(Detected) :
             /\ state' = [state EXCEPT ![b] = s]
             /\ found' = [found EXCEPT ![b] = ds]
             /\ ds = <<>> \/ s = "answered"
  BY <1>2
<1>4. Group' = Group
  BY <1>2 DEF Group
<1>5. AskedInv'
  <2>1. found' \in [Backends -> Seq(Detected)]
    BY <1>1, <1>3
  <2>2. \A c \in Backends : found'[c] = <<>> \/ state'[c] = "answered"
    BY <1>1, <1>3 DEF AskedInv
  <2>3. \A c \in Backends : state'[c] # "idle" => (config.tiered /\ c = Remote) \/ \E n \in DOMAIN Group : Group[n] = c
    BY <1>1, <1>2, <1>3 DEF AskedInv
  <2> QED BY <1>2, <1>4, <2>1, <2>2, <2>3 DEF AskedInv
<1>6. outcome = "pending"
  <2> SUFFICES ASSUME outcome # "pending" PROVE FALSE
    OBVIOUS
  <2>1. GroupSettled /\ (config.tiered /\ ~GroupFails => Settled(Remote))
    BY <1>1 DEF AnswerInv
  <2>2. config.tiered /\ b = Remote
    BY <1>1, <1>2, <2>1 DEF AskedInv, GroupSettled, Settled
  <2>3. ~GroupFails
    BY <1>1, <1>2, <2>2 DEF CallInv
  <2> QED BY <1>2, <2>1, <2>2, <2>3 DEF Settled
<1>7. AnswerInv'
  <2>1. outcome' = "pending" /\ detections' = <<>>
    BY <1>1, <1>2, <1>6 DEF AnswerInv
  <2>2. config.tiered /\ state'[Remote] # "idle" => sent' = Visible(GroupResult)'
    <3> SUFFICES ASSUME config.tiered, state'[Remote] # "idle" PROVE sent' = Visible(GroupResult)'
      OBVIOUS
    <3>1. state[Remote] # "idle"
      BY <1>1, <1>2, <1>3, RemoteAssumption
    <3>2. GroupSettled /\ ~Settled(b)
      BY <1>1, <1>2, <3>1 DEF CallInv, Settled
    <3>3. GroupResult' = GroupResult
      BY <1>1, <1>2, <1>3, <3>2, OthersLeaveGroup
    <3>4. sent' = Visible(GroupResult)
      BY <1>1, <1>2, <3>1 DEF AnswerInv
    <3> QED BY <3>3, <3>4 DEF Visible
  <2> QED BY <1>2, <2>1, <2>2 DEF AnswerInv
<1> QED BY <1>5, <1>7 DEF DetInv

\* The remote backend of a tiered call is asked.
LEMMA AskKeeps ==
    ASSUME DetInv, CallInv', AskRemote
    PROVE  DetInv'
<1>1. /\ config \in Configs /\ state \in [Backends -> {"idle", "pending", "answered", "failed"}]
      /\ found \in [Backends -> Seq(Detected)] /\ CallInv /\ AskedInv /\ AnswerInv
  BY DEF DetInv, CallInv, TypeOK, AskedInv
<1>2. /\ config.tiered /\ GroupSettled /\ ~GroupFails /\ state[Remote] = "idle"
      /\ state' = [state EXCEPT ![Remote] = "pending"] /\ sent' = Visible(GroupResult)
      /\ UNCHANGED <<config, found, outcome, detections>>
  BY DEF AskRemote
<1>3. Group' = Group /\ found[Remote] = <<>>
  BY <1>1, <1>2, RemoteAssumption DEF Group, AskedInv
<1>4. AskedInv'
  <2>1. \A c \in Backends : found'[c] = <<>> \/ state'[c] = "answered"
    BY <1>1, <1>2, <1>3 DEF AskedInv
  <2>2. \A c \in Backends : state'[c] # "idle" => (config.tiered /\ c = Remote) \/ \E n \in DOMAIN Group : Group[n] = c
    BY <1>1, <1>2 DEF AskedInv
  <2> QED BY <1>1, <1>2, <1>3, <2>1, <2>2 DEF AskedInv
<1>5. outcome = "pending" /\ detections = <<>>
  BY <1>1, <1>2 DEF AnswerInv, Settled
<1>6. GroupResult' = GroupResult
  <2>1. found' = [found EXCEPT ![Remote] = <<>>] /\ ~Settled(Remote)
    BY <1>1, <1>2, <1>3 DEF Settled
  <2> QED BY <1>1, <1>2, <2>1, OthersLeaveGroup, RemoteAssumption
<1>7. AnswerInv'
  <2>1. sent' = Visible(GroupResult)'
    BY <1>2, <1>6 DEF Visible
  <2> QED BY <1>2, <1>5, <2>1 DEF AnswerInv
<1> QED BY <1>4, <1>7 DEF DetInv

\* What a call that ends leaves as it is.
LEMMA Ends ==
    ASSUME DetInv, UNCHANGED <<config, state, found, sent>>
    PROVE  /\ AskedInv' /\ Group' = Group /\ GroupResult' = GroupResult /\ Final' = Final
           /\ GroupSettled' = GroupSettled /\ GroupFails' = GroupFails
           /\ \A b \in Backends : Settled(b)' = Settled(b)
<1>1. config \in Configs /\ AskedInv
  BY DEF DetInv, CallInv, TypeOK
<1>2. Group' = Group /\ GroupSettled' = GroupSettled /\ GroupFails' = GroupFails
  BY DEF Group, GroupSettled, GroupFails, Settled
<1>3. GroupResult' = GroupResult
  BY <1>1, GroupResultStays
<1>4. AskedInv'
  BY <1>1, <1>2 DEF AskedInv
<1>5. Final' = Final
  BY <1>2, <1>3 DEF Final
<1>6. \A b \in Backends : Settled(b)' = Settled(b)
  BY DEF Settled
<1> QED BY <1>2, <1>3, <1>4, <1>5, <1>6

\* How a call ends: rejected, or answered with the spans of Final.
LEMMA EndCases ==
    ASSUME DetInv, SettleGroup \/ SettleLocalFailure \/ SettleTiered
    PROVE  /\ outcome = "pending" /\ GroupSettled /\ (config.tiered /\ ~GroupFails => Settled(Remote))
           /\ Reject \/ (Finish(Final) /\ (config.tiered \/ ~GroupFails))
<1>1. CallInv
  BY DEF DetInv
<1>2. CASE SettleGroup
  BY <1>2 DEF SettleGroup, Final
<1>3. CASE SettleLocalFailure
  BY <1>3 DEF SettleLocalFailure, Final
<1>4. CASE SettleTiered
  <2>1. config.tiered /\ Settled(Remote) /\ outcome = "pending" /\ state[Remote] # "idle"
    BY <1>4 DEF SettleTiered, Settled
  <2>2. GroupSettled /\ ~GroupFails
    BY <1>1, <2>1 DEF CallInv
  <2>3. Reject \/ Finish(Final)
    BY <1>4, <2>1, <2>2 DEF SettleTiered, Final
  <2> QED BY <2>1, <2>2, <2>3
<1> QED BY <1>2, <1>3, <1>4

\* The call ends.
LEMMA EndKeeps ==
    ASSUME DetInv, CallInv', SettleGroup \/ SettleLocalFailure \/ SettleTiered
    PROVE  DetInv'
<1>1. AnswerInv
  BY DEF DetInv
<1>2. /\ outcome = "pending" /\ GroupSettled /\ (config.tiered /\ ~GroupFails => Settled(Remote))
      /\ Reject \/ (Finish(Final) /\ (config.tiered \/ ~GroupFails))
  BY EndCases
<1>3. UNCHANGED <<config, state, found, sent>> /\ outcome' \in {"answered", "rejected"}
  BY <1>2 DEF Reject, Finish
<1>4. /\ AskedInv' /\ Group' = Group /\ GroupResult' = GroupResult /\ Final' = Final
      /\ GroupSettled' = GroupSettled /\ GroupFails' = GroupFails
      /\ Settled(Remote)' = Settled(Remote)
  BY <1>3, Ends, RemoteAssumption
<1>5. outcome' = "answered" => /\ config.tiered \/ ~GroupFails
                               /\ detections' = MergeDetections(Widen(Final, Latin))
  BY <1>2 DEF Reject, Finish
<1>6. Visible(GroupResult)' = Visible(GroupResult)
  BY <1>4 DEF Visible
<1>7. AnswerInv'
  BY <1>1, <1>2, <1>3, <1>4, <1>5, <1>6 DEF AnswerInv
<1> QED BY <1>4, <1>7 DEF DetInv

\* The invariant of a call with its reports.
THEOREM CallIsWhole == Spec => []DetInv
<1>1. Init => DetInv
  <2> SUFFICES ASSUME Init PROVE DetInv
    OBVIOUS
  <2>1. config \in Configs /\ outcome = "pending" /\ detections = <<>>
    BY DEF Init
  <2>2. config.tiered => state[Remote] = "idle" /\ sent = {}
    BY <2>1, GroupType, RemoteAssumption DEF Init
  <2>3. CallInv
    BY <2>1, <2>2 DEF Init, CallInv, TypeOK
  <2>4. AskedInv
    BY DEF Init, AskedInv
  <2>5. AnswerInv
    BY <2>1, <2>2 DEF AnswerInv
  <2> QED BY <2>3, <2>4, <2>5 DEF DetInv
<1>2. DetInv /\ CallInv' /\ [Next]_vars => DetInv'
  <2> SUFFICES ASSUME DetInv, CallInv', [Next]_vars PROVE DetInv'
    OBVIOUS
  <2>1. CASE UNCHANGED vars
    <3>1. UNCHANGED <<config, state, found, sent, outcome, detections>> /\ AnswerInv
      BY <2>1 DEF vars, DetInv
    <3>2. /\ AskedInv' /\ Group' = Group /\ GroupResult' = GroupResult /\ Final' = Final
          /\ GroupSettled' = GroupSettled /\ GroupFails' = GroupFails
          /\ Settled(Remote)' = Settled(Remote)
      BY <3>1, Ends, RemoteAssumption
    <3>3. Visible(GroupResult)' = Visible(GroupResult)
      BY <3>2 DEF Visible
    <3>4. AnswerInv'
      BY <3>1, <3>2, <3>3 DEF AnswerInv
    <3> QED BY <3>2, <3>4 DEF DetInv
  <2> QED BY <2>1, AnswerKeeps, AskKeeps, EndKeeps DEF Next
<1> QED BY <1>1, <1>2, CallSafe, PTL DEF Spec

\* The call is one step of the abstract detector: it fails, or it answers disjoint spans.
THEOREM CallIsADetector == Spec => ImplementsDetector
<1>1. Init => D!Init
  BY DEF Init, D!Init
<1>2. DetInv /\ [Next]_vars => [D!Answer \/ D!Reject]_<<outcome, detections>>
  <2> SUFFICES ASSUME DetInv, [Next]_vars
               PROVE  D!Answer \/ D!Reject \/ UNCHANGED <<outcome, detections>>
    OBVIOUS
  <2>1. ASSUME SettleGroup \/ SettleLocalFailure \/ SettleTiered PROVE D!Answer \/ D!Reject
    <3>1. /\ outcome = "pending" /\ GroupSettled
          /\ Reject \/ (Finish(Final) /\ (config.tiered \/ ~GroupFails))
      BY <2>1, EndCases
    <3>2. CASE Reject
      BY <3>1, <3>2 DEF Reject, D!Reject
    <3>3. CASE Finish(Final) /\ (config.tiered \/ ~GroupFails)
      <4>1. Final \in Seq(Detected)
        BY <3>1, <3>3, FinalIs DEF DetInv
      <4>2. IsFiniteSet(Latin)
        BY TextAssumption, FS_Subset
      <4>3. Disjoint(MergeDetections(Widen(Final, Latin)))
        BY <4>1, <4>2, WidenIs, MergedIs
      <4>4. Disjoint(detections') /\ outcome' = "answered"
        BY <3>3, <4>3 DEF Finish
      <4> QED BY <3>1, <4>4 DEF D!Answer, Disjoint, Overlaps, D!Disjoint, D!Overlaps
    <3> QED BY <3>1, <3>2, <3>3
  <2>2. ASSUME NEW b \in Backends, Answer(b) \/ Fail(b) PROVE UNCHANGED <<outcome, detections>>
    BY <2>2 DEF Answer, Fail
  <2>3. CASE AskRemote
    BY <2>3 DEF AskRemote
  <2>4. CASE UNCHANGED vars
    BY <2>4 DEF vars
  <2> QED BY <2>1, <2>2, <2>3, <2>4 DEF Next
<1> QED BY <1>1, <1>2, CallIsWhole, PTL DEF Spec, ImplementsDetector, D!Spec

\* No other one of the spans gets in e's way, as it is or widened.
IsLone(e, spans) ==
    \A x \in spans : x = e \/ (~Overlaps(e, x) /\ ~Overlaps(e, WidenOne(x, Latin)))

\* A span that is alone among a list's is still there when the list has been widened and
\* merged.
LEMMA LoneIsAnswered ==
    ASSUME NEW ds \in Seq(Detected), NEW e \in Members(ds), ~IsPerson(e), IsLone(e, Members(ds))
    PROVE  e \in Members(MergeDetections(Widen(ds, Latin)))
<1> DEFINE widened == Widen(ds, Latin)
<1>1. IsFiniteSet(Latin)
  BY TextAssumption, FS_Subset
<1>2. widened \in Seq(Detected) /\ Members(widened) = {WidenOne(d, Latin) : d \in Members(ds)}
  BY <1>1, WidenIs
<1>3. e \in Detected
  BY MembersAre
<1>4. WidenOne(e, Latin) = e
  BY <1>1, <1>3, WidenedIs
<1> HIDE DEF widened
<1>5. e \in Members(widened)
  BY <1>2, <1>4
<1>6. Clean(e, widened)
  <2> SUFFICES ASSUME NEW d \in Members(ds) PROVE WidenOne(d, Latin) = e \/ ~Overlaps(e, WidenOne(d, Latin))
    BY <1>2 DEF Clean
  <2> QED BY <1>4 DEF IsLone
<1>7. e \in Members(MergeDetections(widened))
  BY <1>2, <1>5, <1>6, MergedIs
<1> QED BY <1>7 DEF widened

\* A span that is alone is still there when the list has been merged.
LEMMA LoneIsMerged ==
    ASSUME NEW ds \in Seq(Detected), NEW e \in Members(ds), IsLone(e, Members(ds))
    PROVE  e \in Members(MergeDetections(ds))
<1>1. Clean(e, ds)
  BY DEF IsLone, Clean
<1> QED BY <1>1, MergedIs

\* All the spans reported.
AllFound == UNION {Members(found[b]) : b \in Backends}

\* A span of the answer's list is one that was reported, and a lone one that was is there.
LEMMA LoneIsFinal ==
    ASSUME DetInv, GroupSettled, config.tiered /\ ~GroupFails => Settled(Remote),
           config.tiered \/ ~GroupFails,
           NEW e \in AllFound, ~IsPerson(e), IsLone(e, AllFound)
    PROVE  Final \in Seq(Detected) /\ e \in Members(Final) /\ IsLone(e, Members(Final))
<1>1. /\ config \in Configs /\ state \in [Backends -> {"idle", "pending", "answered", "failed"}]
      /\ found \in [Backends -> Seq(Detected)] /\ CallInv /\ AskedInv
  BY DEF DetInv, CallInv, TypeOK, AskedInv
<1>2. Group \in Seq(Backends) /\ (config.tiered => Group = config.locals /\ config.remote)
      /\ ((\E n \in DOMAIN Group : Group[n] = Remote) <=> config.remote /\ ~config.tiered)
  BY <1>1, GroupType
<1>3. PICK b \in Backends : e \in Members(found[b])
  BY DEF AllFound
<1>4. found[b] # <<>> /\ state[b] = "answered"
  BY <1>1, <1>3 DEF AskedInv, Members
<1>5. (config.tiered /\ b = Remote) \/ \E n \in DOMAIN Group : Group[n] = b
  BY <1>1, <1>4 DEF AskedInv
<1>6. ~GroupFails
  <2>1. CASE config.tiered /\ b = Remote
    BY <1>1, <1>4, <2>1 DEF CallInv
  <2>2. CASE config.tiered /\ b # Remote
    <3>1. \E n \in DOMAIN Group : state[Group[n]] # "failed"
      BY <1>4, <1>5, <2>2
    <3> QED BY <3>1, <1>2, <2>2 DEF GroupFails
  <2> QED BY <2>1, <2>2
<1>7. /\ GroupResult \in Seq(Detected) /\ Members(GroupResult) \subseteq OfGroup
      /\ \A x \in OfGroup :
             ~IsPerson(x) /\ (\A y \in OfGroup : y = x \/ ~Overlaps(x, y)) => x \in Members(GroupResult)
  BY <1>1, <1>6, GroupResultIs
<1>8. OfGroup \subseteq AllFound /\ Members(found[Remote]) \subseteq AllFound
  <2>1. \A n \in DOMAIN Group : Group[n] \in Backends
    BY <1>2
  <2> QED BY <2>1, RemoteAssumption DEF OfGroup, AllFound
<1>9. (\E n \in DOMAIN Group : Group[n] = b) => e \in Members(GroupResult)
  <2> SUFFICES ASSUME NEW n \in DOMAIN Group, Group[n] = b PROVE e \in Members(GroupResult)
    OBVIOUS
  <2>1. e \in OfGroup
    BY <1>3 DEF OfGroup
  <2> QED BY <1>7, <1>8, <2>1 DEF IsLone
<1>10. \A s : s \subseteq AllFound => IsLone(e, s)
  BY DEF IsLone
<1>11. CASE ~config.tiered
  <2>1. Final = GroupResult
    BY <1>11 DEF Final
  <2> QED BY <1>5, <1>7, <1>8, <1>9, <1>10, <1>11, <2>1
<1>12. CASE config.tiered /\ state[Remote] = "failed"
  <2>1. Final = MergeDetections(GroupResult)
    BY <1>6, <1>12 DEF Final
  <2>2. e \in Members(GroupResult)
    BY <1>4, <1>5, <1>9, <1>12
  <2>3. IsLone(e, Members(GroupResult))
    BY <1>7, <1>8, <1>10
  <2>4. e \in Members(Final)
    BY <1>7, <2>1, <2>2, <2>3, LoneIsMerged
  <2>5. Final \in Seq(Detected) /\ Members(Final) \subseteq Members(GroupResult)
    BY <1>7, <2>1, MergedIs
  <2> QED BY <1>7, <1>8, <1>10, <2>4, <2>5
<1>13. CASE config.tiered /\ state[Remote] # "failed"
  <2> DEFINE both == Combined(GroupResult, found[Remote])
  <2>1. Final = MergeDetections(both)
    BY <1>6, <1>13 DEF Final
  <2>2. found[Remote] \in Seq(Detected)
    BY <1>1, RemoteAssumption
  <2>3. /\ both \in Seq(Detected)
        /\ Members(both) \subseteq Members(GroupResult) \cup Members(found[Remote])
        /\ \A x \in Members(GroupResult) \cup Members(found[Remote]) : ~IsPerson(x) => x \in Members(both)
    BY <1>7, <2>2, CombinedIs
  <2> HIDE DEF both
  <2>4. e \in Members(both)
    BY <1>3, <1>5, <1>9, <2>3
  <2>5. Members(both) \subseteq AllFound
    BY <1>7, <1>8, <2>3
  <2>6. e \in Members(Final)
    BY <1>10, <2>1, <2>3, <2>4, <2>5, LoneIsMerged
  <2>7. Final \in Seq(Detected) /\ Members(Final) \subseteq Members(both)
    BY <2>1, <2>3, MergedIs
  <2> QED BY <1>10, <2>5, <2>6, <2>7
<1> QED BY <1>11, <1>12, <1>13

\* An isolated report is a lone span.
LEMMA IsolatedIsLone ==
    ASSUME NEW bs \in SUBSET Backends,
           NEW r \in UNION {{<<b, n>> : n \in DOMAIN found[b]} : b \in bs},
           Isolated(r, UNION {{<<b, n>> : n \in DOMAIN found[b]} : b \in bs})
    PROVE  IsLone(Span(r), UNION {Members(found[b]) : b \in bs})
<1> DEFINE reports == UNION {{<<b, n>> : n \in DOMAIN found[b]} : b \in bs}
<1> SUFFICES ASSUME NEW b \in bs, NEW n \in DOMAIN found[b]
             PROVE  \/ found[b][n] = Span(r)
                    \/ /\ ~Overlaps(Span(r), found[b][n])
                       /\ ~Overlaps(Span(r), WidenOne(found[b][n], Latin))
  BY DEF IsLone, Members
<1>1. <<b, n>> \in reports /\ Span(<<b, n>>) = found[b][n]
  BY DEF Span
<1>2. CASE <<b, n>> = r
  BY <1>1, <1>2
<1>3. CASE <<b, n>> # r
  BY <1>1, <1>3 DEF Isolated
<1> QED BY <1>2, <1>3

\* What no other span interferes with is masked, whoever reported it, and in tiered mode the
\* remote backend is not shown it when a local backend reported it.
THEOREM LoneSpansStayHidden == Spec => []LoneSpansAreHidden
<1>1. DetInv => IsolatedIsMasked
  <2> SUFFICES ASSUME DetInv, outcome = "answered", NEW r \in Reported,
                      ~IsPerson(Span(r)), Isolated(r, Reported)
               PROVE  \E k \in DOMAIN detections : detections[k] = Span(r)
    BY DEF IsolatedIsMasked
  <2> DEFINE e == Span(r)
  <2>1. IsLone(e, AllFound)
    BY IsolatedIsLone DEF Reported, AllFound
  <2>2. e \in AllFound
    BY DEF Reported, Span, AllFound, Members
  <2>3. /\ GroupSettled /\ (config.tiered /\ ~GroupFails => Settled(Remote))
        /\ config.tiered \/ ~GroupFails
        /\ detections = MergeDetections(Widen(Final, Latin))
    BY DEF DetInv, AnswerInv
  <2> HIDE DEF e
  <2>4. ~IsPerson(e)
    BY DEF e
  <2>5. Final \in Seq(Detected) /\ e \in Members(Final) /\ IsLone(e, Members(Final))
    BY <2>1, <2>2, <2>3, <2>4, LoneIsFinal
  <2>6. e \in Members(detections)
    BY <2>3, <2>4, <2>5, LoneIsAnswered
  <2> QED BY <2>6 DEF Members, e
<1>2. DetInv => RemoteIsBlind
  <2> DEFINE ofLocals == {r \in Reported : r[1] # Remote}
             locals == Backends \ {Remote}
  <2> SUFFICES ASSUME DetInv, config.tiered
               PROVE  /\ \A r \in ofLocals : ~IsPerson(Span(r)) /\ Isolated(r, ofLocals)
                                             => Positions(Span(r)) \cap sent = {}
                      /\ (\A n \in DOMAIN Group : state[Group[n]] # "answered") => sent = {}
    BY DEF RemoteIsBlind
  <2>1. /\ config \in Configs /\ state \in [Backends -> {"idle", "pending", "answered", "failed"}]
        /\ found \in [Backends -> Seq(Detected)] /\ CallInv /\ AskedInv /\ AnswerInv
    BY DEF DetInv, CallInv, TypeOK, AskedInv
  <2>2. CASE state[Remote] = "idle"
    BY <2>1, <2>2 DEF CallInv
  <2>3. CASE state[Remote] # "idle"
    <3>1. GroupSettled /\ ~GroupFails /\ sent = Visible(GroupResult)
      BY <2>1, <2>3 DEF CallInv, AnswerInv
    <3>2. \E n \in DOMAIN Group : state[Group[n]] = "answered"
      BY <3>1 DEF GroupSettled, GroupFails, Settled
    <3>3. ASSUME NEW r \in ofLocals, ~IsPerson(Span(r)), Isolated(r, ofLocals)
          PROVE  Positions(Span(r)) \cap sent = {}
      <4> DEFINE e == Span(r)
                 ofTheirs == UNION {Members(found[b]) : b \in locals}
      <4>1. ofLocals = UNION {{<<b, n>> : n \in DOMAIN found[b]} : b \in locals}
        BY DEF Reported
      <4>2. IsLone(e, ofTheirs)
        <5>1. locals \in SUBSET Backends
          OBVIOUS
        <5> HIDE DEF ofLocals, locals
        <5> QED BY <3>3, <4>1, <5>1, IsolatedIsLone
      <4>3. PICK b \in locals : \E n \in DOMAIN found[b] : r = <<b, n>>
        BY <4>1
      <4>4. e \in Members(found[b]) /\ ~IsPerson(e)
        <5>1. PICK n \in DOMAIN found[b] : r = <<b, n>>
          BY <4>3
        <5> QED BY <3>3, <5>1 DEF Span, Members
      <4> HIDE DEF e
      <4>5. state[b] = "answered"
        BY <2>1, <4>4 DEF AskedInv, Members
      <4>6. PICK m \in DOMAIN Group : Group[m] = b
        BY <2>1, <4>3, <4>5 DEF AskedInv
      <4>7. e \in OfGroup
        BY <4>4, <4>6 DEF OfGroup
      <4>8. OfGroup \subseteq ofTheirs
        <5>1. Group \in Seq(Backends) /\ \A k \in DOMAIN Group : Group[k] # Remote
          BY <2>1, GroupType
        <5>2. \A k \in DOMAIN Group : Group[k] \in locals
          BY <5>1
        <5> HIDE DEF locals
        <5> QED BY <5>2 DEF OfGroup
      <4> HIDE DEF ofTheirs
      <4>9. IsLone(e, OfGroup)
        BY <4>2, <4>8 DEF IsLone
      <4>10. /\ GroupResult \in Seq(Detected) /\ Members(GroupResult) \subseteq OfGroup
             /\ e \in Members(GroupResult)
        <5>1. \A x \in OfGroup : x = e \/ ~Overlaps(e, x)
          BY <4>9 DEF IsLone
        <5> QED BY <2>1, <3>1, <4>4, <4>7, <5>1, GroupResultIs
      <4>11. IsLone(e, Members(GroupResult))
        BY <4>9, <4>10 DEF IsLone
      <4>12. e \in Members(MergeDetections(GroupResult))
        BY <4>10, <4>11, LoneIsMerged
      <4>13. Positions(e) \subseteq Hidden(MergeDetections(GroupResult))
        BY <4>12 DEF Hidden, Members
      <4> QED BY <3>1, <4>13 DEF Visible, e
    <3> QED BY <3>2, <3>3
  <2> QED BY <2>2, <2>3
<1> QED BY <1>1, <1>2, CallIsWhole, PTL DEF LoneSpansAreHidden

-----------------------------------------------------------------------------
(* Merging                                                                 *)

\* Every round of the loop keeps the invariant.
THEOREM LoopSafe == LoopSpec => []LoopInv
  <1>1. LoopInit => LoopInv
    BY InputsAssumption DEF LoopInit, LoopInv, LoopTypeOK, InputIsSorted, ResultIsOrdered
  <1>2. LoopInv /\ [Step]_loopVars => LoopInv'
    <2> SUFFICES ASSUME LoopInv, [Step]_loopVars
                 PROVE  LoopInv'
      OBVIOUS
    <2> USE DEF LoopInv, LoopTypeOK, InputIsSorted, ResultIsOrdered
    <2>1. CASE Step
      <3> DEFINE d == input[next]
      <3>1. d \in Detections /\ next \in 1 .. Len(input)
        BY <2>1 DEF Step
      <3>2. LoopTypeOK'
        <4>1. MergeStep(result, d) \in Seq(Detections)
          BY <3>1, StepType
        <4> QED
          BY <2>1, <3>1, <4>1 DEF Step
      <3>3. ResultIsOrdered'
        <4>1. /\ \A k, l \in DOMAIN result' : k < l => result'[k].end <= result'[l].start
              /\ result'[Len(result')].start <= d.start
          <5> DEFINE ds == result
          <5>1. /\ \A x \in Detections : x.start \in Nat /\ x.end \in Nat /\ x.start < x.end
                /\ ds \in Seq(Detections) /\ \A k, l \in DOMAIN ds : k < l => ds[k].end <= ds[l].start
                /\ ds # <<>> => ds[Len(ds)].start <= d.start
            BY <2>1, DetectionsAssumption DEF Step
          <5>2. result' = MergeStep(ds, d)
            BY <2>1 DEF Step
          <5> HIDE DEF ds, d
          <5>3. LET new == MergeStep(ds, d)
                IN  /\ \A k, l \in DOMAIN new : k < l => new[k].end <= new[l].start
                    /\ new # <<>>
                    /\ new[Len(new)].start <= d.start
            BY ONLY <5>1, <3>1, StepOrdered
          <5> QED BY <5>2, <5>3
        <4>2. next' \in DOMAIN input' => d.start <= input'[next'].start
          BY <2>1, <3>1 DEF Step
        <4>3. next' \in DOMAIN input' =>
                 d.start \in Nat /\ input'[next'].start \in Nat
          BY <2>1, <3>1, DetectionsAssumption DEF Step
        <4>4. result' # <<>> => result'[Len(result')].start \in Nat
          BY <3>2, DetectionsAssumption
        <4> QED
          BY <4>1, <4>2, <4>3, <4>4
      <3> QED
        BY <2>1, <3>2, <3>3 DEF Step
    <2>2. CASE UNCHANGED loopVars
      BY <2>2 DEF loopVars
    <2> QED
      BY <2>1, <2>2 DEF Step
  <1> QED
    BY <1>1, <1>2, PTL DEF LoopSpec

\* VaultManager.assign accepts every list mergeDetections returns: it throws when
\* two spans overlap.
THEOREM MergedSpansAreDisjoint == LoopSpec => []ResultIsDisjoint
  <1>1. LoopInv => ResultIsDisjoint
    BY DetectionsAssumption
    DEF LoopInv, LoopTypeOK, ResultIsOrdered, ResultIsDisjoint, Disjoint, Overlaps
  <1> QED
    BY <1>1, LoopSafe, PTL

\* mergeDetections returns detections it was given.
THEOREM MergeInventsNothing == LoopSpec => []NothingInvented
  <1>1. LoopInit => NothingInvented
    BY DEF LoopInit, NothingInvented
  <1>2. LoopInv /\ NothingInvented /\ [Step]_loopVars => NothingInvented'
    <2> SUFFICES ASSUME LoopInv, NothingInvented, [Step]_loopVars
                 PROVE  NothingInvented'
      OBVIOUS
    <2> USE DEF NothingInvented
    <2>1. CASE Step
      <3>1. /\ input[next] \in Detections /\ next \in 1 .. Len(input) /\ next' = next + 1
            /\ input' = input /\ result' = MergeStep(result, input[next])
            /\ result \in Seq(Detections)
        BY <2>1 DEF Step, LoopInv, LoopTypeOK
      <3>2. \A k \in DOMAIN result' : result'[k] = input[next] \/ (k \in DOMAIN result /\ result'[k] = result[k])
        BY <3>1, StepElements
      <3> QED
        BY <3>1, <3>2
    <2>2. CASE UNCHANGED loopVars
      BY <2>2 DEF loopVars
    <2> QED
      BY <2>1, <2>2 DEF Step
  <1> QED
    BY <1>1, <1>2, LoopSafe, PTL DEF LoopSpec

\* No detection that stands alone is lost: what one backend alone saw is masked.
THEOREM LoneSpansAreKept == LoopSpec => []AloneIsKept
  <1>1. LoopInit => AloneIsKept
    BY DEF LoopInit, AloneIsKept
  <1>2. LoopInv /\ NothingInvented /\ AloneIsKept /\ [Step]_loopVars => AloneIsKept'
    <2> SUFFICES ASSUME LoopInv, NothingInvented, AloneIsKept, [Step]_loopVars
                 PROVE  AloneIsKept'
      OBVIOUS
    <2> USE DEF AloneIsKept
    <2>1. CASE Step
      <3>1. /\ input \in Seq(Detections) /\ next \in 1 .. Len(input) /\ next' = next + 1
            /\ input' = input /\ result' = MergeStep(result, input[next])
            /\ result \in Seq(Detections) /\ input[next] \in Detections
        BY <2>1 DEF Step, LoopInv, LoopTypeOK
      <3> DEFINE d == input[next]
      <3> SUFFICES ASSUME NEW n \in 1 .. next,
                          \A m \in DOMAIN input : m # n => ~Overlaps(input[n], input[m])
                   PROVE  \E k \in DOMAIN result' : result'[k] = input[n]
        BY <3>1
      <3>2. /\ d.start \in Nat /\ d.end \in Nat /\ d.start < d.end
            /\ \A k \in DOMAIN result : result[k].start \in Nat /\ result[k].end \in Nat
                                         /\ result[k].start < result[k].end
        BY <3>1, DetectionsAssumption
      <3>3. result # <<>> /\ ~Clear(result, d) => Overlaps(result[Len(result)], d)
        BY <3>1, <3>2 DEF Clear, Overlaps, LoopInv, ResultIsOrdered
      <3>4. CASE n = next
        <4>1. CASE Clear(result, d)
          BY <3>1, <3>4, <4>1, StepElements
        <4>2. CASE result # <<>> /\ ~Clear(result, d)
          <5>1. PICK m \in 1 .. (next - 1) : result[Len(result)] = input[m]
            BY <3>1, <4>2 DEF NothingInvented
          <5> QED
            BY <3>1, <3>2, <3>3, <3>4, <4>2, <5>1 DEF Overlaps
        <4> QED
          BY <4>1, <4>2 DEF Clear
      <3>5. CASE n # next
        <4>1. PICK k \in DOMAIN result : result[k] = input[n]
          BY <3>1, <3>5
        <4>2. ~Overlaps(result[k], d)
          BY <3>1, <3>5, <4>1
        <4>3. k = Len(result) => Clear(result, d)
          BY <3>1, <3>3, <4>2
        <4> QED
          BY <3>1, <4>1, <4>3, StepElements
      <3> QED
        BY <3>4, <3>5
    <2>2. CASE UNCHANGED loopVars
      BY <2>2 DEF loopVars
    <2> QED
      BY <2>1, <2>2 DEF Step
  <1> QED
    BY <1>1, <1>2, LoopSafe, MergeInventsNothing, PTL DEF LoopSpec

\* Two detections that meet each other and no third one.
Pair(n, m) ==
    /\ n < m /\ Overlaps(input[n], input[m])
    /\ \A o \in DOMAIN input \ {n, m} :
           ~Overlaps(input[o], input[n]) /\ ~Overlaps(input[o], input[m])

\* The loop has d among the spans kept.
IsKept(d) == \E k \in DOMAIN result : result[k] = d

\* The loop comes to the second of a pair with the first at the end of its list.
PairInv ==
    \A n, m \in DOMAIN input : Pair(n, m) =>
        /\ next = m => result # <<>> /\ result[Len(result)] = input[n]
        /\ next > m => /\ Beats(input[n], input[m]) => IsKept(input[n])
                       /\ Beats(input[m], input[n]) => IsKept(input[m])

\* The two of a pair are next to each other: what starts between them meets the first.
LEMMA PairsAreNeighbours ==
    ASSUME LoopInv, NEW n \in DOMAIN input, NEW m \in DOMAIN input, Pair(n, m)
    PROVE  m = n + 1
<1>1. /\ DOMAIN input = 1 .. Len(input) /\ Len(input) \in Nat
      /\ \A i \in DOMAIN input : /\ input[i].start \in Nat /\ input[i].end \in Nat
                                 /\ input[i].start < input[i].end
  BY DetectionsAssumption DEF LoopInv, LoopTypeOK
<1> SUFFICES ASSUME n + 1 < m PROVE FALSE
  BY <1>1 DEF Pair
<1>2. n + 1 \in DOMAIN input \ {n, m}
  BY <1>1
<1>3. input[n].start <= input[n + 1].start /\ input[n + 1].start <= input[m].start
  BY <1>1, <1>2 DEF LoopInv, InputIsSorted, Pair
<1>4. Overlaps(input[n + 1], input[n])
  BY <1>1, <1>2, <1>3 DEF Pair, Overlaps
<1> QED BY <1>2, <1>4 DEF Pair

\* A detection that overlaps none of those before it goes to the end of the list.
LEMMA ClearOfAll ==
    ASSUME LoopInv, NothingInvented, next \in DOMAIN input,
           \A o \in 1 .. (next - 1) : ~Overlaps(input[o], input[next])
    PROVE  Clear(result, input[next])
<1>1. /\ \A i \in DOMAIN input : input[i] \in Detections
      /\ \A k \in DOMAIN result : result[k] \in Detections
      /\ result \in Seq(Detections)
  BY DEF LoopInv, LoopTypeOK
<1> SUFFICES ASSUME result # <<>> PROVE input[next].start >= result[Len(result)].end
  BY DEF Clear
<1>2. Len(result) \in DOMAIN result
  BY <1>1
<1>3. PICK o \in 1 .. (next - 1) : result[Len(result)] = input[o]
  BY <1>2 DEF NothingInvented
<1>4. result[Len(result)].start <= input[next].start
  BY DEF LoopInv, ResultIsOrdered
<1>5. ~Overlaps(result[Len(result)], input[next])
  BY <1>3
<1> QED BY <1>1, <1>2, <1>4, <1>5, DetectionsAssumption DEF Overlaps

\* A detection that has been kept is kept on when it does not meet the next one.
LEMMA KeptOn ==
    ASSUME LoopInv, next \in DOMAIN input, NEW e, IsKept(e), ~Overlaps(input[next], e),
           result' = MergeStep(result, input[next])
    PROVE  IsKept(e)'
<1>1. result \in Seq(Detections) /\ input[next] \in Detections
  BY DEF LoopInv, LoopTypeOK
<1>2. PICK k \in DOMAIN result : result[k] = e
  BY DEF IsKept
<1>3. CASE k # Len(result)
  BY <1>1, <1>2, <1>3, StepElements DEF IsKept
<1>4. CASE k = Len(result)
  <2>1. result[k] \in Detections /\ result # <<>> /\ result[Len(result)].start <= input[next].start
    BY <1>1, <1>2, <1>4 DEF LoopInv, ResultIsOrdered
  <2>2. Clear(result, input[next])
    BY <1>1, <1>2, <1>4, <2>1, DetectionsAssumption DEF Clear, Overlaps
  <2> QED BY <1>1, <1>2, <2>2, StepElements DEF IsKept
<1> QED BY <1>3, <1>4

\* strategy.ts, "longer span wins": of two detections that meet only each other, the
\* longer is kept, of two equally long the surer, whatever else is in the text.
THEOREM PairsAreDecided == LoopSpec => []PairIsDecided
<1>1. LoopInit => PairInv
  <2> SUFFICES ASSUME LoopInit, NEW n \in DOMAIN input, NEW m \in DOMAIN input, Pair(n, m)
               PROVE  ~(next = m) /\ ~(next > m)
    BY DEF PairInv
  <2>1. DOMAIN input = 1 .. Len(input) /\ Len(input) \in Nat
    BY InputsAssumption DEF LoopInit
  <2> QED BY <2>1 DEF LoopInit, Pair
<1>2. ASSUME LoopInv, NothingInvented, PairInv, [Step]_loopVars PROVE PairInv'
  <2>1. CASE UNCHANGED loopVars
    BY <1>2, <2>1 DEF loopVars, PairInv, Pair, IsKept
  <2>2. CASE Step
    <3>1. /\ next \in DOMAIN input /\ next' = next + 1 /\ input' = input
          /\ result' = MergeStep(result, input[next])
          /\ DOMAIN input = 1 .. Len(input) /\ Len(input) \in Nat
          /\ result \in Seq(Detections) /\ result' \in Seq(Detections)
          /\ \A i \in DOMAIN input : input[i] \in Detections
      <4>1. /\ next \in DOMAIN input /\ next' = next + 1 /\ input' = input
            /\ result' = MergeStep(result, input[next])
            /\ DOMAIN input = 1 .. Len(input) /\ Len(input) \in Nat
            /\ result \in Seq(Detections)
            /\ \A i \in DOMAIN input : input[i] \in Detections
        BY <1>2, <2>2 DEF Step, LoopInv, LoopTypeOK
      <4>2. result' \in Seq(Detections)
        BY <4>1, StepType
      <4> QED BY <4>1, <4>2
    <3> SUFFICES ASSUME NEW n \in DOMAIN input, NEW m \in DOMAIN input, Pair(n, m)
                 PROVE  /\ next + 1 = m => result' # <<>> /\ result'[Len(result')] = input[n]
                        /\ next + 1 > m => /\ Beats(input[n], input[m]) => IsKept(input[n])'
                                           /\ Beats(input[m], input[n]) => IsKept(input[m])'
      BY <3>1 DEF PairInv, Pair, IsKept
    <3>2. m = n + 1
      BY <1>2, PairsAreNeighbours
    <3>3. CASE next = n
      <4>1. Clear(result, input[next])
        <5>1. \A o \in 1 .. (next - 1) : o \in DOMAIN input \ {n, m}
          BY <3>1, <3>2, <3>3
        <5> QED BY <1>2, <3>1, <3>3, <5>1, ClearOfAll DEF Pair
      <4>2. Len(result') \in DOMAIN result' /\ result'[Len(result')] = input[n]
        BY <3>1, <3>3, <4>1, StepElements
      <4> QED BY <3>1, <3>2, <3>3, <4>2
    <3>4. CASE next = m
      <4>1. result # <<>> /\ result[Len(result)] = input[n]
        BY <1>2, <3>4 DEF PairInv
      <4>2. ~Clear(result, input[m])
        BY <3>1, <4>1, DetectionsAssumption DEF Clear, Pair, Overlaps
      <4>3. Beats(input[n], input[m]) => ~Beats(input[m], input[n])
        <5> DEFINE d == input[n]  e == input[m]
        <5>1. /\ d.start \in Nat /\ d.end \in Nat /\ d.conf \in Nat
              /\ e.start \in Nat /\ e.end \in Nat /\ e.conf \in Nat
          BY <3>1, DetectionsAssumption
        <5> HIDE DEF d, e
        <5>2. Beats(d, e) => ~Beats(e, d)
          BY <5>1 DEF Beats, Width
        <5> QED BY <5>2 DEF d, e
      <4>4. result' = IF Beats(input[m], input[n]) THEN [result EXCEPT ![Len(result)] = input[m]]
                      ELSE result
        <5>1. result' = MergeStep(result, input[m])
          BY <3>1, <3>4
        <5>2. MergeStep(result, input[m]) = IF Beats(input[m], result[Len(result)])
                                            THEN [result EXCEPT ![Len(result)] = input[m]]
                                            ELSE result
          BY <4>2 DEF MergeStep
        <5> QED BY <4>1, <5>1, <5>2
      <4>5. Len(result) \in DOMAIN result
        BY <3>1, <4>1
      <4>6. ASSUME Beats(input[m], input[n]) PROVE IsKept(input[m])'
        <5>1. /\ Len(result) \in DOMAIN result'
              /\ result'[Len(result)] = input[m]
          BY <3>1, <4>4, <4>5, <4>6
        <5>2. input[m]' = input[m]
          BY <3>1
        <5> QED BY <5>1, <5>2 DEF IsKept
      <4>7. ASSUME Beats(input[n], input[m]) PROVE IsKept(input[n])'
        <5>1. result' = result
          BY <4>3, <4>4, <4>7
        <5>2. input[n]' = input[n]
          BY <3>1
        <5> QED BY <4>1, <4>5, <5>1, <5>2 DEF IsKept
      <4> QED BY <3>1, <3>4, <4>6, <4>7
    <3>5. CASE next > m
      <4>1. next \in DOMAIN input \ {n, m}
        BY <3>1, <3>2, <3>5
      <4>2. ~Overlaps(input[next], input[n]) /\ ~Overlaps(input[next], input[m])
        BY <4>1 DEF Pair
      <4>3. /\ Beats(input[n], input[m]) => IsKept(input[n])
            /\ Beats(input[m], input[n]) => IsKept(input[m])
        BY <1>2, <3>5 DEF PairInv
      <4>4. /\ IsKept(input[n]) => IsKept(input[n])'
            /\ IsKept(input[m]) => IsKept(input[m])'
        <5>1. ASSUME NEW i \in {n, m}, IsKept(input[i]) PROVE IsKept(input[i])'
          BY <1>2, <3>1, <4>2, <5>1, KeptOn DEF IsKept
        <5> QED BY <5>1
      <4> QED BY <3>1, <3>5, <4>3, <4>4
    <3>6. CASE next < n
      BY <3>1, <3>2, <3>6
    <3> QED BY <3>1, <3>2, <3>3, <3>4, <3>5, <3>6
  <2> QED BY <1>2, <2>1, <2>2
<1>3. ASSUME LoopInv, PairInv PROVE PairIsDecided
  <2> SUFFICES ASSUME next = Len(input) + 1, NEW n \in DOMAIN input, NEW m \in DOMAIN input,
                      n # m, Overlaps(input[n], input[m]),
                      \A o \in DOMAIN input \ {n, m} :
                          ~Overlaps(input[o], input[n]) /\ ~Overlaps(input[o], input[m]),
                      Beats(input[n], input[m])
               PROVE  IsKept(input[n])
    BY DEF PairIsDecided, IsKept
  <2>1. DOMAIN input = 1 .. Len(input) /\ Len(input) \in Nat
    BY <1>3 DEF LoopInv, LoopTypeOK
  <2>2. CASE n < m
    <3>1. Pair(n, m) /\ next > m
      BY <2>1, <2>2 DEF Pair
    <3> QED BY <1>3, <3>1 DEF PairInv
  <2>3. CASE m < n
    <3>1. Pair(m, n) /\ next > n
      BY <2>1, <2>3 DEF Pair, Overlaps
    <3> QED BY <1>3, <3>1 DEF PairInv
  <2> QED BY <2>1, <2>2, <2>3
<1> QED BY <1>1, <1>2, <1>3, LoopSafe, MergeInventsNothing, PTL DEF LoopSpec

-----------------------------------------------------------------------------
(* The client of a backend                                                 *)

\* How an attempt may end, and where a call may stand.
Outcomes == {"ok", "rejected", "unavailable", "lost", "broken"}

Places == {"idle", "tls", "fetch", "body", "answered", "failed"}

\* The calls the client has, each of the right form.
CallRecords ==
    [pc: Places, kind: {"detect", "health"}, tried: Seq(Outcomes), result: SUBSET Items]

CallsOK == call \in [Calls -> CallRecords]

\* The files of the client are numbered by their rotations.
DiskInv ==
    /\ disk \in [Files -> Nat] /\ rotations \in 0 .. MaxRotations
    /\ \A f \in Files : disk[f] <= rotations + 1

\* All that protects the requests to this endpoint.
Protects(m) == DOMAIN m = Needed /\ \A f \in Needed : m[f] > 0

\* The material is complete before it is used, and built once, by the client that needs it.
MaterialInv ==
    /\ tls \in [state: {"none", "importing", "ready", "failed"},
                material: [Needed -> Nat] \cup {NoMaterial}]
    /\ tls.state \in {"importing", "ready"} => Protects(tls.material)
    /\ client # "remote" => tls.state = "none"

\* What has been sent, and by which client.
SentInv ==
    /\ client = "refused" => requests = {}
    /\ client = "opf" => requests \subseteq {Request(NoMaterial)}
    /\ client = "remote" => requests \subseteq {Request(tls.material)}
    /\ client = "remote" /\ requests # {} => tls.state = "ready"

\* Where a call stands, by the attempts it has made.
AttemptInv ==
    \A c \in Calls :
        /\ call[c].pc # "idle" => client # "refused"
        /\ call[c].pc = "tls" => client = "remote" /\ call[c].tried = <<>>
        /\ call[c].pc = "fetch" =>
             /\ client = "remote" => tls.state = "ready"
             /\ Len(call[c].tried) < Attempts(c)
             /\ \A i \in DOMAIN call[c].tried : Transient(call[c].tried[i])

\* The invariant of the client.
HttpInv ==
    /\ endpoint \in Endpoints /\ client = Client(endpoint)
    /\ CallsOK /\ DiskInv /\ MaterialInv /\ SentInv /\ AttemptInv
    /\ RetriesAreRight /\ AnswersFit

\* A call is made of its fields, and fields of the right kind make one.
LEMMA RecordFields ==
    ASSUME NEW r \in CallRecords
    PROVE  /\ r = [pc |-> r.pc, kind |-> r.kind, tried |-> r.tried, result |-> r.result]
           /\ r.pc \in Places /\ r.kind \in {"detect", "health"}
           /\ r.tried \in Seq(Outcomes) /\ r.result \subseteq Items
  BY DEF CallRecords

LEMMA RecordOK ==
    ASSUME NEW pc \in Places, NEW kind \in {"detect", "health"}, NEW tried \in Seq(Outcomes),
           NEW kept \in SUBSET Items
    PROVE  [pc |-> pc, kind |-> kind, tried |-> tried, result |-> kept] \in CallRecords
  BY DEF CallRecords

\* What Append does.
LEMMA AppendFacts ==
    ASSUME NEW s \in Seq(Outcomes), NEW e \in Outcomes
    PROVE  LET t == Append(s, e) IN
           /\ t \in Seq(Outcomes) /\ Len(t) = Len(s) + 1 /\ Len(s) \in Nat
           /\ t # <<>> /\ t[Len(t)] = e /\ Last(t) = e
           /\ \A i \in DOMAIN t : i < Len(t) => i \in DOMAIN s /\ t[i] = s[i]
  BY DEF Last

\* An OPF client needs no files.
LEMMA OpfNeedsNothing ==
    ASSUME endpoint \in Endpoints, client = Client(endpoint), client = "opf"
    PROVE  Needed = {}
  BY DEF Client, SpeaksOpf, NeedsTls, Needed

\* One lemma for each step of the client: it keeps the invariant.
LEMMA ImportedKeeps ==
    ASSUME HttpInv, Imported
    PROVE  HttpInv'
<1> USE ClientAssumption DEF HttpInv, CallsOK, CallRecords, Places, Imported
<1>1. CallsOK'
  BY DEF CallsOK, Places
<1>2. DiskInv'
  BY DEF DiskInv
<1>3. MaterialInv'
  BY DEF MaterialInv, Protects, NoMaterial, Needed
<1>4. SentInv'
  BY DEF SentInv, MaterialInv, Request, Token
<1>5. AttemptInv'
  BY DEF AttemptInv, MaterialInv, CallsOK, Attempts
<1>6. RetriesAreRight'
  BY DEF RetriesAreRight, CallsOK, AttemptInv, Attempts, Last, Transient
<1>7. AnswersFit'
  BY DEF AnswersFit, CallsOK, Usable
<1>8. endpoint' = endpoint /\ client' = client
  OBVIOUS
<1> QED BY <1>1, <1>2, <1>3, <1>4, <1>5, <1>6, <1>7, <1>8

LEMMA RotateKeeps ==
    ASSUME HttpInv, NEW f \in Files, Rotate(f)
    PROVE  HttpInv'
<1> USE ClientAssumption DEF HttpInv, CallsOK, CallRecords, Places, Rotate
<1>1. CallsOK'
  BY DEF CallsOK, Places
<1>2. DiskInv'
  BY DEF DiskInv
<1>3. MaterialInv'
  BY DEF MaterialInv, Protects, NoMaterial, Needed
<1>4. SentInv'
  BY DEF SentInv, MaterialInv, Request, Token
<1>5. AttemptInv'
  BY DEF AttemptInv, MaterialInv, CallsOK, Attempts
<1>6. RetriesAreRight'
  BY DEF RetriesAreRight, CallsOK, AttemptInv, Attempts, Last, Transient
<1>7. AnswersFit'
  BY DEF AnswersFit, CallsOK, Usable
<1>8. endpoint' = endpoint /\ client' = client
  OBVIOUS
<1> QED BY <1>1, <1>2, <1>3, <1>4, <1>5, <1>6, <1>7, <1>8

LEMMA BeginKeeps ==
    ASSUME HttpInv, NEW c \in Calls, NEW kind \in {"detect", "health"}, Begin(c, kind)
    PROVE  HttpInv'
<1> USE ClientAssumption DEF HttpInv, CallsOK, CallRecords, Places, Begin, NoCall, Resolved, Built
<1>f. call[c] = [pc |-> call[c].pc, kind |-> call[c].kind,
                  tried |-> call[c].tried, result |-> call[c].result]
      /\ call[c].pc \in Places /\ call[c].kind \in {"detect", "health"}
      /\ call[c].tried \in Seq(Outcomes) /\ call[c].result \subseteq Items
  BY RecordFields
<1>0. /\ call'[c] = [pc |-> IF client = "opf" THEN "fetch" ELSE "tls", kind |-> kind,
                     tried |-> <<>>, result |-> {}]
      /\ \A d \in Calls \ {c} : call'[d] = call[d]
      /\ client # "refused"
  BY DEF NoCall
<1>1. CallsOK'
  <2>1. call'[c] \in CallRecords
    <3> DEFINE pc == IF client = "opf" THEN "fetch" ELSE "tls"
    <3>1. pc \in Places /\ <<>> \in Seq(Outcomes) /\ {} \in SUBSET Items
      OBVIOUS
    <3>2. call'[c] = [pc |-> pc, kind |-> kind, tried |-> <<>>, result |-> {}]
      BY <1>0
    <3> HIDE DEF pc, HttpInv, CallsOK, CallRecords, Places, Begin, NoCall, Resolved, Built
    <3> QED BY <3>1, <3>2, RecordOK
  <2> QED BY <1>0, <2>1
<1>2. DiskInv'
  BY DEF DiskInv
<1>3. MaterialInv'
  <2>1. CASE client = "opf" \/ tls.state # "none"
    BY <2>1 DEF MaterialInv, Protects, NoMaterial, Needed
  <2>2. CASE client # "opf" /\ tls.state = "none"
    <3>1. Needed \subseteq Files /\ Needed' = Needed
      BY DEF Needed, Files
    <3>2. client = "remote"
      BY <2>2 DEF Client
    <3>3. CASE \E f \in Needed : disk[f] = 0
      <4>1. tls' = [state |-> "failed", material |-> NoMaterial]
        BY <2>2, <3>3
      <4> QED BY <3>1, <3>2, <4>1 DEF MaterialInv
    <3>4. CASE ~\E f \in Needed : disk[f] = 0
      <4> DEFINE m == [f \in Needed |-> disk[f]]
      <4>1. m \in [Needed -> Nat] /\ Protects(m)
        BY <3>1, <3>4 DEF DiskInv, Protects
      <4>2. tls'.material = m /\ tls'.state \in {"importing", "ready"}
            /\ tls' = [state |-> tls'.state, material |-> m]
        BY <2>2, <3>4
      <4> HIDE DEF m
      <4> QED BY <3>1, <3>2, <4>1, <4>2 DEF MaterialInv, Protects
    <3> QED BY <3>3, <3>4
  <2> QED BY <2>1, <2>2
<1>4. SentInv'
  BY DEF SentInv, MaterialInv, Request, Token
<1>5. AttemptInv'
  <2>1. \A d \in Calls \ {c} : Attempts(d)' = Attempts(d)
    BY <1>0 DEF Attempts
  <2>2. tls.state = "ready" => tls'.state = "ready"
    OBVIOUS
  <2>3. client = "opf" => Attempts(c)' = 1
    BY DEF Attempts
  <2>4. client \in {"opf", "remote", "refused"}
    BY DEF Client
  <2> QED BY <1>0, <2>1, <2>2, <2>3, <2>4 DEF AttemptInv
<1>6. RetriesAreRight'
  BY DEF RetriesAreRight, CallsOK, AttemptInv, Attempts, Last, Transient
<1>7. AnswersFit'
  BY DEF AnswersFit, CallsOK, Usable
<1>8. endpoint' = endpoint /\ client' = client
  OBVIOUS
<1> QED BY <1>1, <1>2, <1>3, <1>4, <1>5, <1>6, <1>7, <1>8

LEMMA ResumeKeeps ==
    ASSUME HttpInv, NEW c \in Calls, Resume(c)
    PROVE  HttpInv'
<1> USE ClientAssumption DEF HttpInv, CallsOK, CallRecords, Places, Resume
<1>f. call[c] = [pc |-> call[c].pc, kind |-> call[c].kind,
                  tried |-> call[c].tried, result |-> call[c].result]
      /\ call[c].pc \in Places /\ call[c].kind \in {"detect", "health"}
      /\ call[c].tried \in Seq(Outcomes) /\ call[c].result \subseteq Items
  BY RecordFields
<1>0. /\ call[c].pc = "tls" /\ call'[c].kind = call[c].kind /\ call'[c].tried = call[c].tried
      /\ \A d \in Calls \ {c} : call'[d] = call[d]
      /\ call'[c].pc \in {"fetch", "failed"} /\ (call'[c].pc = "fetch" => tls.state = "ready")
      /\ \A d \in Calls : Attempts(d)' = Attempts(d)
  <2>1. CASE tls.state = "ready" /\ call' = [call EXCEPT ![c].pc = "fetch"]
    BY <2>1 DEF Attempts
  <2>2. CASE tls.state = "failed" /\ call' = [call EXCEPT ![c].pc = "failed"]
    BY <2>2 DEF Attempts
  <2> QED BY <2>1, <2>2
<1>1. CallsOK'
  <2>1. PICK pc \in Places :
          call'[c] = [pc |-> pc, kind |-> call[c].kind, tried |-> call[c].tried, result |-> call[c].result]
    <3>1. CASE tls.state = "ready" /\ call' = [call EXCEPT ![c].pc = "fetch"]
      BY <1>f, <3>1
    <3>2. CASE tls.state = "failed" /\ call' = [call EXCEPT ![c].pc = "failed"]
      BY <1>f, <3>2
    <3> QED BY <3>1, <3>2
  <2>2. call'[c] \in CallRecords
    <3> HIDE DEF CallRecords
    <3> QED BY <1>f, <2>1, RecordOK
  <2>3. call' = [call EXCEPT ![c] = call'[c]]
    OBVIOUS
  <2> HIDE DEF CallRecords
  <2> QED BY <2>2, <2>3
<1>2. DiskInv'
  BY DEF DiskInv
<1>3. MaterialInv'
  BY DEF MaterialInv, Protects, NoMaterial, Needed
<1>4. SentInv'
  BY DEF SentInv, MaterialInv, Request, Token
<1>5. AttemptInv'
  <2>1. Len(call[c].tried) < Attempts(c) /\ call[c].tried = <<>>
    <3>1. call[c].tried = <<>> /\ endpoint.retries \in Nat
      BY <1>0 DEF AttemptInv
    <3> QED BY <3>1 DEF Attempts
  <2>2. client # "refused"
    BY <1>0 DEF AttemptInv
  <2>3. UNCHANGED <<client, tls>> /\ AttemptInv
    OBVIOUS
  <2>4. /\ call'[c].pc # "tls"
        /\ call'[c].pc = "fetch" =>
             /\ client = "remote" => tls.state = "ready"
             /\ Len(call'[c].tried) < Attempts(c)'
             /\ \A i \in DOMAIN call'[c].tried : Transient(call'[c].tried[i])
    BY <1>0, <2>1
  <2> HIDE DEF Resume, HttpInv, CallsOK, CallRecords, Places
  <2> QED BY <1>0, <2>2, <2>3, <2>4 DEF AttemptInv
<1>6. RetriesAreRight'
  <2>1. call'[c].tried = <<>>
    BY <1>0 DEF AttemptInv
  <2>2. \A d \in Calls \ {c} : call'[d] = call[d] /\ Attempts(d)' = Attempts(d)
    BY <1>0
  <2>3. Len(<<>>) <= Attempts(c)'
    BY DEF Attempts
  <2> QED BY <1>0, <2>1, <2>2, <2>3 DEF RetriesAreRight
<1>7. AnswersFit'
  BY DEF AnswersFit, CallsOK, Usable
<1>8. endpoint' = endpoint /\ client' = client
  OBVIOUS
<1> QED BY <1>1, <1>2, <1>3, <1>4, <1>5, <1>6, <1>7, <1>8

LEMMA SettleKeeps ==
    ASSUME HttpInv, NEW c \in Calls, NEW answer \in Outcomes, call[c].pc = "fetch", Settle(c, answer), UNCHANGED <<endpoint, client, disk, rotations, tls>>
    PROVE  HttpInv'
<1> USE ClientAssumption DEF HttpInv, CallsOK, CallRecords, Places, Settle, Outcomes
<1>f. call[c] = [pc |-> call[c].pc, kind |-> call[c].kind,
                  tried |-> call[c].tried, result |-> call[c].result]
      /\ call[c].pc \in Places /\ call[c].kind \in {"detect", "health"}
      /\ call[c].tried \in Seq(Outcomes) /\ call[c].result \subseteq Items
  BY RecordFields
<1> DEFINE tried == Append(call[c].tried, answer)
<1>0. /\ call'[c].kind = call[c].kind /\ call'[c].result = call[c].result
      /\ call'[c].tried = tried
      /\ \A d \in Calls \ {c} : call'[d] = call[d]
      /\ \/ /\ Transient(answer) /\ Len(tried) < Attempts(c)
            /\ call'[c].pc = "fetch" /\ requests' = requests \cup {Request(tls.material)}
         \/ /\ ~(Transient(answer) /\ Len(tried) < Attempts(c))
            /\ call'[c].pc = IF answer = "ok" THEN "body" ELSE "failed"
            /\ UNCHANGED requests
  OBVIOUS
<1>a. /\ tried \in Seq(Outcomes) /\ Len(tried) = Len(call[c].tried) + 1
      /\ tried # <<>> /\ tried[Len(tried)] = answer /\ Last(tried) = answer
      /\ \A i \in DOMAIN tried : i < Len(tried) => i \in DOMAIN call[c].tried /\ tried[i] = call[c].tried[i]
      /\ Len(call[c].tried) \in Nat
  BY <1>f, AppendFacts
<1>b. /\ Len(call[c].tried) < Attempts(c) /\ client # "refused"
      /\ client = "remote" => tls.state = "ready"
      /\ \A i \in DOMAIN call[c].tried : Transient(call[c].tried[i])
  BY DEF AttemptInv
<1>c. /\ \A d \in Calls : Attempts(d)' = Attempts(d)
      /\ Attempts(c) \in Nat
  <2>1. \A d \in Calls : call'[d].kind = call[d].kind
    BY <1>0
  <2> QED BY <2>1 DEF Attempts
<1> HIDE DEF tried, Settle
<1>1. CallsOK'
  <2>1. call' \in [Calls -> CallRecords]
    <3>1. PICK pc \in Places :
            call'[c] = [pc |-> pc, kind |-> call[c].kind, tried |-> tried, result |-> call[c].result]
      BY <1>0, <1>a, <1>f DEF Settle
    <3>2. call'[c] \in CallRecords
      <4> HIDE DEF CallRecords
      <4> QED BY <1>a, <1>f, <3>1, RecordOK
    <3>3. call' = [call EXCEPT ![c] = call'[c]]
      BY <1>a, <1>f DEF Settle
    <3> HIDE DEF CallRecords
    <3> QED BY <3>2, <3>3
  <2> QED BY <2>1
<1>2. DiskInv'
  BY DEF DiskInv
<1>3. MaterialInv'
  BY DEF MaterialInv, Protects, NoMaterial, Needed
<1>4. SentInv'
  <2>1. client = "opf" => requests' = requests
    BY <1>0, <1>a, <1>b DEF Attempts
  <2> QED BY <1>0, <1>b, <2>1 DEF SentInv, Request, Token
<1>5. AttemptInv'
  <2>1. call'[c].pc = "fetch" => /\ Len(call'[c].tried) < Attempts(c)
                                 /\ \A i \in DOMAIN call'[c].tried : Transient(call'[c].tried[i])
    <3> SUFFICES ASSUME call'[c].pc = "fetch"
                 PROVE  Len(tried) < Attempts(c) /\ \A i \in DOMAIN tried : Transient(tried[i])
      BY <1>0
    <3>1. Transient(answer) /\ Len(tried) < Attempts(c)
      BY <1>0
    <3>2. DOMAIN tried = 1 .. Len(tried)
      BY <1>a
    <3> QED BY <1>a, <1>b, <3>1, <3>2
  <2>2. call'[c].pc \in {"fetch", "body", "failed"}
    BY <1>0
  <2> QED BY <1>0, <1>b, <1>c, <2>1, <2>2 DEF AttemptInv
<1>6. RetriesAreRight'
  <2>1. /\ Len(tried) <= Attempts(c)
        /\ \A i \in DOMAIN tried : i < Len(tried) => tried[i] \in {"unavailable", "lost"}
        /\ call'[c].pc \in {"body", "answered"} => Last(tried) = "ok"
        /\ (call'[c].pc = "failed" /\ Last(tried) \in {"unavailable", "lost"}) => Len(tried) = Attempts(c)
    BY <1>0, <1>a, <1>b, <1>c DEF Transient
  <2> QED BY <1>0, <1>c, <2>1 DEF RetriesAreRight
<1>7. AnswersFit'
  BY <1>0 DEF AnswersFit
<1>8. endpoint' = endpoint /\ client' = client
  OBVIOUS
<1> QED BY <1>1, <1>2, <1>3, <1>4, <1>5, <1>6, <1>7, <1>8

LEMMA BodyKeeps ==
    ASSUME HttpInv, NEW c \in Calls, Body(c)
    PROVE  HttpInv'
<1> USE ClientAssumption DEF HttpInv, CallsOK, CallRecords, Places, Body
<1>f. call[c] = [pc |-> call[c].pc, kind |-> call[c].kind,
                  tried |-> call[c].tried, result |-> call[c].result]
      /\ call[c].pc \in Places /\ call[c].kind \in {"detect", "health"}
      /\ call[c].tried \in Seq(Outcomes) /\ call[c].result \subseteq Items
  BY RecordFields
<1>0. /\ call[c].pc = "body" /\ call'[c].kind = call[c].kind /\ call'[c].tried = call[c].tried
      /\ call'[c].pc \in {"answered", "failed"}
      /\ \A d \in Calls \ {c} : call'[d] = call[d]
      /\ UNCHANGED <<endpoint, client, disk, rotations, tls, requests>>
  BY <1>f
<1>b. \A d \in Calls : Attempts(d)' = Attempts(d)
  BY <1>0 DEF Attempts
<1>a. /\ call' = [call EXCEPT ![c] = call'[c]]
      /\ call'[c] = [pc |-> call'[c].pc, kind |-> call[c].kind, tried |-> call[c].tried,
                     result |-> call'[c].result]
      /\ \/ call'[c].result = call[c].result
         \/ \E items \in SUBSET Items : call'[c].result = Parsed(items)
  BY <1>f
<1> HIDE DEF Body
<1>1. CallsOK'
  <2>1. call'[c].result \subseteq Items
    BY <1>a, <1>f DEF Parsed
  <2>2. call'[c] \in CallRecords
    <3>1. call'[c].pc \in Places
      BY <1>0
    <3> HIDE DEF CallRecords
    <3> QED BY <1>a, <1>f, <2>1, <3>1, RecordOK
  <2> HIDE DEF CallRecords
  <2> QED BY <1>a, <2>2
<1>2. DiskInv'
  BY <1>0 DEF DiskInv
<1>3. MaterialInv'
  BY <1>0 DEF MaterialInv, Protects, NoMaterial, Needed
<1>4. SentInv'
  BY <1>0 DEF SentInv, MaterialInv, Request, Token
<1>5. AttemptInv'
  BY <1>0, <1>b DEF AttemptInv
<1>6. RetriesAreRight'
  <2>1. Last(call[c].tried) = "ok"
    BY <1>0 DEF RetriesAreRight
  <2> QED BY <1>0, <1>b, <2>1 DEF RetriesAreRight
<1>7. AnswersFit'
  BY <1>0, <1>a DEF AnswersFit, Usable, Parsed
<1>8. endpoint' = endpoint /\ client' = client
  BY <1>0
<1> QED BY <1>1, <1>2, <1>3, <1>4, <1>5, <1>6, <1>7, <1>8

LEMMA ReturnKeeps ==
    ASSUME HttpInv, NEW c \in Calls, Return(c)
    PROVE  HttpInv'
<1> USE ClientAssumption DEF HttpInv, CallsOK, CallRecords, Places, Return, NoCall
<1>f. call[c] = [pc |-> call[c].pc, kind |-> call[c].kind,
                  tried |-> call[c].tried, result |-> call[c].result]
      /\ call[c].pc \in Places /\ call[c].kind \in {"detect", "health"}
      /\ call[c].tried \in Seq(Outcomes) /\ call[c].result \subseteq Items
  BY RecordFields
<1>1. CallsOK'
  BY DEF CallsOK, Places
<1>2. DiskInv'
  BY DEF DiskInv
<1>3. MaterialInv'
  BY DEF MaterialInv, Protects, NoMaterial, Needed
<1>4. SentInv'
  BY DEF SentInv, MaterialInv, Request, Token
<1>5. AttemptInv'
  BY DEF AttemptInv, MaterialInv, CallsOK, Attempts
<1>6. RetriesAreRight'
  BY DEF RetriesAreRight, CallsOK, AttemptInv, Attempts, Last, Transient
<1>7. AnswersFit'
  BY DEF AnswersFit, CallsOK, Usable
<1>8. endpoint' = endpoint /\ client' = client
  OBVIOUS
<1> QED BY <1>1, <1>2, <1>3, <1>4, <1>5, <1>6, <1>7, <1>8

\* The client starts in the invariant and never leaves it.
LEMMA HttpInit == ClientInit => HttpInv
<1> SUFFICES ASSUME ClientInit PROVE HttpInv
  OBVIOUS
<1>1. CallsOK
  BY DEF ClientInit, NoCall, CallsOK, CallRecords, Places
<1>2. DiskInv
  BY ClientAssumption DEF ClientInit, DiskInv
<1>3. MaterialInv /\ SentInv
  BY DEF ClientInit, MaterialInv, SentInv
<1>4. AttemptInv
  BY DEF ClientInit, NoCall, AttemptInv
<1>5. RetriesAreRight
  <2>1. \A c \in Calls : Attempts(c) \in Nat
    BY ClientAssumption DEF ClientInit, Attempts
  <2> QED BY <2>1 DEF ClientInit, NoCall, RetriesAreRight
<1>6. AnswersFit
  BY DEF ClientInit, NoCall, AnswersFit
<1> QED BY <1>1, <1>2, <1>3, <1>4, <1>5, <1>6 DEF HttpInv, ClientInit

LEMMA HttpStep == HttpInv /\ [ClientNext]_clientVars => HttpInv'
<1> SUFFICES ASSUME HttpInv, [ClientNext]_clientVars PROVE HttpInv'
  OBVIOUS
<1>1. CASE Imported
  BY <1>1, ImportedKeeps
<1>2. ASSUME NEW f \in Files, Rotate(f) PROVE HttpInv'
  BY <1>2, RotateKeeps
<1>3. ASSUME NEW c \in Calls, NEW kind \in {"detect", "health"}, Begin(c, kind) PROVE HttpInv'
  BY <1>3, BeginKeeps
<1>4. ASSUME NEW c \in Calls, Fetched(c) \/ TimesOut(c) PROVE HttpInv'
  BY <1>4, SettleKeeps DEF Fetched, TimesOut, Outcomes
<1>5. ASSUME NEW c \in Calls, Resume(c) \/ Body(c) \/ Return(c) PROVE HttpInv'
  BY <1>5, ResumeKeeps, BodyKeeps, ReturnKeeps
<1>6. CASE UNCHANGED clientVars
  BY <1>6 DEF clientVars, HttpInv, CallsOK, DiskInv, MaterialInv, Protects, Needed, SentInv,
     Request, Token, AttemptInv, Attempts, RetriesAreRight, AnswersFit
<1> QED BY <1>1, <1>2, <1>3, <1>4, <1>5, <1>6 DEF ClientNext

\* The client has all its material before the first request, and makes the attempts it
\* should, whatever the network does and whoever replaces its files.
THEOREM ClientStaysWhole == ClientSpec => []HttpInv
  BY HttpInit, HttpStep, PTL DEF ClientSpec

\* remote-http.ts, opf-http.ts, tls.ts: no request of the client goes out less protected
\* than configured (but to an OPF endpoint that asks for a token and names none), or
\* differently from another; it retries what is passing and nothing
\* else; and it hands on only detections that fit the text.
THEOREM ClientIsSafe == ClientSpec => []ClientInv
<1>1. ASSUME HttpInv PROVE ClientInv
  <2>1. ClientTypeOK
    <3>1. \A f \in Files : disk[f] \in 0 .. MaxRotations + 1
      BY <1>1, ClientAssumption DEF HttpInv, DiskInv
    <3>2. client \in {"opf", "remote", "refused"}
      BY <1>1 DEF HttpInv, Client
    <3>3. \A c \in Calls : call[c].pc \in {"idle", "tls", "fetch", "body", "answered", "failed"}
      BY <1>1 DEF HttpInv, CallsOK, CallRecords, Places
    <3> QED BY <1>1, <3>1, <3>2, <3>3 DEF HttpInv, DiskInv, MaterialInv, ClientTypeOK
  <2>2. RequestsAreProtected
    <3>1. ASSUME client # "refused", TokenDue PROVE Token = endpoint.auth
      <4>1. endpoint \in Endpoints /\ client = Client(endpoint)
        BY <1>1 DEF HttpInv
      <4>2. endpoint.credentials \in {"unnamed", "missing", "there"}
        BY <4>1, CredentialAssumption
      <4>3. endpoint.credentials = "there"
        <5>1. CASE SpeaksOpf(endpoint)
          <6>1. endpoint.auth \notin {"api_key", "mtls"}
            BY <5>1 DEF SpeaksOpf
          <6> QED BY <3>1, <4>1, <4>2, <5>1, <6>1 DEF Client, TokenDue
        <5>2. CASE ~SpeaksOpf(endpoint)
          BY <3>1, <4>1, <4>2, <5>2 DEF Client, TokenDue
        <5> QED BY <5>1, <5>2
      <4> QED BY <3>1, <4>3 DEF TokenDue, Token
    <3>2. CASE client = "opf"
      <4>1. \A m \in requests : m = Request(NoMaterial)
        BY <1>1, <3>2 DEF HttpInv, SentInv
      <4>2. Needed = {}
        BY <1>1, <3>2, OpfNeedsNothing DEF HttpInv
      <4> QED BY <3>1, <3>2, <4>1, <4>2 DEF RequestsAreProtected, NoMaterial, Request
    <3>3. CASE client = "remote"
      <4>1. \A m \in requests : m = Request(tls.material) /\ Protects(tls.material)
        BY <1>1, <3>3 DEF HttpInv, SentInv, MaterialInv
      <4> QED BY <3>1, <3>3, <4>1 DEF RequestsAreProtected, Request, Protects
    <3>4. CASE client = "refused"
      BY <1>1, <3>4 DEF HttpInv, SentInv, RequestsAreProtected
    <3> QED BY <1>1, <3>2, <3>3, <3>4 DEF HttpInv, Client
  <2> QED BY <1>1, <2>1, <2>2 DEF HttpInv, ClientInv
<1> QED BY <1>1, ClientStaysWhole, PTL
=============================================================================
