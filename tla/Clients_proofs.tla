--------------------------- MODULE Clients_proofs ---------------------------
(***************************************************************************)
(* What leaves the client, and what an installer leaves in the settings of *)
(* its hosts.  The plugin of OpenCode, loaded as one module or as two, for *)
(* any number of requests at once and any conversation; the hook of one    *)
(* prompt, for any personal data in it; and any number of installers at    *)
(* the same time, over settings of any length.                             *)
(***************************************************************************)
EXTENDS MCClients, WellFoundedInduction, SequenceTheorems, TLAPS

-----------------------------------------------------------------------------
(* Walks over a sequence.  What a recursive function makes of one is proved *)
(* for every length by the least place where it would fail.                 *)

\* Two sequences with the same members in the same places are one.
LEMMA SameSeq ==
    ASSUME NEW S, NEW s \in Seq(S), NEW t \in Seq(S), Len(s) = Len(t), \A i \in 1 .. Len(s) : s[i] = t[i]
    PROVE  s = t
OBVIOUS

\* A set of numbers that has 0, and n + 1 with every n in it, has them all:
\* the least number outside it cannot be.
LEMMA SetInduction ==
    ASSUME NEW S, 0 \in S, \A n \in Nat : n \in S => n + 1 \in S
    PROVE  Nat \subseteq S
<1> SUFFICES ASSUME Nat \ S # {} PROVE FALSE
  OBVIOUS
<1>1. IsWellFoundedOn(OpToRel(<, Nat), Nat)
  BY NatLessThanWellFounded
<1>2. PICK x \in Nat \ S : \A y \in Nat \ S : ~(<<y, x>> \in OpToRel(<, Nat))
  <2> DEFINE T == Nat \ S
             R == OpToRel(<, Nat)
  <2>1. T \subseteq Nat /\ T # {} /\ IsWellFoundedOn(R, Nat)
    BY <1>1
  <2> HIDE DEF T, R
  <2>2. \E x \in T : \A y \in T : ~(<<y, x>> \in R)
    BY <2>1, WFMin
  <2> QED BY <2>2 DEF T, R
<1>3. x # 0 /\ x - 1 \in Nat /\ (x - 1) + 1 = x /\ x - 1 < x
  OBVIOUS
<1>4. x - 1 \notin S
  BY <1>3
<1>5. <<x - 1, x>> \in OpToRel(<, Nat)
  BY <1>3 DEF OpToRel
<1> QED BY <1>2, <1>3, <1>4, <1>5

\* f is what step makes of base at the places 1 .. n, one after the other.
IsWalk(f, base, n, step) == f[0] = base /\ \A i \in 1 .. n : f[i] = step[<<i, f[i - 1]>>]

\* A walk over 1 .. n exists.
LEMMA Walk ==
    ASSUME NEW S, NEW base \in S, NEW n \in Nat, NEW step \in [(1 .. n) \X S -> S]
    PROVE  \E f \in [0 .. n -> S] : IsWalk(f, base, n, step)
<1> DEFINE Good(k, f) == f[0] = base /\ \A i \in 1 .. k : f[i] = step[<<i, f[i - 1]>>]
           T == {k \in Nat : k <= n => \E f \in [0 .. k -> S] : Good(k, f)}
<1>1. 0 \in T
  <2> DEFINE f == [i \in 0 .. 0 |-> base]
  <2>1. f \in [0 .. 0 -> S] /\ Good(0, f)
    OBVIOUS
  <2> QED BY <2>1
<1>2. ASSUME NEW k \in Nat, k \in T PROVE k + 1 \in T
  <2> SUFFICES ASSUME k + 1 <= n PROVE \E f \in [0 .. k + 1 -> S] : Good(k + 1, f)
    OBVIOUS
  <2>1. PICK g \in [0 .. k -> S] : Good(k, g)
    BY <1>2
  <2> DEFINE f == [i \in 0 .. k + 1 |-> IF i <= k THEN g[i] ELSE step[<<k + 1, g[k]>>]]
  <2>2. step[<<k + 1, g[k]>>] \in S
    <3>1. <<k + 1, g[k]>> \in (1 .. n) \X S
      BY <2>1
    <3> QED BY <3>1
  <2>3. f \in [0 .. k + 1 -> S]
    BY <2>1, <2>2
  <2>4. Good(k + 1, f)
    <3>1. f[0] = base
      BY <2>1
    <3>2. ASSUME NEW i \in 1 .. k + 1 PROVE f[i] = step[<<i, f[i - 1]>>]
      <4>1. CASE i = k + 1
        <5>1. i - 1 = k /\ ~(i <= k) /\ k \in 0 .. k + 1 /\ i \in 0 .. k + 1
          BY <4>1
        <5>2. f[i - 1] = g[k] /\ f[i] = step[<<k + 1, g[k]>>]
          BY <5>1
        <5> QED BY <5>2, <4>1
      <4>2. CASE i \in 1 .. k
        BY <4>2, <2>1
      <4> QED BY <4>1, <4>2
    <3> QED BY <3>1, <3>2
  <2> QED BY <2>3, <2>4
<1> HIDE DEF T
<1>3. n \in T
  BY <1>1, <1>2, SetInduction
<1> QED BY <1>3 DEF T, IsWalk

-----------------------------------------------------------------------------
\* The walk of Picked, as a function on the prefixes.
PickedTo(s, K) ==
    CHOOSE prefix : prefix = [n \in 0 .. Len(s) |->
            IF n = 0 THEN <<>>
            ELSE IF n \in K THEN Append(prefix[n - 1], s[n]) ELSE prefix[n - 1]]

\* Picked is the walk of PickedTo, taken to the end.
LEMMA PickedIsLast == \A s, K : Picked(s, K) = PickedTo(s, K)[Len(s)]
BY DEF Picked, PickedTo

\* The recursive function is what its body says: there is one, by Walk.
LEMMA PickedToWalk ==
    ASSUME NEW S, NEW s \in Seq(S), NEW K
    PROVE  /\ PickedTo(s, K)[0] = <<>>
           /\ \A n \in 1 .. Len(s) :
                  PickedTo(s, K)[n] = IF n \in K THEN Append(PickedTo(s, K)[n - 1], s[n])
                                      ELSE PickedTo(s, K)[n - 1]
           /\ \A n \in 0 .. Len(s) : PickedTo(s, K)[n] \in Seq(S)
<1> DEFINE P(f) == f = [n \in 0 .. Len(s) |->
                IF n = 0 THEN <<>> ELSE IF n \in K THEN Append(f[n - 1], s[n]) ELSE f[n - 1]]
           F == CHOOSE f : P(f)
           step == [x \in (1 .. Len(s)) \X Seq(S) |->
                        IF x[1] \in K THEN Append(x[2], s[x[1]]) ELSE x[2]]
<1>1. step \in [(1 .. Len(s)) \X Seq(S) -> Seq(S)]
  <2> SUFFICES ASSUME NEW x \in (1 .. Len(s)) \X Seq(S)
               PROVE  (IF x[1] \in K THEN Append(x[2], s[x[1]]) ELSE x[2]) \in Seq(S)
    OBVIOUS
  <2>1. x[1] \in 1 .. Len(s) /\ x[2] \in Seq(S) /\ s[x[1]] \in S
    OBVIOUS
  <2> QED BY <2>1
<1>2. PICK g \in [0 .. Len(s) -> Seq(S)] :
          g[0] = <<>> /\ \A i \in 1 .. Len(s) : g[i] = step[<<i, g[i - 1]>>]
  <2> DEFINE Q == Seq(S)
             m == Len(s)
             e == <<>>
             st == step
  <2>1. e \in Q /\ m \in Nat /\ st \in [(1 .. m) \X Q -> Q]
    BY <1>1
  <2> HIDE DEF step, P, F, Q, m, e, st
  <2>2. \E g \in [0 .. m -> Q] : IsWalk(g, e, m, st)
    BY ONLY <2>1, Walk
  <2> QED BY <2>2 DEF Q, m, e, st, IsWalk
<1>3. \A i \in 1 .. Len(s) : g[i] = IF i \in K THEN Append(g[i - 1], s[i]) ELSE g[i - 1]
  <2> SUFFICES ASSUME NEW i \in 1 .. Len(s)
               PROVE  g[i] = IF i \in K THEN Append(g[i - 1], s[i]) ELSE g[i - 1]
    OBVIOUS
  <2>1. i - 1 \in 0 .. Len(s)
    OBVIOUS
  <2>2. g[i - 1] \in Seq(S)
    BY <2>1
  <2>3. <<i, g[i - 1]>> \in (1 .. Len(s)) \X Seq(S)
    BY <2>2
  <2>4. step[<<i, g[i - 1]>>] = IF i \in K THEN Append(g[i - 1], s[i]) ELSE g[i - 1]
    BY <2>3
  <2> HIDE DEF step
  <2> QED BY <2>4, <1>2
<1>4. P(g)
  <2>1. \A n \in 0 .. Len(s) : g[n] = IF n = 0 THEN <<>> ELSE IF n \in K THEN Append(g[n - 1], s[n]) ELSE g[n - 1]
    <3> HIDE DEF step, F, P
    <3> SUFFICES ASSUME NEW n \in 0 .. Len(s)
                 PROVE  g[n] = IF n = 0 THEN <<>>
                               ELSE IF n \in K THEN Append(g[n - 1], s[n]) ELSE g[n - 1]
      OBVIOUS
    <3>1. CASE n = 0
      BY <3>1, <1>2
    <3>2. CASE n # 0
      <4>1. n \in 1 .. Len(s)
        BY <3>2
      <4> QED BY <4>1, <3>2, <1>3
    <3> QED BY <3>1, <3>2
  <2> HIDE DEF step, F
  <2> QED BY <2>1, <1>2
<1> HIDE DEF P, F, step
<1>5. P(F)
  BY <1>4 DEF F
<1>6. F = PickedTo(s, K)
  BY DEF F, P, PickedTo
<1>7. F = [n \in 0 .. Len(s) |->
              IF n = 0 THEN <<>> ELSE IF n \in K THEN Append(F[n - 1], s[n]) ELSE F[n - 1]]
  BY <1>5 DEF P
<1>8. \A n \in 0 .. Len(s) :
          F[n] = IF n = 0 THEN <<>> ELSE IF n \in K THEN Append(F[n - 1], s[n]) ELSE F[n - 1]
  BY <1>7
<1>9. F[0] = <<>>
  BY <1>8
<1>10. ASSUME NEW n \in 1 .. Len(s)
       PROVE  F[n] = IF n \in K THEN Append(F[n - 1], s[n]) ELSE F[n - 1]
  BY <1>8
<1>11. \A n \in Nat : n <= Len(s) => F[n] \in Seq(S)
  <2> DEFINE T == {n \in Nat : n <= Len(s) => F[n] \in Seq(S)}
  <2>1. 0 \in T
    <3>1. F[0] \in Seq(S)
      BY <1>9
    <3> QED BY <3>1
  <2>2. ASSUME NEW n \in Nat, n \in T PROVE n + 1 \in T
    <3> SUFFICES ASSUME n + 1 <= Len(s) PROVE F[n + 1] \in Seq(S)
      OBVIOUS
    <3>1. n + 1 \in 1 .. Len(s) /\ (n + 1) - 1 = n
      OBVIOUS
    <3>2. F[n] \in Seq(S)
      BY <2>2, <3>1
    <3>3. s[n + 1] \in S
      BY <3>1
    <3>4. F[n + 1] = IF n + 1 \in K THEN Append(F[n], s[n + 1]) ELSE F[n]
      BY <3>1, <1>10
    <3> QED BY <3>2, <3>3, <3>4
  <2> HIDE DEF T
  <2>3. Nat \subseteq T
    BY <2>1, <2>2, SetInduction
  <2> QED BY <2>3 DEF T
<1> QED BY <1>6, <1>9, <1>10, <1>11

\* What is picked of a sequence over S is one.
LEMMA PickedType == ASSUME NEW S, NEW s \in Seq(S), NEW K PROVE Picked(s, K) \in Seq(S)
<1>1. Len(s) \in 0 .. Len(s)
  OBVIOUS
<1> QED BY <1>1, PickedToWalk, PickedIsLast

\* Up to place m, s with K and t with L pick the same members.
Agree(s, K, t, L, m) ==
    /\ m <= Len(s) /\ m <= Len(t)
    /\ \A i \in 1 .. m : (i \in K <=> i \in L) /\ (i \in K => s[i] = t[i])

\* What comes after the first m, or is not picked, does not matter.
LEMMA PickedToAgree ==
    ASSUME NEW S, NEW s \in Seq(S), NEW t \in Seq(S), NEW K, NEW L, NEW m \in Nat,
           Agree(s, K, t, L, m)
    PROVE  PickedTo(s, K)[m] = PickedTo(t, L)[m]
<1> USE DEF Agree
<1> DEFINE T == {n \in Nat : n <= m => PickedTo(s, K)[n] = PickedTo(t, L)[n]}
<1>1. 0 \in T
  <2>1. PickedTo(s, K)[0] = <<>> /\ PickedTo(t, L)[0] = <<>>
    BY PickedToWalk
  <2> QED BY <2>1
<1>2. ASSUME NEW n \in Nat, n \in T PROVE n + 1 \in T
  <2> SUFFICES ASSUME n + 1 <= m PROVE PickedTo(s, K)[n + 1] = PickedTo(t, L)[n + 1]
    OBVIOUS
  <2>1. n + 1 \in 1 .. m /\ n + 1 \in 1 .. Len(s) /\ n + 1 \in 1 .. Len(t) /\ (n + 1) - 1 = n
    OBVIOUS
  <2>2. PickedTo(s, K)[n] = PickedTo(t, L)[n]
    BY <1>2
  <2>3. PickedTo(s, K)[n + 1] = IF n + 1 \in K THEN Append(PickedTo(s, K)[n], s[n + 1])
                                ELSE PickedTo(s, K)[n]
    BY <2>1, PickedToWalk
  <2>4. PickedTo(t, L)[n + 1] = IF n + 1 \in L THEN Append(PickedTo(t, L)[n], t[n + 1])
                                ELSE PickedTo(t, L)[n]
    BY <2>1, PickedToWalk
  <2>5. (n + 1 \in K <=> n + 1 \in L) /\ (n + 1 \in K => s[n + 1] = t[n + 1])
    BY <2>1
  <2> QED BY <2>2, <2>3, <2>4, <2>5
<1> HIDE DEF T
<1>3. m \in T
  BY <1>1, <1>2, SetInduction
<1> QED BY <1>3 DEF T

\* Two sequences of the same length that pick the same members at the same
\* places pick the same sequence.
LEMMA PickedSame ==
    ASSUME NEW S, NEW s \in Seq(S), NEW t \in Seq(S), NEW K, NEW L, Len(s) = Len(t),
           \A i \in 1 .. Len(s) : (i \in K <=> i \in L) /\ (i \in K => s[i] = t[i])
    PROVE  Picked(s, K) = Picked(t, L)
<1>1. Len(s) \in Nat /\ Agree(s, K, t, L, Len(s))
  BY DEF Agree
<1>2. PickedTo(s, K)[Len(s)] = PickedTo(t, L)[Len(s)]
  BY <1>1, PickedToAgree
<1> QED BY <1>2, PickedIsLast

\* The members of s that are in A.
Only(s, A) == Picked(s, Where(s, A))

\* A member behind the others is kept last, or not at all.
LEMMA OnlyAppend ==
    ASSUME NEW S, NEW s \in Seq(S), NEW x \in S, NEW A
    PROVE  Only(Append(s, x), A) = IF x \in A THEN Append(Only(s, A), x) ELSE Only(s, A)
<1> DEFINE u == Append(s, x)
           n == Len(s)
<1>1. u \in Seq(S) /\ Len(u) = n + 1 /\ n \in Nat /\ u[n + 1] = x /\ \A i \in 1 .. n : u[i] = s[i]
  OBVIOUS
<1>2. n + 1 \in 1 .. Len(u) /\ (n + 1) - 1 = n /\ n <= Len(u) /\ n <= Len(s)
  BY <1>1
<1>3. \A i \in 1 .. n : (i \in Where(u, A) <=> i \in Where(s, A)) /\ u[i] = s[i]
  <2>1. DOMAIN u = 1 .. n + 1 /\ DOMAIN s = 1 .. n
    BY <1>1
  <2> HIDE DEF u
  <2> QED BY <1>1, <2>1 DEF Where
<1>4. n + 1 \in Where(u, A) <=> x \in A
  <2>1. DOMAIN u = 1 .. n + 1
    BY <1>1
  <2> HIDE DEF u
  <2> QED BY <1>1, <2>1 DEF Where
<1> HIDE DEF u
<1>5. PickedTo(u, Where(u, A))[n] = PickedTo(s, Where(s, A))[n]
  <2>1. Agree(u, Where(u, A), s, Where(s, A), n)
    BY <1>2, <1>3 DEF Agree
  <2> QED BY <1>1, <2>1, PickedToAgree
<1>6. PickedTo(u, Where(u, A))[n + 1] = IF n + 1 \in Where(u, A)
                                        THEN Append(PickedTo(u, Where(u, A))[n], u[n + 1])
                                        ELSE PickedTo(u, Where(u, A))[n]
  BY <1>1, <1>2, PickedToWalk
<1>7. Only(u, A) = PickedTo(u, Where(u, A))[n + 1] /\ Only(s, A) = PickedTo(s, Where(s, A))[n]
  BY <1>1, PickedIsLast DEF Only
<1>8. Only(u, A) = IF x \in A THEN Append(Only(s, A), x) ELSE Only(s, A)
  BY <1>1, <1>4, <1>5, <1>6, <1>7
<1> QED BY <1>8 DEF u

\* Nothing is in an empty sequence.
LEMMA OnlyEmpty == \A A : Only(<<>>, A) = <<>>
<1> SUFFICES ASSUME NEW A PROVE Only(<<>>, A) = <<>>
  OBVIOUS
<1>1. <<>> \in Seq(Nat) /\ Len(<<>>) = 0
  OBVIOUS
<1>2. \A e \in Seq(Nat) : \A K : PickedTo(e, K)[0] = <<>>
  BY PickedToWalk
<1> QED BY <1>1, <1>2, PickedIsLast DEF Only

\* Picking from what was picked.
LEMMA OnlyOfPicked ==
    ASSUME NEW S, NEW s \in Seq(S), NEW K, NEW A
    PROVE  Only(Picked(s, K), A) = Picked(s, K \cap Where(s, A))
<1> DEFINE L == K \cap Where(s, A)
           T == {n \in Nat : n <= Len(s) => Only(PickedTo(s, K)[n], A) = PickedTo(s, L)[n]}
<1>1. 0 \in T
  <2>1. PickedTo(s, K)[0] = <<>> /\ PickedTo(s, L)[0] = <<>>
    BY PickedToWalk
  <2> QED BY <2>1, OnlyEmpty
<1>2. ASSUME NEW n \in Nat, n \in T PROVE n + 1 \in T
  <2> SUFFICES ASSUME n + 1 <= Len(s) PROVE Only(PickedTo(s, K)[n + 1], A) = PickedTo(s, L)[n + 1]
    OBVIOUS
  <2>1. n + 1 \in 1 .. Len(s) /\ (n + 1) - 1 = n /\ n \in 0 .. Len(s)
    OBVIOUS
  <2>2. Only(PickedTo(s, K)[n], A) = PickedTo(s, L)[n]
    BY <1>2
  <2>3. PickedTo(s, K)[n + 1] = IF n + 1 \in K THEN Append(PickedTo(s, K)[n], s[n + 1])
                                ELSE PickedTo(s, K)[n]
    BY <2>1, PickedToWalk
  <2>4. PickedTo(s, L)[n + 1] = IF n + 1 \in L THEN Append(PickedTo(s, L)[n], s[n + 1])
                                ELSE PickedTo(s, L)[n]
    <3> HIDE DEF L
    <3> QED BY <2>1, PickedToWalk
  <2>5. n + 1 \in L <=> n + 1 \in K /\ s[n + 1] \in A
    BY <2>1 DEF Where
  <2>6. PickedTo(s, K)[n] \in Seq(S) /\ s[n + 1] \in S
    BY <2>1, PickedToWalk
  <2>7. Only(Append(PickedTo(s, K)[n], s[n + 1]), A) =
            IF s[n + 1] \in A THEN Append(Only(PickedTo(s, K)[n], A), s[n + 1])
            ELSE Only(PickedTo(s, K)[n], A)
    <3>1. \A u \in Seq(S), x \in S :
              Only(Append(u, x), A) = IF x \in A THEN Append(Only(u, A), x) ELSE Only(u, A)
      BY ONLY OnlyAppend
    <3> QED BY <2>6, <3>1
  <2> HIDE DEF L, T
  <2> QED BY <2>2, <2>3, <2>4, <2>5, <2>7
<1> HIDE DEF T, L
<1>3. Len(s) \in T
  BY <1>1, <1>2, SetInduction
<1>4. Only(PickedTo(s, K)[Len(s)], A) = PickedTo(s, L)[Len(s)]
  BY <1>3 DEF T
<1> QED BY <1>4, PickedIsLast DEF L

\* What is in A of every one of several sequences.
OnlyEach(s, A) == [i \in DOMAIN s |-> Only(s[i], A)]

\* Each of the sequences is cut by itself.
LEMMA OnlyEachType ==
    ASSUME NEW S, NEW A, NEW s \in Seq(Seq(S))
    PROVE  /\ OnlyEach(s, A) \in Seq(Seq(S)) /\ Len(OnlyEach(s, A)) = Len(s)
           /\ \A i \in 1 .. Len(s) : OnlyEach(s, A)[i] = Only(s[i], A)
<1>1. DOMAIN s = 1 .. Len(s) /\ Len(s) \in Nat /\ \A i \in 1 .. Len(s) : s[i] \in Seq(S)
  OBVIOUS
<1>2. \A u \in Seq(S) : Only(u, A) \in Seq(S)
  BY PickedType DEF Only
<1>3. \A i \in 1 .. Len(s) : Only(s[i], A) \in Seq(S)
  BY <1>1, <1>2
<1> QED BY <1>1, <1>3 DEF OnlyEach

\* A sequence behind the others is cut last.
LEMMA OnlyEachAppend ==
    ASSUME NEW S, NEW A, NEW s \in Seq(Seq(S)), NEW x \in Seq(S)
    PROVE  OnlyEach(Append(s, x), A) = Append(OnlyEach(s, A), Only(x, A))
<1> DEFINE u == Append(s, x)
           v == Append(OnlyEach(s, A), Only(x, A))
<1>1. /\ u \in Seq(Seq(S)) /\ Len(u) = Len(s) + 1 /\ u[Len(s) + 1] = x /\ Len(s) \in Nat
      /\ \A i \in 1 .. Len(s) : u[i] = s[i]
  OBVIOUS
<1>2. Only(x, A) \in Seq(S)
  BY PickedType DEF Only
<1>3. /\ OnlyEach(s, A) \in Seq(Seq(S)) /\ Len(OnlyEach(s, A)) = Len(s)
      /\ \A i \in 1 .. Len(s) : OnlyEach(s, A)[i] = Only(s[i], A)
  BY OnlyEachType
<1>4. /\ v \in Seq(Seq(S)) /\ Len(v) = Len(s) + 1 /\ v[Len(s) + 1] = Only(x, A)
      /\ \A i \in 1 .. Len(s) : v[i] = Only(s[i], A)
  BY <1>2, <1>3
<1> HIDE DEF u
<1>5. /\ OnlyEach(u, A) \in Seq(Seq(S)) /\ Len(OnlyEach(u, A)) = Len(u)
      /\ \A i \in 1 .. Len(u) : OnlyEach(u, A)[i] = Only(u[i], A)
  BY <1>1, OnlyEachType
<1> HIDE DEF v
<1>6. ASSUME NEW i \in 1 .. Len(s) + 1 PROVE OnlyEach(u, A)[i] = v[i]
  <2>1. CASE i = Len(s) + 1
    BY <2>1, <1>1, <1>4, <1>5
  <2>2. CASE i \in 1 .. Len(s)
    BY <2>2, <1>1, <1>4, <1>5
  <2> QED BY <1>1, <2>1, <2>2
<1>7. OnlyEach(u, A) = v
  BY <1>1, <1>4, <1>5, <1>6, SameSeq
<1> QED BY <1>7 DEF u, v

\* Cutting each and picking among them may change places.
LEMMA OnlyEachOfPicked ==
    ASSUME NEW S, NEW A, NEW s \in Seq(Seq(S)), NEW K
    PROVE  OnlyEach(Picked(s, K), A) = Picked(OnlyEach(s, A), K)
<1> DEFINE m == OnlyEach(s, A)
           T == {n \in Nat : n <= Len(s) => OnlyEach(PickedTo(s, K)[n], A) = PickedTo(m, K)[n]}
<1>1. m \in Seq(Seq(S)) /\ Len(m) = Len(s) /\ \A i \in 1 .. Len(s) : m[i] = Only(s[i], A)
  BY OnlyEachType
<1> HIDE DEF m
<1>2. 0 \in T
  <2>1. PickedTo(s, K)[0] = <<>> /\ PickedTo(m, K)[0] = <<>>
    BY <1>1, PickedToWalk
  <2>2. OnlyEach(<<>>, A) = <<>>
    BY DEF OnlyEach
  <2> QED BY <2>1, <2>2
<1>3. ASSUME NEW n \in Nat, n \in T PROVE n + 1 \in T
  <2> SUFFICES ASSUME n + 1 <= Len(s) PROVE OnlyEach(PickedTo(s, K)[n + 1], A) = PickedTo(m, K)[n + 1]
    OBVIOUS
  <2>1. n + 1 \in 1 .. Len(s) /\ (n + 1) - 1 = n /\ n \in 0 .. Len(s)
    OBVIOUS
  <2>2. OnlyEach(PickedTo(s, K)[n], A) = PickedTo(m, K)[n]
    BY <1>3
  <2>3. PickedTo(s, K)[n + 1] = IF n + 1 \in K THEN Append(PickedTo(s, K)[n], s[n + 1])
                                ELSE PickedTo(s, K)[n]
    BY <2>1, PickedToWalk
  <2>4. PickedTo(m, K)[n + 1] = IF n + 1 \in K THEN Append(PickedTo(m, K)[n], m[n + 1])
                                ELSE PickedTo(m, K)[n]
    BY <1>1, <2>1, PickedToWalk
  <2>5. PickedTo(s, K)[n] \in Seq(Seq(S)) /\ s[n + 1] \in Seq(S)
    BY <2>1, PickedToWalk
  <2>6. OnlyEach(Append(PickedTo(s, K)[n], s[n + 1]), A) = Append(OnlyEach(PickedTo(s, K)[n], A), Only(s[n + 1], A))
    BY <2>5, OnlyEachAppend
  <2>7. m[n + 1] = Only(s[n + 1], A)
    BY <1>1, <2>1
  <2> HIDE DEF T
  <2> QED BY <2>2, <2>3, <2>4, <2>6, <2>7
<1> HIDE DEF T
<1>4. Len(s) \in T
  BY <1>2, <1>3, SetInduction
<1>5. OnlyEach(PickedTo(s, K)[Len(s)], A) = PickedTo(m, K)[Len(m)]
  BY <1>1, <1>4 DEF T
<1> QED BY <1>5, PickedIsLast DEF m

\* When every place is picked, all of it is.
LEMMA PickedAll ==
    ASSUME NEW S, NEW s \in Seq(S), NEW K, \A i \in 1 .. Len(s) : i \in K
    PROVE  Picked(s, K) = s
<1> DEFINE T == {n \in Nat : n <= Len(s) => PickedTo(s, K)[n] = SubSeq(s, 1, n)}
<1>1. 0 \in T
  BY PickedToWalk
<1>2. ASSUME NEW n \in Nat, n \in T PROVE n + 1 \in T
  <2> SUFFICES ASSUME n + 1 <= Len(s) PROVE PickedTo(s, K)[n + 1] = SubSeq(s, 1, n + 1)
    OBVIOUS
  <2>1. n + 1 \in 1 .. Len(s) /\ (n + 1) - 1 = n /\ n + 1 \in K
    OBVIOUS
  <2>2. PickedTo(s, K)[n] = SubSeq(s, 1, n)
    BY <1>2
  <2>3. PickedTo(s, K)[n + 1] = Append(PickedTo(s, K)[n], s[n + 1])
    <3>1. \A i \in 1 .. Len(s) : PickedTo(s, K)[i] = IF i \in K THEN Append(PickedTo(s, K)[i - 1], s[i])
                                                     ELSE PickedTo(s, K)[i - 1]
      BY ONLY s \in Seq(S), PickedToWalk
    <3> QED BY <2>1, <3>1
  <2>4. Append(SubSeq(s, 1, n), s[n + 1]) = SubSeq(s, 1, n + 1)
    BY <2>1
  <2> QED BY <2>2, <2>3, <2>4
<1> HIDE DEF T
<1>3. Len(s) \in T
  BY <1>1, <1>2, SetInduction
<1>4. PickedTo(s, K)[Len(s)] = SubSeq(s, 1, Len(s))
  BY <1>3 DEF T
<1> QED BY <1>4, PickedIsLast

\* Where the members of u, picked from the first n of s, come from.
Places(e, s, K, n, u) ==
    /\ e \in [1 .. Len(u) -> 1 .. n]
    /\ \A k \in 1 .. Len(u) : e[k] \in K /\ u[k] = s[e[k]]
    /\ \A j, k \in 1 .. Len(u) : e[j] = e[k] => j = k
    /\ \A i \in 1 .. n : i \in K => \E k \in 1 .. Len(u) : e[k] = i

\* Every member picked comes from a place of its own, and no picked place
\* is lost.
LEMMA PickedPlaces ==
    ASSUME NEW S, NEW s \in Seq(S), NEW K
    PROVE  \E e : Places(e, s, K, Len(s), Picked(s, K))
<1> DEFINE T == {n \in Nat : n <= Len(s) => \E e : Places(e, s, K, n, PickedTo(s, K)[n])}
<1>1. 0 \in T
  <2>1. PickedTo(s, K)[0] = <<>>
    BY PickedToWalk
  <2>2. Places(<<>>, s, K, 0, <<>>)
    BY DEF Places
  <2> QED BY <2>1, <2>2
<1>2. ASSUME NEW n \in Nat, n \in T PROVE n + 1 \in T
  <2> SUFFICES ASSUME n + 1 <= Len(s) PROVE \E e : Places(e, s, K, n + 1, PickedTo(s, K)[n + 1])
    OBVIOUS
  <2>1. n + 1 \in 1 .. Len(s) /\ (n + 1) - 1 = n /\ n \in 0 .. Len(s)
    OBVIOUS
  <2> DEFINE u == PickedTo(s, K)[n]
  <2>2. PICK e : Places(e, s, K, n, u)
    BY <1>2
  <2>3. PickedTo(s, K)[n + 1] = IF n + 1 \in K THEN Append(u, s[n + 1]) ELSE u
    BY <2>1, PickedToWalk
  <2>4. u \in Seq(S) /\ s[n + 1] \in S
    BY <2>1, PickedToWalk
  <2> HIDE DEF u
  <2>5. CASE n + 1 \notin K
    <3>1. Places(e, s, K, n + 1, u)
      BY <2>2, <2>4, <2>5 DEF Places
    <3> QED BY <3>1, <2>3, <2>5
  <2>6. CASE n + 1 \in K
    <3> DEFINE v == Append(u, s[n + 1])
               m == Len(u)
               f == [k \in 1 .. m + 1 |-> IF k = m + 1 THEN n + 1 ELSE e[k]]
    <3>1. Len(v) = m + 1 /\ m \in Nat /\ v[m + 1] = s[n + 1] /\ \A k \in 1 .. m : v[k] = u[k]
      BY <2>4
    <3>2. e \in [1 .. m -> 1 .. n]
      BY <2>2 DEF Places
    <3>3. f \in [1 .. m + 1 -> 1 .. n + 1] /\ f[m + 1] = n + 1 /\ \A k \in 1 .. m : f[k] = e[k] /\ e[k] \in 1 .. n
      BY <3>1, <3>2
    <3> HIDE DEF v, f
    <3>4. \A k \in 1 .. m + 1 : f[k] \in K /\ v[k] = s[f[k]]
      <4>1. \A k \in 1 .. m : e[k] \in K /\ u[k] = s[e[k]]
        BY <2>2 DEF Places
      <4> QED BY <4>1, <3>1, <3>3, <2>6
    <3>5. \A j, k \in 1 .. m + 1 : f[j] = f[k] => j = k
      <4>1. \A j, k \in 1 .. m : e[j] = e[k] => j = k
        BY <2>2 DEF Places
      <4> QED BY <4>1, <3>1, <3>3
    <3>6. \A i \in 1 .. n + 1 : i \in K => \E k \in 1 .. m + 1 : f[k] = i
      <4>1. \A i \in 1 .. n : i \in K => \E k \in 1 .. m : e[k] = i
        BY <2>2 DEF Places
      <4> SUFFICES ASSUME NEW i \in 1 .. n + 1, i \in K PROVE \E k \in 1 .. m + 1 : f[k] = i
        OBVIOUS
      <4>2. CASE i = n + 1
        <5>1. m + 1 \in 1 .. m + 1
          BY <3>1
        <5> QED BY <5>1, <4>2, <3>3
      <4>3. CASE i \in 1 .. n
        <5>1. PICK k \in 1 .. m : e[k] = i
          BY <4>1, <4>3
        <5>2. k \in 1 .. m + 1 /\ f[k] = i
          BY <5>1, <3>1, <3>3
        <5> QED BY <5>2
      <4> QED BY <4>2, <4>3
    <3>7. Places(f, s, K, n + 1, v)
      BY <3>1, <3>3, <3>4, <3>5, <3>6 DEF Places
    <3> QED BY <3>7, <2>3, <2>6 DEF v
  <2> QED BY <2>5, <2>6
<1> HIDE DEF T
<1>3. Len(s) \in T
  BY <1>1, <1>2, SetInduction
<1>4. \E e : Places(e, s, K, Len(s), PickedTo(s, K)[Len(s)])
  BY <1>3 DEF T
<1> QED BY <1>4, PickedIsLast

\* An entry in front that is not in A.
LEMMA OnlyBehind ==
    ASSUME NEW S, NEW s \in Seq(S), NEW x \in S, NEW A, x \notin A
    PROVE  Only(<<x>> \o s, A) = Only(s, A)
<1> DEFINE u == <<x>> \o s
           K == Where(u, A)
           L == Where(s, A)
           T == {n \in Nat : n <= Len(s) => PickedTo(u, K)[n + 1] = PickedTo(s, L)[n]}
<1>1. /\ u \in Seq(S) /\ Len(u) = Len(s) + 1 /\ Len(s) \in Nat /\ u[1] = x
      /\ \A i \in 1 .. Len(s) : u[i + 1] = s[i]
  OBVIOUS
<1>2. 1 \notin K /\ \A i \in 1 .. Len(s) : i + 1 \in K <=> i \in L
  <2>1. DOMAIN u = 1 .. Len(s) + 1 /\ DOMAIN s = 1 .. Len(s)
    BY <1>1
  <2> HIDE DEF u
  <2> QED BY <1>1, <2>1 DEF Where
<1> HIDE DEF u, K, L
<1>3. /\ PickedTo(u, K)[0] = <<>> /\ PickedTo(s, L)[0] = <<>>
      /\ \A n \in 1 .. Len(u) : PickedTo(u, K)[n] = IF n \in K THEN Append(PickedTo(u, K)[n - 1], u[n])
                                                   ELSE PickedTo(u, K)[n - 1]
      /\ \A n \in 1 .. Len(s) : PickedTo(s, L)[n] = IF n \in L THEN Append(PickedTo(s, L)[n - 1], s[n])
                                                   ELSE PickedTo(s, L)[n - 1]
  BY <1>1, PickedToWalk
<1>4. 0 \in T
  <2>1. 1 \in 1 .. Len(u) /\ 1 - 1 = 0 /\ 0 + 1 = 1
    BY <1>1
  <2> QED BY <2>1, <1>2, <1>3
<1>5. ASSUME NEW n \in Nat, n \in T PROVE n + 1 \in T
  <2> SUFFICES ASSUME n + 1 <= Len(s) PROVE PickedTo(u, K)[(n + 1) + 1] = PickedTo(s, L)[n + 1]
    OBVIOUS
  <2>1. n + 1 \in 1 .. Len(s) /\ (n + 1) - 1 = n /\ (n + 1) + 1 \in 1 .. Len(u) /\ ((n + 1) + 1) - 1 = n + 1
    BY <1>1
  <2>2. PickedTo(u, K)[n + 1] = PickedTo(s, L)[n]
    BY <1>5
  <2>3. ((n + 1) + 1 \in K <=> n + 1 \in L) /\ u[(n + 1) + 1] = s[n + 1]
    BY <2>1, <1>1, <1>2
  <2> QED BY <2>1, <2>2, <2>3, <1>3
<1> HIDE DEF T
<1>6. Len(s) \in T
  BY <1>1, <1>4, <1>5, SetInduction
<1>7. PickedTo(u, K)[Len(u)] = PickedTo(s, L)[Len(s)]
  BY <1>1, <1>6 DEF T
<1> QED BY <1>7, PickedIsLast DEF Only, u, K, L

\* A member in front moves the others by one.
LEMMA InFront ==
    ASSUME NEW S, NEW s \in Seq(S), NEW x \in S
    PROVE  /\ <<x>> \o s \in Seq(S) /\ Len(<<x>> \o s) = Len(s) + 1 /\ DOMAIN (<<x>> \o s) = 1 .. Len(s) + 1
           /\ (<<x>> \o s)[1] = x
           /\ \A i \in 2 .. Len(s) + 1 : (<<x>> \o s)[i] = s[i - 1] /\ i - 1 \in DOMAIN s
OBVIOUS

-----------------------------------------------------------------------------
(* Names, and the least of some numbers                                     *)

\* The hosts, and what the settings of each hold.
LEMMA HostNames ==
    /\ Hosts = {"claude-code", "opencode", "codex"}
    /\ Providers("claude-code") = {"anthropic"} /\ Providers("codex") = {"codex"}
    /\ Providers("opencode") = {"anthropic", "openai"}
    /\ Entries("claude-code") = Seq(Commands \cup Foreign)
    /\ Entries("opencode") = OurPlugins \cup PluginRefs \cup Foreign
    /\ Entries("codex") = Commands \cup Foreign
<1>1. Hosts = {"claude-code", "opencode", "codex"}
  BY DEF Hosts, Order, ToSet
<1> QED BY <1>1 DEF Providers, Entries

\* A set of numbers with a member has a least one.
LEMMA Least ==
    ASSUME NEW T \in SUBSET Nat, T # {}
    PROVE  \E x \in T : \A y \in T : x <= y
<1> DEFINE R == OpToRel(<, Nat)
<1>1. IsWellFoundedOn(R, Nat)
  BY NatLessThanWellFounded
<1> HIDE DEF R
<1>2. PICK x \in T : \A y \in T : ~(<<y, x>> \in R)
  BY <1>1, WFMin
<1>3. ASSUME NEW y \in T PROVE x <= y
  <2> SUFFICES ASSUME y < x PROVE FALSE
    OBVIOUS
  <2>1. <<y, x>> \in R
    BY DEF R, OpToRel
  <2> QED BY <2>1, <1>2
<1> QED BY <1>3

-----------------------------------------------------------------------------
(* The hooks of Claude Code                                                 *)

\* A hook of a settings file: one of ours, with its command, or another's.
Hooks == Seq(Commands \cup Foreign)

\* The groups hold a hook the installer takes for its own.
HasHook(groups, c) == \E g \in DOMAIN groups : \E i \in DOMAIN groups[g] : Recognised(groups[g][i], c)

\* What ensureHook leaves of a group is a group.
LEMMA GroupType ==
    ASSUME NEW c \in Commands, NEW groups \in Seq(Hooks), NEW g \in DOMAIN groups
    PROVE  /\ Group(groups, g, c) \in Hooks
           /\ [i \in DOMAIN groups[g] |-> Entry(groups[g][i], c)] \in Hooks
           /\ Len([i \in DOMAIN groups[g] |-> Entry(groups[g][i], c)]) = Len(groups[g])
           /\ groups[g] \in Hooks
<1>1. groups[g] \in Hooks
  OBVIOUS
<1>2. DOMAIN groups[g] = 1 .. Len(groups[g]) /\ Len(groups[g]) \in Nat
      /\ \A i \in 1 .. Len(groups[g]) : groups[g][i] \in Commands \cup Foreign
  BY <1>1 DEF Hooks
<1>3. \A i \in DOMAIN groups[g] : Entry(groups[g][i], c) \in Commands \cup Foreign
  BY <1>2 DEF Entry
<1> DEFINE s == [i \in DOMAIN groups[g] |-> Entry(groups[g][i], c)]
<1>4. s \in Seq(Commands \cup Foreign) /\ Len(s) = Len(groups[g])
  BY <1>2, <1>3
<1>5. \A K : Picked(s, K) \in Seq(Commands \cup Foreign)
  <2> HIDE DEF s
  <2> QED BY <1>4, PickedType
<1> QED BY <1>1, <1>4, <1>5 DEF Group, Hooks

\* Of the hooks taken for its own, one comes first.
LEMMA FirstHook ==
    ASSUME NEW c \in Commands, NEW groups \in Seq(Hooks), HasHook(groups, c)
    PROVE  \E g \in DOMAIN groups : \E i \in DOMAIN groups[g] :
               Recognised(groups[g][i], c) /\ IsFirst(groups, g, i, c)
<1> DEFINE G == {g \in DOMAIN groups : \E i \in DOMAIN groups[g] : Recognised(groups[g][i], c)}
<1>1. G \in SUBSET Nat /\ G # {}
  BY DEF HasHook
<1>2. PICK g \in G : \A f \in G : g <= f
  <2> HIDE DEF G
  <2> QED BY <1>1, Least
<1> DEFINE I == {i \in DOMAIN groups[g] : Recognised(groups[g][i], c)}
<1>3. groups[g] \in Hooks
  BY <1>2
<1>4. I \in SUBSET Nat /\ I # {}
  BY <1>2, <1>3 DEF Hooks
<1>5. PICK i \in I : \A j \in I : i <= j
  <2> HIDE DEF I, G
  <2> QED BY <1>4, Least
<1>6. ASSUME NEW f \in 1 .. g, NEW j \in DOMAIN groups[f], Recognised(groups[f][j], c)
      PROVE  f = g /\ i <= j
  <2>1. g \in DOMAIN groups /\ g \in Nat /\ DOMAIN groups = 1 .. Len(groups) /\ Len(groups) \in Nat
    BY <1>1, <1>2
  <2>2. f \in DOMAIN groups
    BY <2>1
  <2>3. f \in G
    BY <2>2, <1>6
  <2>4. g <= f
    BY <2>3, <1>2
  <2>5. f = g
    BY <2>1, <2>4
  <2> QED BY <2>5, <1>5, <1>6
<1>7. g \in DOMAIN groups /\ i \in DOMAIN groups[g] /\ Recognised(groups[g][i], c)
  BY <1>2, <1>5
<1>8. IsFirst(groups, g, i, c)
  BY <1>6 DEF IsFirst
<1> QED BY <1>7, <1>8

\* What a group holds once ensureHook went over it: what it held of others,
\* and the hook at the first place.
LEMMA GroupHooks ==
    ASSUME NEW c \in Commands, NEW groups \in Seq(Hooks), NEW g \in DOMAIN groups
    PROVE  LET made == Group(groups, g, c) IN
           /\ \A k \in DOMAIN made : Recognised(made[k], c) =>
                  /\ made[k] = c
                  /\ \E i \in DOMAIN groups[g] : Recognised(groups[g][i], c) /\ IsFirst(groups, g, i, c)
           /\ \A j, k \in DOMAIN made : Recognised(made[j], c) /\ Recognised(made[k], c) => j = k
           /\ \A i \in DOMAIN groups[g] : Recognised(groups[g][i], c) /\ IsFirst(groups, g, i, c) =>
                  \E k \in DOMAIN made : made[k] = c
<1> DEFINE made == Group(groups, g, c)
           s == [i \in DOMAIN groups[g] |-> Entry(groups[g][i], c)]
           K == {i \in DOMAIN groups[g] : Recognised(groups[g][i], c) => IsFirst(groups, g, i, c)}
<1>1. made = Picked(s, K) /\ made \in Hooks /\ s \in Hooks /\ Len(s) = Len(groups[g]) /\ groups[g] \in Hooks
  BY GroupType DEF Group
<1>2. \A i \in DOMAIN groups[g] : s[i] = Entry(groups[g][i], c)
  OBVIOUS
<1>3. \A i \in K : i \in DOMAIN groups[g] /\ (Recognised(groups[g][i], c) => IsFirst(groups, g, i, c))
  OBVIOUS
<1>4. \A i \in DOMAIN groups[g] : Recognised(groups[g][i], c) /\ IsFirst(groups, g, i, c) => i \in K
  OBVIOUS
<1> HIDE DEF made, s, K
<1>5. PICK e : Places(e, s, K, Len(s), made)
  BY <1>1, PickedPlaces DEF Hooks
<1>6. DOMAIN made = 1 .. Len(made) /\ DOMAIN groups[g] = 1 .. Len(s) /\ Len(s) \in Nat /\ Len(made) \in Nat
  BY <1>1 DEF Hooks
<1>7. \A k \in DOMAIN made : e[k] \in DOMAIN groups[g] /\ e[k] \in K /\ made[k] = Entry(groups[g][e[k]], c)
  BY <1>2, <1>5, <1>6 DEF Places
<1>8. \A x : Recognised(Entry(x, c), c) => Recognised(x, c) /\ Entry(x, c) = c
  BY DEF Entry
<1>9. \A x : Recognised(x, c) => Entry(x, c) = c
  BY DEF Entry
<1>10. \A k \in DOMAIN made : Recognised(made[k], c) =>
           made[k] = c /\ Recognised(groups[g][e[k]], c) /\ IsFirst(groups, g, e[k], c)
  BY <1>3, <1>7, <1>8
<1>11. ASSUME NEW j \in DOMAIN made, NEW k \in DOMAIN made, Recognised(made[j], c), Recognised(made[k], c)
       PROVE  j = k
  <2>1. g \in 1 .. g /\ e[j] \in Nat /\ e[k] \in Nat
    BY <1>6, <1>7
  <2>2. e[j] <= e[k] /\ e[k] <= e[j]
    BY <2>1, <1>7, <1>10, <1>11 DEF IsFirst
  <2>3. e[j] = e[k]
    BY <2>1, <2>2
  <2> QED BY <2>3, <1>5, <1>6 DEF Places
<1>12. ASSUME NEW i \in DOMAIN groups[g], Recognised(groups[g][i], c), IsFirst(groups, g, i, c)
       PROVE  \E k \in DOMAIN made : made[k] = c
  <2>1. PICK k \in DOMAIN made : e[k] = i
    BY <1>4, <1>5, <1>6, <1>12 DEF Places
  <2> QED BY <2>1, <1>7, <1>9, <1>12
<1>13. \A k \in DOMAIN made : Recognised(made[k], c) =>
           /\ made[k] = c
           /\ \E i \in DOMAIN groups[g] : Recognised(groups[g][i], c) /\ IsFirst(groups, g, i, c)
  BY <1>7, <1>10
<1> QED BY <1>11, <1>12, <1>13 DEF made

\* Every group, as ensureHook leaves it.
Made(groups, c) == [g \in DOMAIN groups |-> Group(groups, g, c)]
\* The groups that stay: not those ensureHook emptied.
KeptGroups(groups, c) == {g \in DOMAIN groups : groups[g] = <<>> \/ Made(groups, c)[g] # <<>>}

\* ensureHook keeps the groups it changed, or adds one behind them.
LEMMA EnsureHookIs ==
    ASSUME NEW c \in Commands, NEW groups \in Seq(Hooks)
    PROVE  /\ Made(groups, c) \in Seq(Hooks) /\ Len(Made(groups, c)) = Len(groups)
           /\ \A g \in DOMAIN groups : Made(groups, c)[g] = Group(groups, g, c)
           /\ EnsureHook(groups, c) = IF HasHook(groups, c)
                                      THEN Picked(Made(groups, c), KeptGroups(groups, c))
                                      ELSE Append(groups, <<c>>)
           /\ EnsureHook(groups, c) \in Seq(Hooks)
<1>1. DOMAIN groups = 1 .. Len(groups) /\ Len(groups) \in Nat
  OBVIOUS
<1>2. \A g \in DOMAIN groups : Group(groups, g, c) \in Hooks
  BY GroupType
<1>3. Made(groups, c) \in Seq(Hooks) /\ Len(Made(groups, c)) = Len(groups)
  BY <1>1, <1>2 DEF Made
<1>4. EnsureHook(groups, c) = IF HasHook(groups, c)
                              THEN Picked(Made(groups, c), KeptGroups(groups, c))
                              ELSE Append(groups, <<c>>)
  BY DEF EnsureHook, HasHook, Made, KeptGroups
<1>5. Picked(Made(groups, c), KeptGroups(groups, c)) \in Seq(Hooks)
  BY <1>3, PickedType
<1>6. <<c>> \in Hooks
  BY DEF Hooks
<1>7. Append(groups, <<c>>) \in Seq(Hooks)
  BY <1>6
<1> QED BY <1>3, <1>4, <1>5, <1>7 DEF Made

\* After ensureHook, there is one hook of the command, and it is the
\* current one.
LEMMA HookIsOne ==
    ASSUME NEW c \in Commands, NEW groups \in Seq(Hooks)
    PROVE  OnlyHook(EnsureHook(groups, c), c)
<1>1. DOMAIN groups = 1 .. Len(groups) /\ Len(groups) \in Nat
  OBVIOUS
<1>2. CASE ~HasHook(groups, c)
  <2> DEFINE r == Append(groups, <<c>>)
             n == Len(groups) + 1
  <2>1. EnsureHook(groups, c) = r
    BY <1>2, EnsureHookIs
  <2>2. DOMAIN r = 1 .. n /\ r[n] = <<c>> /\ n \in 1 .. n /\ \A g \in 1 .. Len(groups) : r[g] = groups[g]
    BY <1>1
  <2>3. <<c>>[1] = c /\ DOMAIN <<c>> = {1}
    OBVIOUS
  <2> HIDE DEF r
  <2>4. ASSUME NEW f \in DOMAIN r, NEW j \in DOMAIN r[f], Recognised(r[f][j], c) PROVE f = n /\ j = 1
    <3>1. CASE f \in 1 .. Len(groups)
      BY <3>1, <2>2, <2>4, <1>1, <1>2 DEF HasHook
    <3>2. CASE f = n
      BY <3>2, <2>2, <2>3, <2>4
    <3> QED BY <3>1, <3>2, <2>2, <1>1
  <2>5. OnlyHook(r, c)
    BY <2>2, <2>3, <2>4 DEF OnlyHook
  <2> QED BY <2>1, <2>5
<1>3. CASE HasHook(groups, c)
  <2> DEFINE w == Made(groups, c)
             K == KeptGroups(groups, c)
             r == Picked(w, K)
  <2>1. EnsureHook(groups, c) = r /\ w \in Seq(Hooks) /\ Len(w) = Len(groups)
        /\ r \in Seq(Hooks) /\ \A g \in DOMAIN groups : w[g] = Group(groups, g, c)
    BY <1>3, EnsureHookIs
  <2>2. \A g \in DOMAIN groups : w[g] # <<>> => g \in K
    BY DEF KeptGroups
  <2> HIDE DEF w, K
  <2>3. PICK e : Places(e, w, K, Len(w), r)
    BY <2>1, PickedPlaces
  <2> HIDE DEF r
  <2>4. DOMAIN r = 1 .. Len(r) /\ Len(r) \in Nat
    BY <2>1
  <2>5. PICK g0 \in DOMAIN groups : \E i \in DOMAIN groups[g0] :
            Recognised(groups[g0][i], c) /\ IsFirst(groups, g0, i, c)
    BY <1>3, FirstHook
  <2>6. PICK k0 \in DOMAIN w[g0] : w[g0][k0] = c
    BY <2>1, <2>5, GroupHooks
  <2>7. g0 \in K
    <3>1. w[g0] # <<>>
      <4>1. w[g0] \in Hooks
        BY <2>1, <1>1
      <4> QED BY <2>6, <4>1 DEF Hooks
    <3> QED BY <3>1, <2>2
  <2>8. PICK a \in DOMAIN r : e[a] = g0
    BY <1>1, <2>1, <2>3, <2>4, <2>7 DEF Places
  <2>9. \A f \in DOMAIN r : e[f] \in DOMAIN groups /\ r[f] = w[e[f]]
    BY <1>1, <2>1, <2>3, <2>4 DEF Places
  <2>10. ASSUME NEW f \in DOMAIN r, NEW j \in DOMAIN r[f], Recognised(r[f][j], c) PROVE f = a /\ j = k0
    <3>1. \E i \in DOMAIN groups[e[f]] : Recognised(groups[e[f]][i], c) /\ IsFirst(groups, e[f], i, c)
      BY <2>1, <2>9, <2>10, GroupHooks
    <3>2. e[f] = g0
      <4>1. e[f] \in Nat /\ g0 \in Nat /\ e[f] >= 1 /\ g0 >= 1
        BY <2>9, <1>1
      <4>2. e[f] \in 1 .. g0 \/ g0 \in 1 .. e[f]
        BY <4>1
      <4> QED BY <4>2, <3>1, <2>5 DEF IsFirst
    <3>3. f = a
      BY <3>2, <2>3, <2>4, <2>8 DEF Places
    <3>4. Recognised(w[g0][k0], c)
      BY <2>6 DEF Recognised
    <3>5. j \in DOMAIN w[g0] /\ Recognised(w[g0][j], c)
      BY <3>2, <2>9, <2>10
    <3>6. j = k0
      BY <3>4, <3>5, <2>1, <2>6, GroupHooks
    <3> QED BY <3>3, <3>6
  <2>11. k0 \in DOMAIN r[a] /\ r[a][k0] = c
    BY <2>6, <2>8, <2>9
  <2>12. OnlyHook(r, c)
    BY <2>10, <2>11 DEF OnlyHook
  <2> QED BY <2>1, <2>12
<1> QED BY <1>2, <1>3

\* A second ensureHook with the same command changes nothing.
LEMMA HookAgain ==
    ASSUME NEW c \in Commands, NEW groups \in Seq(Hooks), OnlyHook(groups, c)
    PROVE  EnsureHook(groups, c) = groups
<1>1. DOMAIN groups = 1 .. Len(groups) /\ Len(groups) \in Nat
  OBVIOUS
<1>0. PICK g0 \in DOMAIN groups : \E i \in DOMAIN groups[g0] :
          /\ groups[g0][i] = c
          /\ \A f \in DOMAIN groups : \A j \in DOMAIN groups[f] :
                 Recognised(groups[f][j], c) => f = g0 /\ j = i
  BY DEF OnlyHook
<1>2. PICK i0 \in DOMAIN groups[g0] :
          /\ groups[g0][i0] = c
          /\ \A f \in DOMAIN groups : \A j \in DOMAIN groups[f] :
                 Recognised(groups[f][j], c) => f = g0 /\ j = i0
  BY <1>0
<1>3. HasHook(groups, c)
  BY <1>2 DEF HasHook, Recognised
<1>4. ASSUME NEW g \in DOMAIN groups PROVE Group(groups, g, c) = groups[g]
  <2> DEFINE s == [i \in DOMAIN groups[g] |-> Entry(groups[g][i], c)]
             K == {i \in DOMAIN groups[g] : Recognised(groups[g][i], c) => IsFirst(groups, g, i, c)}
  <2>1. groups[g] \in Hooks
    BY GroupType
  <2>2. DOMAIN groups[g] = 1 .. Len(groups[g]) /\ Len(groups[g]) \in Nat
    BY <2>1 DEF Hooks
  <2>3. \A i \in DOMAIN groups[g] : Entry(groups[g][i], c) = groups[g][i]
    BY <1>2 DEF Entry
  <2>4. s = groups[g]
    <3>1. groups[g] = [i \in DOMAIN groups[g] |-> groups[g][i]]
      BY <2>1 DEF Hooks
    <3> QED BY <3>1, <2>3
  <2>5. ASSUME NEW i \in DOMAIN groups[g], Recognised(groups[g][i], c) PROVE IsFirst(groups, g, i, c)
    <3> SUFFICES ASSUME NEW f \in 1 .. g, NEW j \in DOMAIN groups[f], Recognised(groups[f][j], c)
                 PROVE  f = g /\ i <= j
      BY DEF IsFirst
    <3>1. f \in DOMAIN groups /\ i \in Nat
      BY <1>1, <2>2
    <3> QED BY <3>1, <1>2, <2>5
  <2>6. \A i \in 1 .. Len(groups[g]) : i \in K
    BY <2>2, <2>5
  <2>7. Group(groups, g, c) = Picked(s, K)
    BY DEF Group
  <2> HIDE DEF s, K
  <2> QED BY <2>1, <2>4, <2>6, <2>7, PickedAll DEF Hooks
<1>5. Made(groups, c) = groups
  <2>1. groups = [g \in DOMAIN groups |-> groups[g]]
    OBVIOUS
  <2> QED BY <1>4, <2>1 DEF Made
<1>6. \A g \in 1 .. Len(groups) : g \in KeptGroups(groups, c)
  BY <1>1, <1>5 DEF KeptGroups
<1>7. Picked(groups, KeptGroups(groups, c)) = groups
  BY <1>6, PickedAll
<1> QED BY <1>3, <1>5, <1>7, EnsureHookIs

\* The hooks of others in a group stay as they were.
LEMMA GroupOfOthers ==
    ASSUME NEW c \in Commands, NEW groups \in Seq(Hooks), NEW g \in DOMAIN groups
    PROVE  Only(Group(groups, g, c), Foreign) = Only(groups[g], Foreign)
<1> DEFINE s == [i \in DOMAIN groups[g] |-> Entry(groups[g][i], c)]
           K == {i \in DOMAIN groups[g] : Recognised(groups[g][i], c) => IsFirst(groups, g, i, c)}
           L == K \cap Where(s, Foreign)
           F == Where(groups[g], Foreign)
<1>1. s \in Hooks /\ Len(s) = Len(groups[g]) /\ groups[g] \in Hooks /\ Group(groups, g, c) = Picked(s, K)
  BY GroupType DEF Group
<1>2. DOMAIN groups[g] = 1 .. Len(s) /\ DOMAIN s = 1 .. Len(s)
  BY <1>1 DEF Hooks
<1>3. Only(Picked(s, K), Foreign) = Picked(s, L)
  <2> HIDE DEF s, K
  <2> QED BY <1>1, OnlyOfPicked DEF Hooks
<1>4. c \notin Foreign /\ Owned \cap Foreign = {}
  BY InstallAssumption
<1>5. \A i \in 1 .. Len(s) : (i \in L <=> i \in F) /\ (i \in L => s[i] = groups[g][i])
  <2> SUFFICES ASSUME NEW i \in 1 .. Len(s) PROVE (i \in L <=> i \in F) /\ (i \in L => s[i] = groups[g][i])
    OBVIOUS
  <2>1. s[i] = Entry(groups[g][i], c) /\ i \in DOMAIN groups[g] /\ i \in DOMAIN s
    BY <1>2
  <2>2. i \in F <=> groups[g][i] \in Foreign
    BY <2>1 DEF Where
  <2>3. i \in L <=> i \in K /\ s[i] \in Foreign
    BY <2>1 DEF Where
  <2>4. groups[g][i] \in Foreign => ~Recognised(groups[g][i], c)
    BY <1>4 DEF Recognised
  <2>5. s[i] \in Foreign => ~Recognised(groups[g][i], c)
    BY <1>4, <2>1 DEF Entry
  <2>6. ~Recognised(groups[g][i], c) => i \in K /\ s[i] = groups[g][i]
    BY <2>1 DEF Entry
  <2> HIDE DEF s, K, L, F
  <2> QED BY <2>2, <2>3, <2>4, <2>5, <2>6
<1> HIDE DEF s, K, L, F
<1>6. Picked(s, L) = Picked(groups[g], F)
  BY <1>1, <1>5, PickedSame DEF Hooks
<1> QED BY <1>1, <1>3, <1>6 DEF Only, F

\* Their hooks are what is neither ours nor named like ours.
LEMMA TheirHooksIs ==
    ASSUME NEW groups \in Seq(Hooks)
    PROVE  TheirHooks(groups) = Only(OnlyEach(groups, Foreign), Hooks \ {<<>>})
<1> DEFINE o == OnlyEach(groups, Foreign)
<1>1. o \in Seq(Hooks) /\ Len(o) = Len(groups) /\ DOMAIN groups = 1 .. Len(groups) /\ DOMAIN o = 1 .. Len(o)
  BY OnlyEachType DEF Hooks
<1>2. TheirHooks(groups) = Picked(o, {g \in DOMAIN groups : o[g] # <<>>})
  BY DEF TheirHooks, OnlyEach, Only
<1> HIDE DEF o
<1>3. {g \in DOMAIN groups : o[g] # <<>>} = Where(o, Hooks \ {<<>>})
  BY <1>1 DEF Where
<1> QED BY <1>2, <1>3 DEF Only, o

\* ensureHook keeps the hooks of others, in their order.
LEMMA HooksStay ==
    ASSUME NEW c \in Commands, NEW groups \in Seq(Hooks)
    PROVE  TheirHooks(EnsureHook(groups, c)) = TheirHooks(groups)
<1> DEFINE A == Hooks \ {<<>>}
           o == OnlyEach(groups, Foreign)
<1>1. DOMAIN groups = 1 .. Len(groups) /\ Len(groups) \in Nat
  OBVIOUS
<1>2. EnsureHook(groups, c) \in Seq(Hooks)
  BY EnsureHookIs
<1>3. o \in Seq(Hooks) /\ Len(o) = Len(groups) /\ \A g \in 1 .. Len(groups) : o[g] = Only(groups[g], Foreign)
  BY OnlyEachType DEF Hooks
<1> HIDE DEF o, A
<1>4. CASE ~HasHook(groups, c)
  <2>1. EnsureHook(groups, c) = Append(groups, <<c>>)
    BY <1>4, EnsureHookIs
  <2>2. Only(<<c>>, Foreign) = <<>>
    <3>1. <<c>> = Append(<<>>, c) /\ c \notin Foreign /\ <<>> \in Seq(Commands) /\ c \in Commands
      BY InstallAssumption
    <3>2. Only(Append(<<>>, c), Foreign) = Only(<<>>, Foreign)
      BY <3>1, OnlyAppend
    <3> QED BY <3>1, <3>2, OnlyEmpty
  <2>3. <<c>> \in Hooks /\ <<>> \in Hooks
    BY DEF Hooks
  <2>4. OnlyEach(Append(groups, <<c>>), Foreign) = Append(o, <<>>)
    BY <2>2, <2>3, OnlyEachAppend DEF o, Hooks
  <2>5. Only(Append(o, <<>>), A) = Only(o, A)
    <3>1. <<>> \notin A
      BY DEF A
    <3> QED BY <3>1, <1>3, <2>3, OnlyAppend
  <2> QED BY <1>2, <2>1, <2>4, <2>5, TheirHooksIs DEF o, A
<1>5. CASE HasHook(groups, c)
  <2> DEFINE w == Made(groups, c)
             K == KeptGroups(groups, c)
  <2>1. EnsureHook(groups, c) = Picked(w, K) /\ w \in Seq(Hooks) /\ Len(w) = Len(groups)
        /\ \A g \in DOMAIN groups : w[g] = Group(groups, g, c)
    BY <1>5, EnsureHookIs
  <2>2. \A g \in DOMAIN groups : w[g] # <<>> => g \in K
    BY DEF KeptGroups
  <2> HIDE DEF w, K
  <2>3. \A g \in DOMAIN groups : Only(w[g], Foreign) = Only(groups[g], Foreign)
    BY <2>1, GroupOfOthers
  <2>4. OnlyEach(w, Foreign) = o
    BY <2>1, <2>3, <1>1 DEF OnlyEach, o
  <2>5. OnlyEach(Picked(w, K), Foreign) = Picked(o, K)
    BY <2>1, <2>4, OnlyEachOfPicked DEF Hooks
  <2>6. Only(Picked(o, K), A) = Picked(o, K \cap Where(o, A))
    BY <1>3, OnlyOfPicked
  <2>7. ASSUME NEW g \in DOMAIN groups, o[g] # <<>> PROVE g \in K
    <3>1. Only(w[g], Foreign) # <<>>
      BY <1>1, <1>3, <2>3, <2>7
    <3>2. w[g] # <<>>
      BY <3>1, OnlyEmpty
    <3> QED BY <3>2, <2>2
  <2>8. \A g \in 1 .. Len(o) : g \in Where(o, A) => g \in K
    BY <1>1, <1>3, <2>7 DEF Where, A
  <2>9. Picked(o, K \cap Where(o, A)) = Picked(o, Where(o, A))
    BY <1>3, <2>8, PickedSame
  <2> QED BY <1>2, <2>1, <2>5, <2>6, <2>9, TheirHooksIs DEF Only, o, A
<1> QED BY <1>4, <1>5

-----------------------------------------------------------------------------
(* The plugins of OpenCode and the hook blocks of Codex                     *)

\* An entry of a plugin list.
Plugins == OurPlugins \cup PluginRefs \cup Foreign

\* The plugin list without the entries of ours.
Rest(plugins) == Picked(plugins, DOMAIN plugins \ Where(plugins, OurPlugins))

\* The rest holds no entry of ours.
LEMMA RestIs ==
    ASSUME NEW plugins \in Seq(Plugins)
    PROVE  /\ Rest(plugins) = Only(plugins, Plugins \ OurPlugins)
           /\ Rest(plugins) \in Seq(Plugins)
           /\ \A i \in DOMAIN Rest(plugins) : Rest(plugins)[i] \notin OurPlugins
           /\ Only(Rest(plugins), Plugins \ OurPlugins) = Rest(plugins)
           /\ Only(Rest(plugins), Foreign) = Only(plugins, Foreign)
<1> DEFINE A == Plugins \ OurPlugins
<1>1. DOMAIN plugins \ Where(plugins, OurPlugins) = Where(plugins, A)
  BY DEF Where
<1>2. Rest(plugins) = Only(plugins, A)
  BY <1>1 DEF Rest, Only
<1>3. Rest(plugins) \in Seq(Plugins)
  BY <1>2, PickedType DEF Only
<1> HIDE DEF A
<1>4. Only(Rest(plugins), A) = Rest(plugins)
  <2>1. Only(Picked(plugins, Where(plugins, A)), A) = Picked(plugins, Where(plugins, A) \cap Where(plugins, A))
    BY OnlyOfPicked
  <2>2. Where(plugins, A) \cap Where(plugins, A) = Where(plugins, A)
    OBVIOUS
  <2> QED BY <1>2, <2>1, <2>2 DEF Only
<1>5. Only(Rest(plugins), Foreign) = Only(plugins, Foreign)
  <2>1. Only(Picked(plugins, Where(plugins, A)), Foreign) = Picked(plugins, Where(plugins, A) \cap Where(plugins, Foreign))
    BY OnlyOfPicked
  <2>2. Where(plugins, A) \cap Where(plugins, Foreign) = Where(plugins, Foreign)
    BY InstallAssumption DEF Where, A, Plugins
  <2> QED BY <1>2, <2>1, <2>2 DEF Only
<1>6. \A i \in DOMAIN Rest(plugins) : Rest(plugins)[i] \in A
  <2>1. PICK e : Places(e, plugins, Where(plugins, A), Len(plugins), Rest(plugins))
    BY <1>2, PickedPlaces DEF Only
  <2>2. DOMAIN Rest(plugins) = 1 .. Len(Rest(plugins))
    BY <1>3
  <2> QED BY <2>1, <2>2 DEF Places, Where
<1> QED BY <1>2, <1>3, <1>4, <1>5, <1>6 DEF A

\* Patching puts the plugin in front of the rest, or leaves it where it is.
LEMMA PatchPluginsIs ==
    ASSUME NEW plugins \in Seq(Plugins), NEW r \in Flags
    PROVE  /\ PatchPlugins(plugins, r) = IF r.proxyOnly THEN Rest(plugins)
                                         ELSE IF r.resolved THEN Append(<<"mask">> \o Rest(plugins), "restore")
                                         ELSE <<r.pluginRef>> \o Rest(plugins)
           /\ PatchPlugins(plugins, r) \in Seq(Plugins)
           /\ <<"mask">> \o Rest(plugins) \in Seq(Plugins)
           /\ "mask" \in Plugins /\ "restore" \in Plugins /\ r.pluginRef \in Plugins
<1>1. Rest(plugins) \in Seq(Plugins)
  BY RestIs
<1>2. "mask" \in Plugins /\ "restore" \in Plugins /\ r.pluginRef \in Plugins
  BY DEF Plugins, OurPlugins, Flags
<1>3. (<<"mask">> \o Rest(plugins)) \o <<"restore">> = Append(<<"mask">> \o Rest(plugins), "restore")
  BY <1>1, <1>2
<1>4. /\ <<"mask">> \o Rest(plugins) \in Seq(Plugins)
      /\ Append(<<"mask">> \o Rest(plugins), "restore") \in Seq(Plugins)
      /\ <<r.pluginRef>> \o Rest(plugins) \in Seq(Plugins)
  BY <1>1, <1>2
<1>5. PatchPlugins(plugins, r) = IF r.proxyOnly THEN Rest(plugins)
                                 ELSE IF r.resolved THEN (<<"mask">> \o Rest(plugins)) \o <<"restore">>
                                 ELSE <<r.pluginRef>> \o Rest(plugins)
  BY DEF PatchPlugins, Rest
<1> QED BY <1>1, <1>2, <1>3, <1>4, <1>5

\* Patching the list keeps the plugins of others, in their order.
LEMMA PluginsStay ==
    ASSUME NEW plugins \in Seq(Plugins), NEW r \in Flags
    PROVE  Only(PatchPlugins(plugins, r), Foreign) = Only(plugins, Foreign)
<1> DEFINE R == Rest(plugins)
<1>1. /\ "mask" \notin Foreign /\ "restore" \notin Foreign /\ r.pluginRef \notin Foreign
      /\ "mask" \in Plugins /\ "restore" \in Plugins /\ r.pluginRef \in Plugins
  BY InstallAssumption DEF OurPlugins, Flags, Plugins
<1>2. R \in Seq(Plugins) /\ Only(R, Foreign) = Only(plugins, Foreign) /\ <<"mask">> \o R \in Seq(Plugins)
  BY RestIs, PatchPluginsIs
<1>3. PatchPlugins(plugins, r) = IF r.proxyOnly THEN R
                                 ELSE IF r.resolved THEN Append(<<"mask">> \o R, "restore")
                                 ELSE <<r.pluginRef>> \o R
  BY PatchPluginsIs
<1> HIDE DEF R
<1>4. Only(<<"mask">> \o R, Foreign) = Only(R, Foreign)
  BY <1>1, <1>2, OnlyBehind
<1>5. Only(Append(<<"mask">> \o R, "restore"), Foreign) = Only(<<"mask">> \o R, Foreign)
  <2> DEFINE m == <<"mask">> \o R
  <2>1. m \in Seq(Plugins)
    BY <1>2
  <2> HIDE DEF m
  <2>2. \A x \in Plugins : x \notin Foreign => Only(Append(m, x), Foreign) = Only(m, Foreign)
    BY <2>1, OnlyAppend
  <2>3. Only(Append(m, "restore"), Foreign) = Only(m, Foreign)
    BY <1>1, <2>2
  <2> QED BY <2>3 DEF m
<1>6. Only(<<r.pluginRef>> \o R, Foreign) = Only(R, Foreign)
  BY <1>1, <1>2, OnlyBehind
<1> QED BY <1>2, <1>3, <1>4, <1>5, <1>6

\* A second patch of the list changes nothing.
LEMMA PluginsAgain ==
    ASSUME NEW plugins \in Seq(Plugins), NEW r \in Flags,
           r.proxyOnly \/ r.resolved \/ r.pluginRef \in OurPlugins
    PROVE  PatchPlugins(PatchPlugins(plugins, r), r) = PatchPlugins(plugins, r)
<1> DEFINE R == Rest(plugins)
           q == PatchPlugins(plugins, r)
           A == Plugins \ OurPlugins
<1>1. /\ "mask" \notin A /\ "restore" \notin A
      /\ "mask" \in Plugins /\ "restore" \in Plugins /\ r.pluginRef \in Plugins
      /\ r.pluginRef \in OurPlugins => r.pluginRef \notin A
  BY DEF OurPlugins, Flags, Plugins
<1>2. R \in Seq(Plugins) /\ Only(R, A) = R /\ <<"mask">> \o R \in Seq(Plugins) /\ q \in Seq(Plugins)
  BY RestIs, PatchPluginsIs
<1>3. q = IF r.proxyOnly THEN R
          ELSE IF r.resolved THEN Append(<<"mask">> \o R, "restore")
          ELSE <<r.pluginRef>> \o R
  BY PatchPluginsIs
<1> HIDE DEF R, q
<1>4. Rest(q) = Only(q, A)
  BY <1>2, RestIs
<1> HIDE DEF A
<1>5. Only(<<"mask">> \o R, A) = Only(R, A)
  BY <1>1, <1>2, OnlyBehind
<1>6. Only(Append(<<"mask">> \o R, "restore"), A) = Only(<<"mask">> \o R, A)
  <2> DEFINE m == <<"mask">> \o R
  <2>1. m \in Seq(Plugins)
    BY <1>2
  <2> HIDE DEF m
  <2>2. \A x \in Plugins : x \notin A => Only(Append(m, x), A) = Only(m, A)
    BY <2>1, OnlyAppend
  <2>3. Only(Append(m, "restore"), A) = Only(m, A)
    BY <1>1, <2>2
  <2> QED BY <2>3 DEF m
<1>7. r.pluginRef \in OurPlugins => Only(<<r.pluginRef>> \o R, A) = Only(R, A)
  BY <1>1, <1>2, OnlyBehind
<1>8. Rest(q) = R
  BY <1>2, <1>3, <1>4, <1>5, <1>6, <1>7
<1>9. PatchPlugins(q, r) = IF r.proxyOnly THEN Rest(q)
                           ELSE IF r.resolved THEN Append(<<"mask">> \o Rest(q), "restore")
                           ELSE <<r.pluginRef>> \o Rest(q)
  BY <1>2, PatchPluginsIs
<1>10. PatchPlugins(q, r) = q
  BY <1>3, <1>8, <1>9
<1> QED BY <1>10 DEF q

\* What stands where when an installer has patched the plugins.
LEMMA PluginsAreRight ==
    ASSUME NEW plugins \in Seq(Plugins), NEW r \in Flags
    PROVE  LET q == PatchPlugins(plugins, r)
               ours == Where(q, OurPlugins)
           IN  /\ r.proxyOnly => ours = {}
               /\ ~r.proxyOnly /\ r.resolved =>
                      /\ q[1] = "mask" /\ Last(q) = "restore"
                      /\ ours = {1, Len(q)} /\ OrderIssues(q) = {}
               /\ ~r.proxyOnly /\ ~r.resolved => q[1] = r.pluginRef /\ ours \subseteq {1}
<1> DEFINE R == Rest(plugins)
           q == PatchPlugins(plugins, r)
           n == Len(R)
<1>1. R \in Seq(Plugins) /\ \A i \in DOMAIN R : R[i] \notin OurPlugins
  BY RestIs
<1>2. "mask" \in Plugins /\ "restore" \in Plugins /\ r.pluginRef \in Plugins /\ <<"mask">> \o R \in Seq(Plugins)
  BY PatchPluginsIs
<1>3. q = IF r.proxyOnly THEN R
          ELSE IF r.resolved THEN Append(<<"mask">> \o R, "restore")
          ELSE <<r.pluginRef>> \o R
  BY PatchPluginsIs
<1> HIDE DEF R, q
<1>4. DOMAIN R = 1 .. n /\ n \in Nat
  BY <1>1
<1>5. CASE r.proxyOnly
  BY <1>1, <1>3, <1>5 DEF Where, q
<1>6. CASE ~r.proxyOnly /\ ~r.resolved
  <2>1. /\ DOMAIN q = 1 .. n + 1 /\ q[1] = r.pluginRef
        /\ \A i \in 2 .. n + 1 : q[i] = R[i - 1] /\ i - 1 \in DOMAIN R
    <3>1. q = <<r.pluginRef>> \o R
      BY <1>3, <1>6
    <3> QED BY <1>1, <1>2, <3>1, InFront
  <2>3. \A i \in DOMAIN q : q[i] \in OurPlugins => i = 1
    <3> SUFFICES ASSUME NEW i \in DOMAIN q, i # 1 PROVE q[i] \notin OurPlugins
      OBVIOUS
    <3>1. i \in 2 .. n + 1
      BY <1>4, <2>1
    <3> QED BY <1>1, <2>1, <3>1
  <2>2. Where(q, OurPlugins) \subseteq {1}
    BY <2>3 DEF Where
  <2> QED BY <1>6, <2>1, <2>2 DEF q
<1>7. CASE ~r.proxyOnly /\ r.resolved
  <2>1. /\ DOMAIN q = 1 .. n + 2 /\ Len(q) = n + 2 /\ q[1] = "mask" /\ q[n + 2] = "restore"
        /\ \A i \in 2 .. n + 1 : q[i] = R[i - 1] /\ i - 1 \in DOMAIN R
    <3> DEFINE m == <<"mask">> \o R
    <3>1. m \in Seq(Plugins) /\ Len(m) = n + 1 /\ m[1] = "mask" /\ \A i \in 2 .. n + 1 : m[i] = R[i - 1] /\ i - 1 \in DOMAIN R
      BY <1>1, <1>2, <1>4
    <3>2. q = Append(m, "restore")
      BY <1>3, <1>7
    <3> HIDE DEF m
    <3>3. Len(q) = n + 2 /\ q[n + 2] = "restore" /\ DOMAIN q = 1 .. n + 2 /\ \A i \in 1 .. n + 1 : q[i] = m[i]
      BY <3>1, <3>2, <1>2, <1>4
    <3> QED BY <3>1, <3>3, <1>4
  <2>2. \A i \in 2 .. n + 1 : q[i] \notin OurPlugins
    BY <2>1, <1>1
  <2>3. \A i \in DOMAIN q : q[i] \in OurPlugins => i = 1 \/ i = n + 2
    BY <2>1, <2>2, <1>4
  <2>9. "mask" \in OurPlugins /\ "restore" \in OurPlugins /\ 1 \in DOMAIN q /\ n + 2 \in DOMAIN q
    BY <1>4, <2>1 DEF OurPlugins
  <2>4. Where(q, OurPlugins) = {1, n + 2}
    <3>1. 1 \in Where(q, OurPlugins) /\ n + 2 \in Where(q, OurPlugins)
      BY <2>1, <2>9 DEF Where
    <3>2. Where(q, OurPlugins) \subseteq {1, n + 2}
      BY <2>3 DEF Where
    <3> QED BY <3>1, <3>2
  <2>5. /\ Where(q, {"mask", "mask of old"}) = {1}
        /\ Where(q, {"restore", "restore of old"}) = {n + 2}
        /\ Where(q, {"whole"}) = {}
    <3>1. \A A \in SUBSET OurPlugins : Where(q, A) \subseteq {1, n + 2}
      BY <2>3 DEF Where
    <3>2. {"mask", "mask of old"} \in SUBSET OurPlugins /\ {"restore", "restore of old"} \in SUBSET OurPlugins
          /\ {"whole"} \in SUBSET OurPlugins
      BY DEF OurPlugins
    <3>3. 1 # n + 2
      BY <1>4
    <3>4. \A A : (1 \in Where(q, A) <=> q[1] \in A) /\ (n + 2 \in Where(q, A) <=> q[n + 2] \in A)
      BY <2>9 DEF Where
    <3>8. q[1] = "mask" /\ q[n + 2] = "restore"
      BY <2>1
    <3> DEFINE M == Where(q, {"mask", "mask of old"})
               Rs == Where(q, {"restore", "restore of old"})
               W == Where(q, {"whole"})
    <3>9. /\ M \subseteq {1, n + 2} /\ 1 \in M /\ n + 2 \notin M
          /\ Rs \subseteq {1, n + 2} /\ 1 \notin Rs /\ n + 2 \in Rs
          /\ W \subseteq {1, n + 2} /\ 1 \notin W /\ n + 2 \notin W
      <4>1. M \subseteq {1, n + 2} /\ Rs \subseteq {1, n + 2} /\ W \subseteq {1, n + 2}
        BY <2>3, <3>2 DEF Where
      <4>2. 1 \in M /\ n + 2 \notin M
        BY <2>9, <3>8 DEF Where
      <4>3. 1 \notin Rs /\ n + 2 \in Rs
        BY <2>9, <3>8 DEF Where
      <4>4. 1 \notin W /\ n + 2 \notin W
        BY <2>9, <3>8 DEF Where
      <4> QED BY <4>1, <4>2, <4>3, <4>4
    <3> HIDE DEF M, Rs, W
    <3>5. M = {1}
      BY <3>9
    <3>6. Rs = {n + 2}
      BY <3>9
    <3>7. W = {}
      BY <3>9
    <3> QED BY <3>5, <3>6, <3>7 DEF M, Rs, W
  <2>6. /\ (CHOOSE i \in {1} : \A j \in {1} : i <= j) = 1
        /\ (CHOOSE i \in {n + 2} : \A j \in {n + 2} : i >= j) = n + 2
    BY <1>4
  <2>7. OrderIssues(q) = {}
    <3> DEFINE masks == Where(q, {"mask", "mask of old"})
               restores == Where(q, {"restore", "restore of old"})
               mask == CHOOSE i \in masks : \A j \in masks : i <= j
               restore == CHOOSE i \in restores : \A j \in restores : i >= j
    <3>1. masks = {1} /\ restores = {n + 2}
      BY <2>5
    <3>2. mask = 1 /\ restore = n + 2
      BY <2>6, <3>1
    <3>3. OrderIssues(q) = IF masks \cup restores = {} THEN {} ELSE
              {issue \in {"double_registration"} : Where(q, {"whole"}) # {}}
              \cup {issue \in {"restore_before_mask"} : masks # {} /\ restores # {} /\ restore < mask}
              \cup {issue \in {"plugins_before_mask"} : masks # {} /\ mask > 1}
              \cup {issue \in {"plugins_after_restore"} : restores # {} /\ restore # Len(q)}
      BY DEF OrderIssues
    <3> HIDE DEF masks, restores, mask, restore
    <3>6. Len(q) = n + 2 /\ ~(n + 2 < 1) /\ ~(1 > 1)
      BY <1>4, <2>1
    <3>4. Where(q, {"whole"}) = {} /\ ~(restore < mask) /\ ~(mask > 1) /\ restore = Len(q)
      BY <2>5, <3>2, <3>6
    <3>5. \A k : {issue \in {k} : FALSE} = {}
      OBVIOUS
    <3> QED BY <3>3, <3>4, <3>5
  <2>8. Last(q) = "restore"
    BY <2>1 DEF Last
  <2> QED BY <1>7, <2>1, <2>4, <2>7, <2>8 DEF q
<1> QED BY <1>5, <1>6, <1>7

\* Where the command is already, the hooks of Codex stay as they are.
LEMMA BlocksAgain ==
    ASSUME NEW c, NEW blocks, Where(blocks, {c}) # {}
    PROVE  PatchHookBlocks(blocks, c) = blocks
<1>1. PICK i \in DOMAIN blocks : blocks[i] = c
  BY DEF Where
<1>2. i \in {j \in DOMAIN blocks : Recognised(blocks[j], c)}
  BY <1>1 DEF Recognised
<1> QED BY <1>1, <1>2 DEF PatchHookBlocks

\* The hooks of Codex have the command once they were patched.
LEMMA BlocksAreRight ==
    ASSUME NEW c \in Commands, NEW blocks \in Seq(Commands \cup Foreign)
    PROVE  LET q == PatchHookBlocks(blocks, c) IN
           q \in Seq(Commands \cup Foreign) /\ Where(q, {c}) # {}
<1> DEFINE owned == {i \in DOMAIN blocks : Recognised(blocks[i], c)}
           primary == CHOOSE i \in owned : \A j \in owned : i <= j
<1>1. PatchHookBlocks(blocks, c) = IF owned = {} THEN Append(blocks, c)
                                   ELSE IF \E i \in owned : blocks[i] = c THEN blocks
                                   ELSE [blocks EXCEPT ![primary] = c]
  BY DEF PatchHookBlocks
<1>2. CASE owned = {}
  <2>1. Append(blocks, c) \in Seq(Commands \cup Foreign)
        /\ Len(blocks) + 1 \in DOMAIN Append(blocks, c) /\ Append(blocks, c)[Len(blocks) + 1] = c
    OBVIOUS
  <2> QED BY <1>1, <1>2, <2>1 DEF Where
<1>3. CASE owned # {} /\ \E i \in owned : blocks[i] = c
  <2>1. Where(blocks, {c}) # {}
    BY <1>3 DEF Where
  <2> QED BY <1>1, <1>3, <2>1
<1>4. CASE owned # {} /\ ~(\E i \in owned : blocks[i] = c)
  <2>1. owned \in SUBSET Nat /\ owned \subseteq DOMAIN blocks
    OBVIOUS
  <2>2. primary \in owned
    <3> HIDE DEF owned
    <3>1. \E i \in owned : \A j \in owned : i <= j
      BY <1>4, <2>1, Least
    <3> QED BY <3>1
  <2>3. primary \in DOMAIN blocks
    BY <2>1, <2>2
  <2> HIDE DEF primary
  <2>4. /\ [blocks EXCEPT ![primary] = c] \in Seq(Commands \cup Foreign)
        /\ primary \in DOMAIN [blocks EXCEPT ![primary] = c] /\ [blocks EXCEPT ![primary] = c][primary] = c
    BY <2>3
  <2> QED BY <1>1, <1>4, <2>4 DEF Where
<1> QED BY <1>2, <1>3, <1>4

-----------------------------------------------------------------------------
(* What a patch makes of a file                                             *)

\* The URL of a host with one provider.
LEMMA OneUrl ==
    ASSUME NEW T, NEW p, NEW f \in [{p} -> T], NEW u \in T
    PROVE  [f EXCEPT ![p] = u] \in [{p} -> T] /\ [f EXCEPT ![p] = u][p] = u /\ f[p] \in T
OBVIOUS

\* The URLs of every provider after a patch.
LEMMA UrlsAre ==
    ASSUME NEW h \in Hosts, NEW r \in Flags, NEW content \in Contents(h)
    PROVE  LET urls == Patched(h, r, content).urls IN
           /\ urls \in [Providers(h) -> Addresses]
           /\ \A p \in Providers(h) :
                  urls[p] = IF r.root = "none" THEN content.urls[p] ELSE Put(content.urls[p], <<r.root, p>>)
<1> DEFINE T == Addresses
<1>1. content.urls \in [Providers(h) -> T] /\ r.root \in {"none"} \cup Roots
  BY DEF Contents, Flags
<1>2. Patched(h, r, content).urls =
          IF r.root = "none" THEN content.urls
          ELSE CASE h = "claude-code" -> PatchEnv(content.urls, r.root)
                 [] h = "opencode" -> PatchProviders(content.urls, r.root)
                 [] OTHER -> PatchRootKey(content.urls, r.root)
  BY DEF Patched
<1>3. r.root # "none" => \A p \in {"anthropic", "openai", "codex"} : <<r.root, p>> \in T
  BY <1>1 DEF Addresses
<1> HIDE DEF T
<1>7. r.root # "none" => \A u \in T : \A p \in {"anthropic", "openai", "codex"} : Put(u, <<r.root, p>>) \in T
  BY <1>3 DEF Put
<1>4. CASE h = "claude-code"
  <2>1. Patched(h, r, content).urls =
            IF r.root = "none" THEN content.urls
            ELSE [content.urls EXCEPT !["anthropic"] = Put(content.urls["anthropic"], <<r.root, "anthropic">>)]
    BY <1>2, <1>4 DEF PatchEnv
  <2>2. Providers(h) = {"anthropic"} /\ content.urls \in [{"anthropic"} -> T]
    BY <1>1, <1>4, HostNames
  <2>3. content.urls["anthropic"] \in T
    BY <2>2
  <2> DEFINE f == content.urls
             u == Put(f["anthropic"], <<r.root, "anthropic">>)
  <2>4. r.root # "none" => u \in T
    BY <1>7, <2>3
  <2> HIDE DEF u
  <2>6. f \in [{"anthropic"} -> T]
    BY <2>2
  <2> HIDE DEF f
  <2>5. r.root # "none" => [f EXCEPT !["anthropic"] = u] \in [{"anthropic"} -> T] /\ [f EXCEPT !["anthropic"] = u]["anthropic"] = u
    BY <2>6, <2>4, OneUrl
  <2>7. CASE r.root = "none"
    BY <1>1, <2>1, <2>7 DEF T
  <2>8. CASE r.root # "none"
    <3>1. Patched(h, r, content).urls = [f EXCEPT !["anthropic"] = u]
      BY <2>1, <2>8 DEF f, u
    <3>2. u = Put(content.urls["anthropic"], <<r.root, "anthropic">>)
      BY DEF f, u
    <3> QED BY <2>2, <2>5, <2>8, <3>1, <3>2 DEF T
  <2> QED BY <2>7, <2>8
<1>5. CASE h = "opencode"
  <2>1. Patched(h, r, content).urls =
            IF r.root = "none" THEN content.urls
            ELSE [p \in DOMAIN content.urls |-> Put(content.urls[p], <<r.root, p>>)]
    BY <1>2, <1>5 DEF PatchProviders
  <2>4. Providers(h) = {"anthropic", "openai"}
    BY <1>5, HostNames
  <2>2. DOMAIN content.urls = Providers(h)
        /\ \A p \in Providers(h) : content.urls[p] \in T
    BY <1>1, <2>4
  <2>3. r.root # "none" => \A p \in Providers(h) : Put(content.urls[p], <<r.root, p>>) \in T
    BY <1>7, <2>2, <2>4
  <2> DEFINE f == content.urls
             m == [p \in DOMAIN f |-> Put(f[p], <<r.root, p>>)]
  <2> HIDE DEF f
  <2>5. /\ r.root # "none" => m \in [Providers(h) -> T]
        /\ \A p \in Providers(h) : m[p] = Put(f[p], <<r.root, p>>)
    <3>1. DOMAIN f = Providers(h) /\ (r.root # "none" => \A p \in Providers(h) : Put(f[p], <<r.root, p>>) \in T)
      BY <2>2, <2>3 DEF f
    <3> QED BY <3>1
  <2> HIDE DEF m
  <2>7. CASE r.root = "none"
    BY <1>1, <2>1, <2>7 DEF T
  <2>8. CASE r.root # "none"
    <3>1. Patched(h, r, content).urls = m
      BY <2>1, <2>8 DEF f, m
    <3>2. \A p \in Providers(h) : m[p] = Put(content.urls[p], <<r.root, p>>)
      BY <2>5 DEF f
    <3> QED BY <2>5, <2>8, <3>1, <3>2 DEF T
  <2> QED BY <2>7, <2>8
<1>6. CASE h = "codex"
  <2>1. Patched(h, r, content).urls =
            IF r.root = "none" THEN content.urls
            ELSE [content.urls EXCEPT !["codex"] = Put(content.urls["codex"], <<r.root, "codex">>)]
    BY <1>2, <1>6 DEF PatchRootKey
  <2>2. Providers(h) = {"codex"} /\ content.urls \in [{"codex"} -> T]
    BY <1>1, <1>6, HostNames
  <2>3. content.urls["codex"] \in T
    BY <2>2
  <2> DEFINE f == content.urls
             u == Put(f["codex"], <<r.root, "codex">>)
  <2>4. r.root # "none" => u \in T
    BY <1>7, <2>3
  <2> HIDE DEF u
  <2>6. f \in [{"codex"} -> T]
    BY <2>2
  <2> HIDE DEF f
  <2>5. r.root # "none" => [f EXCEPT !["codex"] = u] \in [{"codex"} -> T] /\ [f EXCEPT !["codex"] = u]["codex"] = u
    BY <2>6, <2>4, OneUrl
  <2>7. CASE r.root = "none"
    BY <1>1, <2>1, <2>7 DEF T
  <2>8. CASE r.root # "none"
    <3>1. Patched(h, r, content).urls = [f EXCEPT !["codex"] = u]
      BY <2>1, <2>8 DEF f, u
    <3>2. u = Put(content.urls["codex"], <<r.root, "codex">>)
      BY DEF f, u
    <3> QED BY <2>2, <2>5, <2>8, <3>1, <3>2 DEF T
  <2> QED BY <2>7, <2>8
<1> QED BY <1>4, <1>5, <1>6, HostNames DEF T

\* A patched file is a file of its host.
LEMMA PatchedType ==
    ASSUME NEW h \in Hosts, NEW r \in Flags, NEW content \in Contents(h)
    PROVE  /\ Patched(h, r, content) \in Contents(h)
           /\ Patched(h, r, content).state = "text"
           /\ h = "claude-code" => /\ content.entries \in Seq(Hooks)
                                   /\ Patched(h, r, content).entries = EnsureHook(content.entries, r.command)
           /\ h = "opencode" => /\ content.entries \in Seq(Plugins)
                                /\ Patched(h, r, content).entries = PatchPlugins(content.entries, r)
           /\ h = "codex" => /\ content.entries \in Seq(Commands \cup Foreign)
                             /\ Patched(h, r, content).entries = PatchHookBlocks(content.entries, r.command)
           /\ r.command \in Commands
<1> DEFINE q == Patched(h, r, content)
<1>1. content.entries \in Seq(Entries(h)) /\ r.command \in Commands
  BY DEF Contents, Flags
<1>2. q.state = "text" /\ DOMAIN q = {"state", "entries", "urls"} /\ q = [state |-> q.state, entries |-> q.entries, urls |-> q.urls]
  BY DEF Patched
<1>3. q.entries = CASE h = "claude-code" -> EnsureHook(content.entries, r.command)
                    [] h = "opencode" -> PatchPlugins(content.entries, r)
                    [] OTHER -> PatchHookBlocks(content.entries, r.command)
  BY DEF Patched
<1>4. q.urls \in [Providers(h) -> Addresses]
  BY UrlsAre
<1>5. /\ h = "claude-code" => content.entries \in Seq(Hooks) /\ q.entries = EnsureHook(content.entries, r.command)
      /\ h = "opencode" => content.entries \in Seq(Plugins) /\ q.entries = PatchPlugins(content.entries, r)
      /\ h = "codex" => content.entries \in Seq(Commands \cup Foreign) /\ q.entries = PatchHookBlocks(content.entries, r.command)
  BY <1>1, <1>3, HostNames DEF Hooks, Plugins
<1> HIDE DEF q
<1>6. q.entries \in Seq(Entries(h))
  <2>1. CASE h = "claude-code"
    BY <2>1, <1>1, <1>5, EnsureHookIs, HostNames DEF Hooks
  <2>2. CASE h = "opencode"
    BY <2>2, <1>5, PatchPluginsIs, HostNames DEF Plugins
  <2>3. CASE h = "codex"
    BY <2>3, <1>1, <1>5, BlocksAreRight, HostNames
  <2> QED BY <2>1, <2>2, <2>3, HostNames
<1>7. q \in Contents(h)
  BY <1>2, <1>4, <1>6 DEF Contents
<1> QED BY <1>1, <1>2, <1>5, <1>7 DEF q

\* What others put there is what it was.
LEMMA TheirsStay ==
    ASSUME NEW h \in Hosts, NEW r \in Flags, NEW content \in Contents(h), h # "codex"
    PROVE  Theirs(h, Patched(h, r, content)) = Theirs(h, content)
<1>1. CASE h = "claude-code"
  BY <1>1, PatchedType, HooksStay DEF Theirs
<1>2. CASE h = "opencode"
  BY <1>2, PatchedType, PluginsStay DEF Theirs, Only
<1> QED BY <1>1, <1>2, HostNames

\* A second run changes nothing.
LEMMA PatchedAgain ==
    ASSUME NEW h \in Hosts, NEW r \in Flags, NEW content \in Contents(h),
           h = "opencode" => r.proxyOnly \/ IsKnown(h, r)
    PROVE  Patched(h, r, Patched(h, r, content)) = Patched(h, r, content)
<1> DEFINE q == Patched(h, r, content)
           t == Patched(h, r, q)
<1>1. q \in Contents(h) /\ q.state = "text" /\ r.command \in Commands
  BY PatchedType
<1>2. t \in Contents(h) /\ t.state = "text"
  BY <1>1, PatchedType
<1>3. t.entries = q.entries
  <2>1. CASE h = "claude-code"
    BY <2>1, <1>1, PatchedType, HookIsOne, HookAgain
  <2>2. CASE h = "opencode"
    <3>1. r.proxyOnly \/ r.resolved \/ r.pluginRef \in OurPlugins
      BY <2>2 DEF IsKnown
    <3>2. content.entries \in Seq(Plugins) /\ q.entries = PatchPlugins(content.entries, r)
      BY <2>2, PatchedType
    <3> HIDE DEF q
    <3>3. t.entries = PatchPlugins(q.entries, r)
      BY <2>2, <1>1, PatchedType
    <3> HIDE DEF t
    <3> QED BY <3>1, <3>2, <3>3, PluginsAgain
  <2>3. CASE h = "codex"
    <3>2. content.entries \in Seq(Commands \cup Foreign) /\ q.entries = PatchHookBlocks(content.entries, r.command)
      BY <2>3, PatchedType
    <3> HIDE DEF q
    <3>3. t.entries = PatchHookBlocks(q.entries, r.command)
      BY <2>3, <1>1, PatchedType
    <3> HIDE DEF t
    <3>4. Where(q.entries, {r.command}) # {}
      BY <1>1, <3>2, BlocksAreRight
    <3> QED BY <3>3, <3>4, BlocksAgain
  <2> QED BY <2>1, <2>2, <2>3, HostNames
<1>4. t.urls = q.urls
  <2>1. /\ q.urls \in [Providers(h) -> Addresses]
        /\ \A p \in Providers(h) :
               q.urls[p] = IF r.root = "none" THEN content.urls[p] ELSE Put(content.urls[p], <<r.root, p>>)
    BY UrlsAre
  <2> HIDE DEF q
  <2>2. /\ t.urls \in [Providers(h) -> Addresses]
        /\ \A p \in Providers(h) :
               t.urls[p] = IF r.root = "none" THEN q.urls[p] ELSE Put(q.urls[p], <<r.root, p>>)
    BY <1>1, UrlsAre
  <2>3. \A p \in Providers(h) : t.urls[p] = q.urls[p]
    BY <2>1, <2>2 DEF Put
  <2> HIDE DEF t
  <2> QED BY <2>1, <2>2, <2>3
<1> HIDE DEF q, t
<1>5. t = q
  BY <1>1, <1>2, <1>3, <1>4 DEF Contents
<1> QED BY <1>5 DEF q, t

-----------------------------------------------------------------------------
(* One step of an installer                                                 *)

\* The points of an invocation between its start and its end.
Active == {"read", "write", "fill", "config", "scan"}

\* The outcome of an installed host says what was read, and what was made of it.
OutcomesAreWritten ==
    \A i \in Invocations, h \in Hosts : outcome[i][h].kind = "installed" =>
        LET o == outcome[i][h] IN
        /\ pc[i] # "idle" /\ o.before \in Contents(h)
        /\ o.wrote = Patched(h, request[i], o.before)
        /\ o.enabled = Written(h, request[i], o.wrote.urls)

\* A missing file and a torn one are files of the host.
LEMMA EmptyFiles ==
    \A h \in Hosts : /\ Nothing(h) \in Contents(h) /\ Torn(h) \in Contents(h)
                     /\ Torn(h).state = "torn"
<1>1. Unset \in Addresses
  BY DEF Unset, Addresses
<1> SUFFICES ASSUME NEW h \in Hosts
             PROVE  Nothing(h) \in Contents(h) /\ Torn(h) \in Contents(h) /\ Torn(h).state = "torn"
  OBVIOUS
<1>2. <<>> \in Seq(Entries(h)) /\ [p \in Providers(h) |-> Unset] \in [Providers(h) -> Addresses]
  BY <1>1
<1>3. Torn(h) = [state |-> "torn", entries |-> <<>>, urls |-> [p \in Providers(h) |-> Unset]]
  BY DEF Torn, Nothing
<1> QED BY <1>2, <1>3 DEF Nothing, Contents

\* An invocation that is active has a request and a host to go on with.
LEMMA ActiveIs ==
    ASSUME InstallTypeOK, NEW i \in Invocations, pc[i] \in Active
    PROVE  /\ todo[i] \in Seq(Hosts) /\ todo[i] # <<>> /\ Host(i) \in Hosts /\ Tail(todo[i]) \in Seq(Hosts)
           /\ request[i] \in InstallRequests /\ request[i] \in Flags /\ request[i].scope \in Scopes
           /\ Path(i) \in Paths /\ Path(i) = <<Host(i), request[i].scope>> /\ Path(i)[1] = Host(i)
           /\ files[Path(i)] \in Contents(Host(i))
           /\ pc[i] # "idle"
<1>1. todo[i] \in Seq(Hosts) /\ todo[i] # <<>> /\ request[i] \in InstallRequests /\ pc[i] # "idle"
  BY DEF InstallTypeOK, Active
<1>2. Head(todo[i]) \in Hosts /\ Tail(todo[i]) \in Seq(Hosts)
  BY <1>1
<1>3. request[i] \in Flags
  BY <1>1, InstallAssumption
<1>4. request[i].scope \in Scopes
  BY <1>3 DEF Flags
<1>5. Path(i) \in Paths /\ Path(i) = <<Host(i), request[i].scope>> /\ Path(i)[1] = Host(i)
  BY <1>2, <1>4 DEF Path, Host, Paths
<1>6. files[Path(i)] \in Contents(Path(i)[1])
  BY <1>5 DEF InstallTypeOK
<1> QED BY <1>1, <1>2, <1>3, <1>4, <1>5, <1>6 DEF Host

\* What an ended host changes.
LEMMA EndedIs ==
    ASSUME InstallTypeOK, NEW i \in Invocations, pc[i] \in Active, NEW result, Ended(i, result)
    PROVE  /\ DOMAIN outcome' = Invocations /\ \A k \in Invocations : DOMAIN outcome'[k] = Hosts
           /\ \A k \in Invocations, h \in Hosts :
                  outcome'[k][h] = IF k = i /\ h = Host(i) THEN result ELSE outcome[k][h]
           /\ todo' \in [Invocations -> Seq(Hosts)] /\ todo'[i] = Tail(todo[i])
           /\ pc'[i] \in {"read", "done"} /\ (pc'[i] = "read" => todo'[i] # <<>>)
           /\ pc' \in [Invocations -> Active \cup {"idle", "done", "dead"}]
           /\ \A k \in Invocations \ {i} : pc'[k] = pc[k] /\ todo'[k] = todo[k]
<1>1. Host(i) \in Hosts /\ Tail(todo[i]) \in Seq(Hosts)
  BY ActiveIs
<1>2. outcome' = [outcome EXCEPT ![i][Host(i)] = result] /\ todo' = [todo EXCEPT ![i] = Tail(todo[i])]
      /\ pc' = [pc EXCEPT ![i] = IF Tail(todo[i]) = <<>> THEN "done" ELSE "read"]
  BY DEF Ended
<1>3. /\ DOMAIN outcome = Invocations /\ \A k \in Invocations : DOMAIN outcome[k] = Hosts
      /\ todo \in [Invocations -> Seq(Hosts)] /\ pc \in [Invocations -> Active \cup {"idle", "done", "dead"}]
  BY DEF InstallTypeOK, Active
<1>4. DOMAIN outcome' = Invocations /\ \A k \in Invocations : DOMAIN outcome'[k] = Hosts
  BY <1>2, <1>3
<1>5. \A k \in Invocations, h \in Hosts :
          outcome'[k][h] = IF k = i /\ h = Host(i) THEN result ELSE outcome[k][h]
  BY <1>1, <1>2, <1>3
<1>6. todo' \in [Invocations -> Seq(Hosts)] /\ todo'[i] = Tail(todo[i]) /\ \A k \in Invocations \ {i} : todo'[k] = todo[k]
  BY <1>1, <1>2, <1>3
<1>7. pc'[i] \in {"read", "done"} /\ (pc'[i] = "read" => todo'[i] # <<>>)
      /\ pc' \in [Invocations -> Active \cup {"idle", "done", "dead"}]
      /\ \A k \in Invocations \ {i} : pc'[k] = pc[k]
  BY <1>2, <1>3, <1>6 DEF Active
<1> QED BY <1>4, <1>5, <1>6, <1>7

\* A start gives the invocation a request and the hosts of it.
LEMMA StartTypes ==
    ASSUME InstallTypeOK, NEW i \in Invocations, NEW r \in InstallRequests, Start(i, r)
    PROVE  /\ pc[i] = "idle" /\ pc'[i] \in {"read", "done"} /\ (pc'[i] = "read" => todo'[i] # <<>>)
           /\ pc' \in [Invocations -> Active \cup {"idle", "done", "dead"}]
           /\ DOMAIN request' = Invocations /\ request'[i] = r
           /\ todo' \in [Invocations -> Seq(Hosts)] /\ todo'[i] = Picked(Order, Where(Order, Targets(r)))
           /\ \A k \in Invocations \ {i} : pc'[k] = pc[k] /\ request'[k] = request[k] /\ todo'[k] = todo[k]
           /\ UNCHANGED <<files, origin, stray, before, outcome>>
<1> DEFINE targets == Picked(Order, Where(Order, Targets(r)))
<1>1. targets \in Seq(Hosts)
  <2>1. Order \in Seq(Hosts)
    BY HostNames DEF Order
  <2> QED BY <2>1, PickedType
<1>2. /\ pc[i] = "idle" /\ request' = [request EXCEPT ![i] = r] /\ todo' = [todo EXCEPT ![i] = targets]
      /\ pc' = [pc EXCEPT ![i] = IF targets = <<>> THEN "done" ELSE "read"]
      /\ UNCHANGED <<files, origin, stray, before, outcome>>
  BY DEF Start
<1> HIDE DEF targets
<1>3. /\ DOMAIN request = Invocations /\ todo \in [Invocations -> Seq(Hosts)]
      /\ pc \in [Invocations -> Active \cup {"idle", "done", "dead"}]
  BY DEF InstallTypeOK, Active
<1>4. /\ pc'[i] \in {"read", "done"} /\ (pc'[i] = "read" => targets # <<>>)
      /\ pc' \in [Invocations -> Active \cup {"idle", "done", "dead"}]
      /\ \A k \in Invocations \ {i} : pc'[k] = pc[k]
  BY <1>2, <1>3 DEF Active
<1>5. /\ DOMAIN request' = Invocations /\ request'[i] = r
      /\ \A k \in Invocations \ {i} : request'[k] = request[k]
  BY <1>2, <1>3
<1>6. /\ todo' \in [Invocations -> Seq(Hosts)] /\ todo'[i] = targets
      /\ \A k \in Invocations \ {i} : todo'[k] = todo[k]
  BY <1>1, <1>2, <1>3
<1> QED BY <1>2, <1>4, <1>5, <1>6 DEF targets

\* The parts of the type invariant, one invocation at a time.
InvocationTypeOK(k) ==
    /\ pc[k] # "idle" => request[k] \in InstallRequests
    /\ pc[k] \in Active => todo[k] # <<>>
    /\ pc[k] \in {"write", "fill", "config", "scan"} =>
           before[k] \in Contents(Host(k)) /\ Readable(Host(k), before[k])
\* The files are settings of their hosts, or none.
FilesTypeOK ==
    /\ DOMAIN files = Paths /\ \A path \in Paths : files[path] \in Contents(path[1])
    /\ DOMAIN origin = Paths /\ \A path \in Paths : origin[path] \in Contents(path[1])
\* Every invocation has its point, its hosts to do and their outcomes.
ShapesOK ==
    /\ pc \in [Invocations -> Active \cup {"idle", "done", "dead"}]
    /\ todo \in [Invocations -> Seq(Hosts)]
    /\ DOMAIN request = Invocations /\ DOMAIN before = Invocations
    /\ DOMAIN outcome = Invocations /\ \A i \in Invocations : DOMAIN outcome[i] = Hosts

\* The type invariant, part by part.
LEMMA TypeParts == InstallTypeOK <=> FilesTypeOK /\ ShapesOK /\ \A k \in Invocations : InvocationTypeOK(k)
<1>1. Active \cup {"idle", "done", "dead"} = {"idle", "read", "write", "fill", "config", "scan", "done", "dead"}
  BY DEF Active
<1>2. Active = {"read", "write", "fill", "config", "scan"}
  BY DEF Active
<1> QED BY <1>1, <1>2, Zenon DEF InstallTypeOK, FilesTypeOK, ShapesOK, InvocationTypeOK

\* A step leaves invocation k alone.
Same(k) == pc'[k] = pc[k] /\ request'[k] = request[k] /\ todo'[k] = todo[k] /\ before'[k] = before[k]

\* A step of one invocation keeps the type when its own part is kept.
LEMMA StepTypes ==
    ASSUME InstallTypeOK, NEW i \in Invocations, \A k \in Invocations \ {i} : Same(k),
           FilesTypeOK', ShapesOK', InvocationTypeOK(i)'
    PROVE  InstallTypeOK'
<1>1. ASSUME NEW k \in Invocations PROVE InvocationTypeOK(k)'
  <2>1. CASE k = i
    BY <2>1
  <2>2. CASE k # i
    BY <2>2, TypeParts DEF Same, InvocationTypeOK, Host
  <2> QED BY <2>1, <2>2
<1>2. InstallTypeOK' <=> FilesTypeOK' /\ ShapesOK' /\ \A k \in Invocations : InvocationTypeOK(k)'
  BY <1>1 DEF InstallTypeOK, FilesTypeOK, ShapesOK, InvocationTypeOK, Active
<1> QED BY <1>1, <1>2

LEMMA StartKeepsTypes ==
    ASSUME InstallTypeOK, NEW i \in Invocations, NEW r \in InstallRequests, Start(i, r)
    PROVE  InstallTypeOK'
<1>1. FilesTypeOK' /\ ShapesOK'
  BY StartTypes, TypeParts DEF FilesTypeOK, ShapesOK
<1>2. InvocationTypeOK(i)'
  BY StartTypes DEF InvocationTypeOK, Active
<1>3. \A k \in Invocations \ {i} : Same(k)
  BY StartTypes DEF Same
<1> QED BY <1>1, <1>2, <1>3, StepTypes

LEMMA EndedKeepsTypes ==
    ASSUME InstallTypeOK, NEW i \in Invocations, pc[i] \in Active, NEW result, Ended(i, result),
           UNCHANGED <<files, origin, stray, request, before>>
    PROVE  InstallTypeOK'
<1>1. FilesTypeOK' /\ ShapesOK'
  BY EndedIs, TypeParts DEF FilesTypeOK, ShapesOK
<1>2. InvocationTypeOK(i)'
  <2>1. request[i] \in InstallRequests
    BY ActiveIs
  <2> QED BY <2>1, EndedIs DEF InvocationTypeOK, Active
<1>3. \A k \in Invocations \ {i} : Same(k)
  BY EndedIs DEF Same
<1> QED BY <1>1, <1>2, <1>3, StepTypes

\* The steps within a host: the next place, and what they read or write.
LEMMA MoveKeepsTypes ==
    ASSUME InstallTypeOK, NEW i \in Invocations, pc[i] \in Active, NEW p \in Active \cup {"dead"},
           pc' = [pc EXCEPT ![i] = p], UNCHANGED <<origin, stray, request, todo, outcome>>,
           FilesTypeOK', DOMAIN before' = Invocations,
           p \in {"write", "fill", "config", "scan"} =>
               before'[i] \in Contents(Host(i)) /\ Readable(Host(i), before'[i]),
           \A k \in Invocations \ {i} : before'[k] = before[k]
    PROVE  /\ InstallTypeOK' /\ pc'[i] = p /\ \A k \in Invocations \ {i} : Same(k)
           /\ \A k \in Invocations : Path(k)' = Path(k) /\ Host(k)' = Host(k)
<1>1. ShapesOK
  BY TypeParts
<1>2. pc'[i] = p /\ \A k \in Invocations \ {i} : pc'[k] = pc[k]
  BY <1>1 DEF ShapesOK
<1>3. ShapesOK'
  BY <1>1 DEF ShapesOK
<1>4. InvocationTypeOK(i)'
  BY <1>2, ActiveIs DEF InvocationTypeOK, Host
<1>5. \A k \in Invocations \ {i} : Same(k)
  BY <1>2 DEF Same
<1>6. \A k \in Invocations : Path(k)' = Path(k) /\ Host(k)' = Host(k)
  BY DEF Path, Host
<1> QED BY <1>2, <1>3, <1>4, <1>5, <1>6, StepTypes

\* Putting one file leaves the others.
LEMMA PutFile ==
    ASSUME InstallTypeOK, NEW path \in Paths, NEW content \in Contents(path[1]),
           files' = [files EXCEPT ![path] = content], UNCHANGED origin
    PROVE  /\ FilesTypeOK' /\ files'[path] = content
           /\ \A other \in Paths \ {path} : files'[other] = files[other]
  BY TypeParts DEF FilesTypeOK

\* What each step within a host does, besides.
LEMMA ReadIs ==
    ASSUME InstallTypeOK, NEW i \in Invocations, Read(i), Readable(Host(i), files[Path(i)])
    PROVE  /\ InstallTypeOK' /\ pc[i] = "read" /\ pc'[i] = "write" /\ before'[i] = files[Path(i)]
           /\ \A k \in Invocations \ {i} : Same(k)
           /\ \A k \in Invocations : Path(k)' = Path(k) /\ Host(k)' = Host(k)
           /\ UNCHANGED <<files, origin, stray, request, todo, outcome>>
<1>1. /\ pc[i] = "read" /\ before' = [before EXCEPT ![i] = files[Path(i)]] /\ pc' = [pc EXCEPT ![i] = "write"]
      /\ UNCHANGED <<files, origin, stray, request, todo, outcome>>
  BY DEF Read
<1>2. pc[i] \in Active /\ "write" \in Active \cup {"dead"}
  BY <1>1 DEF Active
<1>3. files[Path(i)] \in Contents(Host(i))
  BY <1>2, ActiveIs
<1>4. DOMAIN before = Invocations /\ FilesTypeOK
  BY TypeParts DEF ShapesOK
<1>5. DOMAIN before' = Invocations /\ before'[i] = files[Path(i)] /\ \A k \in Invocations \ {i} : before'[k] = before[k]
  BY <1>1, <1>4
<1>6. FilesTypeOK'
  BY <1>1, <1>4 DEF FilesTypeOK
<1> QED BY <1>1, <1>2, <1>3, <1>5, <1>6, MoveKeepsTypes

\* Opening a file truncates it; a dry run opens none.
LEMMA OpenIs ==
    ASSUME InstallTypeOK, NEW i \in Invocations, Open(i)
    PROVE  /\ InstallTypeOK' /\ pc[i] = "write" /\ \A k \in Invocations \ {i} : Same(k)
           /\ \A k \in Invocations : Path(k)' = Path(k) /\ Host(k)' = Host(k)
           /\ UNCHANGED <<origin, stray, request, todo, outcome, before>>
           /\ IF request[i].dryRun THEN pc'[i] = "scan" /\ files' = files
              ELSE /\ pc'[i] = "fill" /\ files'[Path(i)].state = "torn"
                   /\ \A other \in Paths \ {Path(i)} : files'[other] = files[other]
<1>1. pc[i] = "write" /\ UNCHANGED <<origin, stray, request, todo, before, outcome>>
  BY DEF Open
<1>2. pc[i] \in Active /\ "scan" \in Active \cup {"dead"} /\ "fill" \in Active \cup {"dead"}
  BY <1>1 DEF Active
<1>3. DOMAIN before' = Invocations /\ before'[i] \in Contents(Host(i)) /\ Readable(Host(i), before'[i]) /\ FilesTypeOK
  BY <1>1, TypeParts DEF ShapesOK, InvocationTypeOK
<1>4. Path(i) \in Paths /\ Path(i)[1] = Host(i) /\ Torn(Host(i)) \in Contents(Host(i)) /\ Torn(Host(i)).state = "torn"
  BY <1>2, ActiveIs, EmptyFiles
<1>5. CASE request[i].dryRun
  <2>1. pc' = [pc EXCEPT ![i] = "scan"] /\ files' = files
    BY <1>5 DEF Open
  <2>2. FilesTypeOK'
    BY <1>1, <1>3, <2>1 DEF FilesTypeOK
  <2> QED BY <1>1, <1>2, <1>3, <1>5, <2>1, <2>2, MoveKeepsTypes
<1>6. CASE ~request[i].dryRun
  <2>1. pc' = [pc EXCEPT ![i] = "fill"] /\ files' = [files EXCEPT ![Path(i)] = Torn(Host(i))]
    BY <1>6 DEF Open
  <2>2. FilesTypeOK' /\ files'[Path(i)].state = "torn" /\ \A other \in Paths \ {Path(i)} : files'[other] = files[other]
    BY <1>1, <1>4, <2>1, PutFile
  <2> QED BY <1>1, <1>2, <1>3, <1>6, <2>1, <2>2, MoveKeepsTypes
<1> QED BY <1>5, <1>6

\* The opened file gets the patch of what was read.
LEMMA FillIs ==
    ASSUME InstallTypeOK, NEW i \in Invocations, Fill(i)
    PROVE  /\ InstallTypeOK' /\ pc[i] = "fill" /\ pc'[i] = "config" /\ \A k \in Invocations \ {i} : Same(k)
           /\ \A k \in Invocations : Path(k)' = Path(k) /\ Host(k)' = Host(k)
           /\ UNCHANGED <<origin, stray, request, todo, outcome, before>>
           /\ before[i] \in Contents(Host(i))
           /\ files'[Path(i)] = Patched(Host(i), request[i], before[i])
           /\ \A other \in Paths \ {Path(i)} : files'[other] = files[other]
<1>1. /\ pc[i] = "fill" /\ pc' = [pc EXCEPT ![i] = "config"]
      /\ files' = [files EXCEPT ![Path(i)] = Patched(Host(i), request[i], before[i])]
      /\ UNCHANGED <<origin, stray, request, todo, before, outcome>>
  BY DEF Fill
<1>2. pc[i] \in Active /\ "config" \in Active \cup {"dead"}
  BY <1>1 DEF Active
<1>3. DOMAIN before' = Invocations /\ before'[i] \in Contents(Host(i)) /\ Readable(Host(i), before'[i])
  BY <1>1, TypeParts DEF ShapesOK, InvocationTypeOK
<1>4. Path(i) \in Paths /\ Path(i)[1] = Host(i) /\ Host(i) \in Hosts /\ request[i] \in Flags
  BY <1>2, ActiveIs
<1>5. Patched(Host(i), request[i], before[i]) \in Contents(Host(i))
  BY <1>1, <1>3, <1>4, PatchedType
<1>6. /\ FilesTypeOK' /\ files'[Path(i)] = Patched(Host(i), request[i], before[i])
      /\ \A other \in Paths \ {Path(i)} : files'[other] = files[other]
  BY <1>1, <1>4, <1>5, PutFile
<1> QED BY <1>1, <1>2, <1>3, <1>6, MoveKeepsTypes

\* A step that only moves an invocation on, or kills it.
LEMMA WaitIs ==
    ASSUME InstallTypeOK, NEW i \in Invocations, pc[i] \in Active, NEW p \in {"scan", "dead"},
           p = "scan" => pc[i] = "config",
           pc' = [pc EXCEPT ![i] = p], UNCHANGED <<files, origin, stray, request, todo, before, outcome>>
    PROVE  /\ InstallTypeOK' /\ pc'[i] = p /\ \A k \in Invocations \ {i} : Same(k)
           /\ \A k \in Invocations : Path(k)' = Path(k) /\ Host(k)' = Host(k)
<1>1. DOMAIN before' = Invocations /\ FilesTypeOK /\ InvocationTypeOK(i)
  BY TypeParts DEF ShapesOK
<1>2. FilesTypeOK'
  BY <1>1 DEF FilesTypeOK
<1>3. p \in Active \cup {"dead"}
  BY DEF Active
<1>4. p \in {"write", "fill", "config", "scan"} =>
          before'[i] \in Contents(Host(i)) /\ Readable(Host(i), before'[i])
  BY <1>1 DEF InvocationTypeOK
<1> QED BY <1>1, <1>2, <1>3, <1>4, MoveKeepsTypes

-----------------------------------------------------------------------------
(* What one installation writes, and what it leaves                         *)

\* What others had in a file at first is in every file that is whole, and in what
\* was read of it.
TheirsAreThere ==
    /\ \A path \in Paths : path[1] # "codex" /\ files[path].state # "torn" =>
           Theirs(path[1], files[path]) = Theirs(path[1], origin[path])
    /\ \A i \in Invocations : pc[i] \in {"write", "fill"} /\ Host(i) # "codex" =>
           Theirs(Host(i), before[i]) = Theirs(Host(i), origin[Path(i)])

\* What has been read and written: the report is of the patch that was made, and what
\* others put into a file is there, unless it is cut off.
WrittenInv == InstallTypeOK /\ OutcomesAreWritten /\ TheirsAreThere

\* A step that ends no host.
LEMMA OutcomesMove ==
    ASSUME WrittenInv, NEW i \in Invocations, pc[i] # "idle", pc'[i] # "idle",
           \A k \in Invocations \ {i} : Same(k), UNCHANGED <<request, outcome>>
    PROVE  OutcomesAreWritten'
<1> SUFFICES ASSUME NEW k \in Invocations, NEW h \in Hosts, outcome'[k][h].kind = "installed"
             PROVE  LET o == outcome'[k][h] IN
                    /\ pc'[k] # "idle" /\ o.before \in Contents(h)
                    /\ o.wrote = Patched(h, request'[k], o.before)
                    /\ o.enabled = Written(h, request'[k], o.wrote.urls)
  BY DEF OutcomesAreWritten
<1>1. pc[k] # "idle" => pc'[k] # "idle"
  BY DEF Same
<1> QED BY <1>1 DEF WrittenInv, OutcomesAreWritten

\* A step that ends one.
LEMMA OutcomesEnd ==
    ASSUME WrittenInv, NEW i \in Invocations, pc[i] \in Active, NEW result, Ended(i, result),
           UNCHANGED <<files, origin, stray, request, before>>,
           result.kind = "installed" =>
               /\ result.before \in Contents(Host(i))
               /\ result.wrote = Patched(Host(i), request[i], result.before)
               /\ result.enabled = Written(Host(i), request[i], result.wrote.urls)
    PROVE  WrittenInv'
<1>1. InstallTypeOK' /\ pc[i] # "idle"
  BY EndedKeepsTypes, ActiveIs DEF WrittenInv
<1>2. /\ \A k \in Invocations, h \in Hosts :
             outcome'[k][h] = IF k = i /\ h = Host(i) THEN result ELSE outcome[k][h]
      /\ pc'[i] \in {"read", "done"}
      /\ \A k \in Invocations \ {i} : pc'[k] = pc[k] /\ todo'[k] = todo[k]
  BY EndedIs DEF WrittenInv
<1>3. OutcomesAreWritten'
  <2> SUFFICES ASSUME NEW k \in Invocations, NEW h \in Hosts, outcome'[k][h].kind = "installed"
               PROVE  LET o == outcome'[k][h] IN
                      /\ pc'[k] # "idle" /\ o.before \in Contents(h)
                      /\ o.wrote = Patched(h, request[k], o.before)
                      /\ o.enabled = Written(h, request[k], o.wrote.urls)
    BY DEF OutcomesAreWritten
  <2>1. CASE k = i /\ h = Host(i)
    BY <1>2, <2>1
  <2>2. CASE ~(k = i /\ h = Host(i))
    <3>1. outcome'[k][h] = outcome[k][h]
      BY <1>2, <2>2
    <3>2. pc[k] # "idle" => pc'[k] # "idle"
      BY <1>2
    <3> QED BY <3>1, <3>2 DEF WrittenInv, OutcomesAreWritten
  <2> QED BY <2>1, <2>2
<1>4. TheirsAreThere'
  <2>1. ASSUME NEW k \in Invocations, pc'[k] \in {"write", "fill"}, Host(k)' # "codex"
        PROVE  Theirs(Host(k)', before'[k]) = Theirs(Host(k)', origin'[Path(k)'])
    <3>1. k # i /\ pc'[k] = pc[k] /\ todo'[k] = todo[k]
      BY <1>2, <2>1
    <3>2. Host(k)' = Host(k) /\ Path(k)' = Path(k)
      BY <3>1 DEF Host, Path
    <3> QED BY <2>1, <3>1, <3>2 DEF WrittenInv, TheirsAreThere
  <2>2. \A path \in Paths : path[1] # "codex" /\ files'[path].state # "torn" =>
            Theirs(path[1], files'[path]) = Theirs(path[1], origin'[path])
    BY DEF WrittenInv, TheirsAreThere
  <2> QED BY <2>1, <2>2 DEF TheirsAreThere
<1> QED BY <1>1, <1>3, <1>4 DEF WrittenInv

\* Others have theirs of what they read: only a file and one installer's copy move.
LEMMA TheirsMove ==
    ASSUME WrittenInv, NEW i \in Invocations, Path(i) \in Paths, Path(i)[1] = Host(i),
           \A k \in Invocations \ {i} : Same(k), UNCHANGED <<origin, request, todo>>,
           \A other \in Paths \ {Path(i)} : files'[other] = files[other],
           Host(i) # "codex" /\ files'[Path(i)].state # "torn" =>
               Theirs(Host(i), files'[Path(i)]) = Theirs(Host(i), origin[Path(i)]),
           Host(i) # "codex" /\ pc'[i] \in {"write", "fill"} =>
               Theirs(Host(i), before'[i]) = Theirs(Host(i), origin[Path(i)])
    PROVE  TheirsAreThere'
<1>1. ASSUME NEW path \in Paths, path[1] # "codex", files'[path].state # "torn"
      PROVE  Theirs(path[1], files'[path]) = Theirs(path[1], origin'[path])
  <2>1. CASE path = Path(i)
    BY <1>1, <2>1
  <2>2. CASE path # Path(i)
    BY <1>1, <2>2 DEF WrittenInv, TheirsAreThere
  <2> QED BY <2>1, <2>2
<1>2. ASSUME NEW k \in Invocations, pc'[k] \in {"write", "fill"}, Host(k)' # "codex"
      PROVE  Theirs(Host(k)', before'[k]) = Theirs(Host(k)', origin'[Path(k)'])
  <2>1. Host(k)' = Host(k) /\ Path(k)' = Path(k)
    BY DEF Host, Path
  <2>2. CASE k = i
    BY <1>2, <2>1, <2>2
  <2>3. CASE k # i
    BY <1>2, <2>1, <2>3 DEF WrittenInv, TheirsAreThere, Same
  <2> QED BY <2>2, <2>3
<1> QED BY <1>1, <1>2 DEF TheirsAreThere

LEMMA StartKeepsWritten ==
    ASSUME WrittenInv, NEW i \in Invocations, NEW r \in InstallRequests, Start(i, r)
    PROVE  WrittenInv'
<1>1. InstallTypeOK'
  BY StartKeepsTypes DEF WrittenInv
<1>2. /\ pc[i] = "idle" /\ pc'[i] \in {"read", "done"}
      /\ \A k \in Invocations \ {i} : pc'[k] = pc[k] /\ request'[k] = request[k] /\ todo'[k] = todo[k]
      /\ UNCHANGED <<files, origin, stray, before, outcome>>
  BY StartTypes DEF WrittenInv
<1>3. OutcomesAreWritten'
  <2> SUFFICES ASSUME NEW k \in Invocations, NEW h \in Hosts, outcome'[k][h].kind = "installed"
               PROVE  LET o == outcome'[k][h] IN
                      /\ pc'[k] # "idle" /\ o.before \in Contents(h)
                      /\ o.wrote = Patched(h, request'[k], o.before)
                      /\ o.enabled = Written(h, request'[k], o.wrote.urls)
    BY DEF OutcomesAreWritten
  <2>1. pc[k] # "idle"
    BY <1>2 DEF WrittenInv, OutcomesAreWritten
  <2>2. k # i
    BY <1>2, <2>1
  <2> QED BY <1>2, <2>2 DEF WrittenInv, OutcomesAreWritten
<1>4. TheirsAreThere'
  <2>1. ASSUME NEW k \in Invocations, pc'[k] \in {"write", "fill"}, Host(k)' # "codex"
        PROVE  Theirs(Host(k)', before'[k]) = Theirs(Host(k)', origin'[Path(k)'])
    <3>1. k # i /\ pc'[k] = pc[k] /\ todo'[k] = todo[k] /\ request'[k] = request[k]
      BY <1>2, <2>1
    <3>2. Host(k)' = Host(k) /\ Path(k)' = Path(k)
      BY <3>1 DEF Host, Path
    <3> QED BY <1>2, <2>1, <3>1, <3>2 DEF WrittenInv, TheirsAreThere
  <2> QED BY <1>2, <2>1 DEF WrittenInv, TheirsAreThere
<1> QED BY <1>1, <1>3, <1>4 DEF WrittenInv

LEMMA ReadKeepsWritten == ASSUME WrittenInv, NEW i \in Invocations, Read(i) PROVE WrittenInv'
<1>0. InstallTypeOK
  BY DEF WrittenInv
<1>1. pc[i] = "read" /\ pc[i] \in Active
  BY DEF Read, Active
<1>2. CASE Readable(Host(i), files[Path(i)])
  <2>1. /\ InstallTypeOK' /\ pc'[i] = "write" /\ before'[i] = files[Path(i)]
        /\ \A k \in Invocations \ {i} : Same(k)
        /\ UNCHANGED <<files, origin, stray, request, todo, outcome>>
    BY <1>0, <1>2, ReadIs
  <2>2. Path(i) \in Paths /\ Path(i)[1] = Host(i)
    BY <1>0, <1>1, ActiveIs
  <2>3. Host(i) # "codex" /\ files[Path(i)].state # "torn" =>
            Theirs(Host(i), files[Path(i)]) = Theirs(Host(i), origin[Path(i)])
    BY <2>2 DEF WrittenInv, TheirsAreThere
  <2>4. Host(i) # "codex" => files[Path(i)].state # "torn"
    BY <1>2 DEF Readable
  <2>5. TheirsAreThere'
    BY <2>1, <2>2, <2>3, <2>4, TheirsMove
  <2>6. OutcomesAreWritten'
    BY <1>1, <2>1, OutcomesMove
  <2> QED BY <2>1, <2>5, <2>6 DEF WrittenInv
<1>3. CASE ~Readable(Host(i), files[Path(i)])
  <2>1. Ended(i, [kind |-> "failed"]) /\ UNCHANGED <<files, origin, stray, request, before>>
    BY <1>3 DEF Read
  <2> QED BY <1>1, <2>1, OutcomesEnd
<1> QED BY <1>2, <1>3

LEMMA OpenKeepsWritten == ASSUME WrittenInv, NEW i \in Invocations, Open(i) PROVE WrittenInv'
<1>0. InstallTypeOK
  BY DEF WrittenInv
<1>1. /\ InstallTypeOK' /\ pc[i] = "write" /\ \A k \in Invocations \ {i} : Same(k)
      /\ UNCHANGED <<origin, stray, request, todo, outcome, before>>
      /\ IF request[i].dryRun THEN pc'[i] = "scan" /\ files' = files
         ELSE /\ pc'[i] = "fill" /\ files'[Path(i)].state = "torn"
              /\ \A other \in Paths \ {Path(i)} : files'[other] = files[other]
  BY <1>0, OpenIs
<1>2. pc[i] \in Active
  BY <1>1 DEF Active
<1>3. Path(i) \in Paths /\ Path(i)[1] = Host(i)
  BY <1>0, <1>2, ActiveIs
<1>4. Host(i) # "codex" => Theirs(Host(i), before[i]) = Theirs(Host(i), origin[Path(i)])
  BY <1>1 DEF WrittenInv, TheirsAreThere
<1>5. Host(i) # "codex" /\ files[Path(i)].state # "torn" =>
          Theirs(Host(i), files[Path(i)]) = Theirs(Host(i), origin[Path(i)])
  BY <1>3 DEF WrittenInv, TheirsAreThere
<1>6. Host(i) # "codex" /\ files'[Path(i)].state # "torn" =>
          Theirs(Host(i), files'[Path(i)]) = Theirs(Host(i), origin[Path(i)])
  BY <1>1, <1>5
<1>7. TheirsAreThere'
  <2>1. \A other \in Paths \ {Path(i)} : files'[other] = files[other]
    BY <1>1
  <2> QED BY <1>1, <1>3, <1>4, <1>6, <2>1, TheirsMove
<1>8. OutcomesAreWritten'
  BY <1>1, OutcomesMove
<1> QED BY <1>1, <1>7, <1>8 DEF WrittenInv

LEMMA FillKeepsWritten == ASSUME WrittenInv, NEW i \in Invocations, Fill(i) PROVE WrittenInv'
<1>0. InstallTypeOK
  BY DEF WrittenInv
<1>1. /\ InstallTypeOK' /\ pc[i] = "fill" /\ pc'[i] = "config" /\ \A k \in Invocations \ {i} : Same(k)
      /\ UNCHANGED <<origin, stray, request, todo, outcome, before>>
      /\ before[i] \in Contents(Host(i))
      /\ files'[Path(i)] = Patched(Host(i), request[i], before[i])
      /\ \A other \in Paths \ {Path(i)} : files'[other] = files[other]
  BY <1>0, FillIs
<1>2. pc[i] \in Active
  BY <1>1 DEF Active
<1>3. Path(i) \in Paths /\ Path(i)[1] = Host(i) /\ Host(i) \in Hosts /\ request[i] \in Flags
  BY <1>0, <1>2, ActiveIs
<1>4. Host(i) # "codex" => Theirs(Host(i), before[i]) = Theirs(Host(i), origin[Path(i)])
  BY <1>1 DEF WrittenInv, TheirsAreThere
<1>5. Host(i) # "codex" => Theirs(Host(i), files'[Path(i)]) = Theirs(Host(i), origin[Path(i)])
  BY <1>1, <1>3, <1>4, TheirsStay
<1>6. TheirsAreThere'
  BY <1>1, <1>3, <1>5, TheirsMove
<1>7. OutcomesAreWritten'
  BY <1>1, OutcomesMove
<1> QED BY <1>1, <1>6, <1>7 DEF WrittenInv

LEMMA WaitKeepsWritten ==
    ASSUME WrittenInv, NEW i \in Invocations, Config(i) \/ Die(i) PROVE WrittenInv'
<1>0. InstallTypeOK
  BY DEF WrittenInv
<1>1. pc[i] \in Active
  BY <1>0, TypeParts DEF Config, Die, Active, ShapesOK
<1>2. \E p \in {"scan", "dead"} : (p = "scan" => pc[i] = "config") /\ pc' = [pc EXCEPT ![i] = p]
  BY DEF Config, Die
<1>3. UNCHANGED <<files, origin, stray, request, todo, before, outcome>>
  BY DEF Config, Die
<1>4. PICK p \in {"scan", "dead"} : (p = "scan" => pc[i] = "config") /\ pc' = [pc EXCEPT ![i] = p]
  BY <1>2
<1>5. InstallTypeOK' /\ pc'[i] = p /\ \A k \in Invocations \ {i} : Same(k)
  BY <1>0, <1>1, <1>3, <1>4, WaitIs
<1>6. Path(i) \in Paths /\ Path(i)[1] = Host(i) /\ pc[i] # "idle"
  BY <1>0, <1>1, ActiveIs
<1>7. OutcomesAreWritten'
  BY <1>3, <1>5, <1>6, OutcomesMove
<1>8. Host(i) # "codex" /\ files[Path(i)].state # "torn" =>
          Theirs(Host(i), files[Path(i)]) = Theirs(Host(i), origin[Path(i)])
  BY <1>6 DEF WrittenInv, TheirsAreThere
<1>9. TheirsAreThere'
  BY <1>3, <1>5, <1>6, <1>8, TheirsMove
<1> QED BY <1>5, <1>7, <1>9 DEF WrittenInv

LEMMA EndKeepsWritten ==
    ASSUME WrittenInv, NEW i \in Invocations, Throw(i) \/ Scan(i) PROVE WrittenInv'
<1>0. InstallTypeOK
  BY DEF WrittenInv
<1>1. CASE Throw(i)
  <2>1. pc[i] \in Active /\ Ended(i, [kind |-> "failed"]) /\ UNCHANGED <<files, origin, stray, request, before>>
    BY <1>1 DEF Throw, Active
  <2> QED BY <2>1, OutcomesEnd
<1>2. CASE Scan(i)
  <2> DEFINE wrote == Patched(Host(i), request[i], before[i])
             result == [kind |-> "installed", before |-> before[i], wrote |-> wrote,
                        enabled |-> Written(Host(i), request[i], wrote.urls),
                        rivals |-> Rivals(Host(i), request[i])]
  <2>1. pc[i] = "scan" /\ Ended(i, result) /\ UNCHANGED <<files, origin, stray, request, before>>
    BY <1>2 DEF Scan
  <2>2. pc[i] \in Active /\ before[i] \in Contents(Host(i))
    BY <1>0, <2>1, TypeParts DEF Active, InvocationTypeOK
  <2>3. /\ result.kind = "installed" /\ result.before = before[i] /\ result.wrote = wrote
        /\ result.enabled = Written(Host(i), request[i], wrote.urls)
    OBVIOUS
  <2> HIDE DEF result
  <2> QED BY <2>1, <2>2, <2>3, OutcomesEnd
<1> QED BY <1>1, <1>2

LEMMA WrittenAtFirst == InstallInit => WrittenInv
<1> SUFFICES ASSUME InstallInit PROVE WrittenInv
  OBVIOUS
<1>1. PICK s \in Situations : files = s.files /\ stray = s.stray
  BY DEF InstallInit
<1>2. DOMAIN files = Paths /\ (\A path \in Paths : files[path] \in Contents(path[1])) /\ origin = files
  BY <1>1, InstallAssumption DEF InstallInit
<1>3. InstallTypeOK
  BY <1>2 DEF InstallInit, InstallTypeOK
<1>4. OutcomesAreWritten /\ TheirsAreThere
  BY <1>2 DEF InstallInit, OutcomesAreWritten, TheirsAreThere, Untried
<1> QED BY <1>3, <1>4 DEF WrittenInv

LEMMA WrittenStays == WrittenInv /\ [InstallNext]_installVars => WrittenInv'
<1> SUFFICES ASSUME WrittenInv, [InstallNext]_installVars PROVE WrittenInv'
  OBVIOUS
<1>1. CASE UNCHANGED installVars
  BY <1>1 DEF installVars, WrittenInv, InstallTypeOK, OutcomesAreWritten, TheirsAreThere, Host, Path
<1>2. ASSUME NEW i \in Invocations,
             (\E r \in InstallRequests : Start(i, r)) \/ Read(i) \/ Open(i) \/ Fill(i) \/ Config(i) \/ Throw(i)
             \/ Scan(i) \/ Die(i)
      PROVE  WrittenInv'
  BY <1>2, StartKeepsWritten, ReadKeepsWritten, OpenKeepsWritten, FillKeepsWritten, WaitKeepsWritten, EndKeepsWritten
<1> QED BY <1>1, <1>2 DEF InstallNext

\* What the inductive invariant says of a written file is the property.
LEMMA WrittenIsRight == WrittenInv => InstallInv
<1> SUFFICES ASSUME WrittenInv PROVE InstallInv
  OBVIOUS
<1>1. ASSUME NEW i \in Invocations, NEW h \in Hosts, outcome[i][h].kind = "installed"
      PROVE  LET o == outcome[i][h] IN
             /\ o.before \in Contents(h) /\ request[i] \in Flags
             /\ o.wrote = Patched(h, request[i], o.before)
             /\ o.enabled = Written(h, request[i], o.wrote.urls)
  <2>1. request[i] \in InstallRequests
    BY <1>1, TypeParts DEF WrittenInv, OutcomesAreWritten, InvocationTypeOK
  <2>2. request[i] \in Flags
    BY <2>1, InstallAssumption
  <2> QED BY <1>1, <2>2 DEF WrittenInv, OutcomesAreWritten
<1>2. RegistrationIsRight
  <2> SUFFICES ASSUME NEW i \in Invocations, NEW h \in Hosts, outcome[i][h].kind = "installed"
               PROVE  LET r == request[i]
                          wrote == outcome[i][h].wrote
                          ours == Where(wrote.entries, OurPlugins)
                      IN  /\ h = "claude-code" => OnlyHook(wrote.entries, r.command)
                          /\ h = "codex" => Where(wrote.entries, {r.command}) # {}
                          /\ h = "opencode" =>
                                 IF r.proxyOnly THEN ours = {}
                                 ELSE IF r.resolved
                                 THEN /\ wrote.entries[1] = "mask" /\ Last(wrote.entries) = "restore"
                                      /\ ours = {1, Len(wrote.entries)} /\ OrderIssues(wrote.entries) = {}
                                 ELSE wrote.entries[1] = r.pluginRef /\ ours \subseteq {1}
                          /\ \A p \in Providers(h) :
                                 IF outcome[i][h].before.urls[p] = Unset /\ r.root # "none"
                                 THEN wrote.urls[p] = <<r.root, p>> /\ p \in outcome[i][h].enabled
                                 ELSE wrote.urls[p] = outcome[i][h].before.urls[p]
    BY DEF RegistrationIsRight
  <2> DEFINE r == request[i]
             o == outcome[i][h]
             e == o.wrote.entries
             ours == Where(e, OurPlugins)
  <2>1. o.before \in Contents(h) /\ r \in Flags /\ o.wrote = Patched(h, r, o.before) /\ r.command \in Commands
        /\ o.enabled = Written(h, r, o.wrote.urls)
    BY <1>1 DEF Flags
  <2> HIDE DEF r, o
  <2>2. h = "claude-code" => OnlyHook(e, r.command)
    BY <2>1, PatchedType, HookIsOne
  <2>3. ASSUME h = "codex" PROVE Where(e, {r.command}) # {}
    <3>1. o.before.entries \in Seq(Commands \cup Foreign) /\ e = PatchHookBlocks(o.before.entries, r.command)
      BY <2>1, <2>3, PatchedType
    <3> HIDE DEF e
    <3> QED BY <2>1, <3>1, BlocksAreRight
  <2>4. ASSUME h = "opencode"
        PROVE  /\ r.proxyOnly => ours = {}
               /\ ~r.proxyOnly /\ r.resolved =>
                      /\ e[1] = "mask" /\ Last(e) = "restore"
                      /\ ours = {1, Len(e)} /\ OrderIssues(e) = {}
               /\ ~r.proxyOnly /\ ~r.resolved => e[1] = r.pluginRef /\ ours \subseteq {1}
    <3>1. o.before.entries \in Seq(Plugins) /\ e = PatchPlugins(o.before.entries, r)
      BY <2>1, <2>4, PatchedType
    <3> HIDE DEF e
    <3> QED BY <2>1, <3>1, PluginsAreRight
  <2>7. r.proxyOnly \in BOOLEAN /\ r.resolved \in BOOLEAN
    BY <2>1 DEF Flags
  <2>8. h = "opencode" => IF r.proxyOnly THEN ours = {}
                           ELSE IF r.resolved
                           THEN e[1] = "mask" /\ Last(e) = "restore" /\ ours = {1, Len(e)} /\ OrderIssues(e) = {}
                           ELSE e[1] = r.pluginRef /\ ours \subseteq {1}
    BY <2>4, <2>7
  <2> HIDE DEF e, ours
  <2>6. ASSUME NEW p \in Providers(h)
        PROVE  IF o.before.urls[p] = Unset /\ r.root # "none"
               THEN o.wrote.urls[p] = <<r.root, p>> /\ p \in o.enabled
               ELSE o.wrote.urls[p] = o.before.urls[p]
    <3>1. o.wrote.urls[p] = IF r.root = "none" THEN o.before.urls[p] ELSE Put(o.before.urls[p], <<r.root, p>>)
      BY <2>1, UrlsAre
    <3> QED BY <2>1, <3>1 DEF Put, Written
  <2> QED BY <2>2, <2>3, <2>6, <2>8 DEF r, o, e, ours
<1>3. Idempotent
  <2> SUFFICES ASSUME NEW i \in Invocations, NEW h \in Hosts, outcome[i][h].kind = "installed",
                      h = "opencode" => request[i].proxyOnly \/ IsKnown(h, request[i])
               PROVE  Patched(h, request[i], outcome[i][h].wrote) = outcome[i][h].wrote
    BY DEF Idempotent
  <2> QED BY <1>1, PatchedAgain
<1> QED BY <1>2, <1>3 DEF WrittenInv, InstallInv

\* Whatever stands in the settings of a host, and whatever other installers do meanwhile,
\* a registration is one, complete and in its place, and a second run changes nothing
\* (ensureHook, runOpenCodeInstall, patchCodexConfigToml).
THEOREM RegistrationStaysRight == InstallSpec => []InstallInv
  BY WrittenAtFirst, WrittenStays, WrittenIsRight, PTL DEF InstallSpec

\* No race and no death of an installer drops what others put into a JSON file that parses
\* (parseSettings, DEFAULT_FS.writeFile).
THEOREM SettingsStay == InstallSpec => []SettingsSurvive
<1>1. WrittenInv => SettingsSurvive
  BY DEF WrittenInv, TheirsAreThere, SettingsSurvive
<1> QED BY <1>1, WrittenAtFirst, WrittenStays, PTL DEF InstallSpec

-----------------------------------------------------------------------------
(* Two installers                                                           *)

\* What any installer knows as ours.
IsOurs(h, content) ==
    /\ content.state = "text"
    /\ CASE h = "claude-code" -> \E g \in DOMAIN content.entries : \E i \in DOMAIN content.entries[g] :
                                     content.entries[g][i] \in Owned
         [] h = "opencode" -> \E i \in DOMAIN content.entries : content.entries[i] \in OurPlugins
         [] OTHER -> \E i \in DOMAIN content.entries : content.entries[i] \in Owned

\* A file with one of ours is found to have it.
LEMMA OursIsSeen == ASSUME NEW h \in Hosts, NEW r, NEW content, IsOurs(h, content) PROVE HasOurs(h, r, content)
<1>1. CASE h = "claude-code"
  BY <1>1 DEF IsOurs, HasOurs, Readable, Recognised
<1>2. CASE h = "opencode"
  BY <1>2 DEF IsOurs, HasOurs, Readable
<1>3. CASE h = "codex"
  BY <1>3 DEF IsOurs, HasOurs, Readable, CodexHasOurs, Recognised
<1> QED BY <1>1, <1>2, <1>3, HostNames

\* A patched file has one of ours.
LEMMA PatchedIsOurs ==
    ASSUME NEW h \in Hosts, NEW r \in Flags, NEW content \in Contents(h), IsKnown(h, r)
    PROVE  IsOurs(h, Patched(h, r, content))
<1> DEFINE q == Patched(h, r, content)
<1>1. q.state = "text" /\ r.command \in Commands
  BY PatchedType
<1>2. CASE h = "claude-code"
  <2>1. OnlyHook(q.entries, r.command) /\ r.command \in Owned
    BY <1>1, <1>2, PatchedType, HookIsOne DEF IsKnown
  <2> HIDE DEF q
  <2>2. IsOurs(h, q)
    BY <1>1, <1>2, <2>1 DEF OnlyHook, IsOurs
  <2> QED BY <2>2 DEF q
<1>3. CASE h = "opencode"
  <2>1. /\ content.entries \in Seq(Plugins) /\ q.entries = PatchPlugins(content.entries, r)
        /\ q.entries \in Seq(Plugins) /\ ~r.proxyOnly /\ (r.resolved \/ r.pluginRef \in OurPlugins)
    BY <1>3, PatchedType, PatchPluginsIs DEF IsKnown
  <2> HIDE DEF q
  <2>2. q.entries[1] \in OurPlugins
    BY <2>1, PluginsAreRight DEF OurPlugins
  <2>3. 1 \in DOMAIN q.entries
    <3>1. q.entries # <<>>
      <4> DEFINE R == Rest(content.entries)
      <4>1. q.entries = IF r.resolved THEN Append(<<"mask">> \o R, "restore") ELSE <<r.pluginRef>> \o R
        BY <2>1, PatchPluginsIs
      <4>2. R \in Seq(Plugins) /\ r.pluginRef \in Plugins /\ <<"mask">> \o R \in Seq(Plugins)
        BY <2>1, RestIs, PatchPluginsIs
      <4> HIDE DEF R
      <4>3. <<r.pluginRef>> \o R # <<>>
        BY <4>2
      <4>4. Append(<<"mask">> \o R, "restore") # <<>>
        BY <4>2
      <4> QED BY <4>1, <4>3, <4>4
    <3> QED BY <2>1, <3>1
  <2>4. IsOurs(h, q)
    BY <1>1, <1>3, <2>2, <2>3 DEF IsOurs
  <2> QED BY <2>4 DEF q
<1>4. CASE h = "codex"
  <2>1. Where(q.entries, {r.command}) # {} /\ r.command \in Owned
    BY <1>1, <1>4, PatchedType, BlocksAreRight DEF IsKnown
  <2> HIDE DEF q
  <2>2. IsOurs(h, q)
    BY <1>1, <1>4, <2>1 DEF Where, IsOurs
  <2> QED BY <2>2 DEF q
<1> QED BY <1>2, <1>3, <1>4, HostNames

\* Invocation k has registered itself with host h.
Registered(k, h) ==
    /\ ~request[k].dryRun /\ IsKnown(h, request[k])
    /\ outcome[k][h].kind = "installed" \/ (pc[k] \in {"config", "scan"} /\ Host(k) = h)

\* No other one writes the same files.
Alone(k) == \A j \in Invocations \ {k} : pc[j] = "idle" \/ request[j].scope # request[k].scope

\* Invocation k goes over each of its hosts once.
OnceEach(k) ==
    /\ \A a, b \in DOMAIN todo[k] : todo[k][a] = todo[k][b] => a = b
    /\ \A a \in DOMAIN todo[k] : outcome[k][todo[k][a]].kind = "untried"
    /\ pc[k] = "idle" => \A h \in Hosts : outcome[k][h].kind = "untried"

\* A host is served once, and what was registered with it is there as long as no other
\* installer has its file.
RivalInv ==
    /\ WrittenInv
    /\ \A k \in Invocations : OnceEach(k)
    /\ \A k \in Invocations, h \in Hosts :
           Registered(k, h) /\ Alone(k) => IsOurs(h, files[<<h, request[k].scope>>])

\* The order of the hosts names each once.
LEMMA OrderIsOnce ==
    ASSUME NEW A
    PROVE  LET t == Picked(Order, Where(Order, A)) IN \A a, b \in DOMAIN t : t[a] = t[b] => a = b
<1> DEFINE t == Picked(Order, Where(Order, A))
<1>1. Order \in Seq(Hosts) /\ Len(Order) = 3
  BY HostNames DEF Order
<1>2. t \in Seq(Hosts)
  BY <1>1, PickedType
<1>3. PICK e : Places(e, Order, Where(Order, A), 3, t)
  BY <1>1, PickedPlaces
<1>4. \A m, n \in 1 .. 3 : Order[m] = Order[n] => m = n
  BY DEF Order
<1> HIDE DEF t
<1>5. DOMAIN t = 1 .. Len(t) /\ Len(t) \in Nat
  BY <1>2
<1> QED BY <1>3, <1>4, <1>5 DEF Places, t

\* The hosts behind the first are others, and differ.
LEMMA NextHost ==
    ASSUME NEW s \in Seq(Hosts), s # <<>>, \A a, b \in DOMAIN s : s[a] = s[b] => a = b
    PROVE  /\ \A a, b \in DOMAIN Tail(s) : Tail(s)[a] = Tail(s)[b] => a = b
           /\ \A a \in DOMAIN Tail(s) : Tail(s)[a] # Head(s) /\ a + 1 \in DOMAIN s /\ Tail(s)[a] = s[a + 1]
<1>1. /\ Tail(s) \in Seq(Hosts) /\ Len(Tail(s)) = Len(s) - 1 /\ Len(s) \in Nat /\ Len(s) >= 1
      /\ \A a \in 1 .. Len(s) - 1 : Tail(s)[a] = s[a + 1]
      /\ Head(s) = s[1]
  BY HeadTailProperties, EmptySeq
<1>2. DOMAIN Tail(s) = 1 .. Len(s) - 1 /\ DOMAIN s = 1 .. Len(s)
  BY <1>1
<1>3. \A a \in DOMAIN Tail(s) : a \in Nat /\ a # 0 /\ a + 1 \in DOMAIN s /\ Tail(s)[a] = s[a + 1]
  BY <1>1, <1>2
<1>4. 1 \in DOMAIN s
  BY <1>1, <1>2
<1>5. ASSUME NEW a \in DOMAIN Tail(s) PROVE Tail(s)[a] # Head(s)
  BY <1>1, <1>3, <1>4
<1>6. ASSUME NEW a \in DOMAIN Tail(s), NEW b \in DOMAIN Tail(s), Tail(s)[a] = Tail(s)[b] PROVE a = b
  <2>1. a + 1 = b + 1
    BY <1>3, <1>6
  <2> QED BY <1>3, <2>1
<1> QED BY <1>3, <1>5, <1>6

\* A step of one invocation; what another one registered and nobody shares is not touched.
LEMMA RivalStep ==
    ASSUME RivalInv, WrittenInv', NEW i \in Invocations,
           \A k \in Invocations \ {i} : Same(k) /\ outcome'[k] = outcome[k],
           pc[i] # "idle" => pc'[i] # "idle" /\ request'[i] = request[i],
           \A path \in Paths : files'[path] = files[path] \/ (pc[i] # "idle" /\ path = Path(i)),
           Path(i)[2] = request[i].scope,
           OnceEach(i)',
           \A h \in Hosts : Registered(i, h)' /\ Alone(i)' => IsOurs(h, files'[<<h, request'[i].scope>>])
    PROVE  RivalInv'
<1>1. ASSUME NEW k \in Invocations PROVE OnceEach(k)'
  <2>1. CASE k = i
    BY <2>1
  <2>2. CASE k # i
    <3>1. OnceEach(k) /\ Same(k) /\ outcome'[k] = outcome[k]
      BY <2>2 DEF RivalInv
    <3> QED BY <3>1 DEF OnceEach, Same
  <2> QED BY <2>1, <2>2
<1>2. ASSUME NEW k \in Invocations, NEW h \in Hosts, Registered(k, h)', Alone(k)'
      PROVE  IsOurs(h, files'[<<h, request'[k].scope>>])
  <2>1. CASE k = i
    BY <1>2, <2>1
  <2>2. CASE k # i
    <3>1. Same(k) /\ outcome'[k] = outcome[k]
      BY <2>2
    <3>2. Host(k)' = Host(k)
      BY <3>1 DEF Same, Host
    <3>3. Registered(k, h)
      BY <1>2, <3>1, <3>2 DEF Registered, Same
    <3>4. ASSUME NEW j \in Invocations \ {k} PROVE pc[j] = "idle" \/ request[j].scope # request[k].scope
      <4>1. pc'[j] = "idle" \/ request'[j].scope # request'[k].scope
        BY <1>2 DEF Alone
      <4>2. CASE j = i
        BY <3>1, <4>1, <4>2 DEF Same
      <4>3. CASE j # i
        BY <3>1, <4>1, <4>3 DEF Same
      <4> QED BY <4>2, <4>3
    <3>5. Alone(k)
      BY <3>4 DEF Alone
    <3>6. IsOurs(h, files[<<h, request[k].scope>>])
      BY <3>3, <3>5 DEF RivalInv
    <3> DEFINE path == <<h, request[k].scope>>
    <3>7. path \in Paths
      <4>1. pc[k] # "idle"
        BY <3>3 DEF Registered, RivalInv, WrittenInv, OutcomesAreWritten
      <4>2. request[k] \in InstallRequests
        BY <4>1, TypeParts DEF RivalInv, WrittenInv, InvocationTypeOK
      <4>3. request[k] \in Flags
        BY <4>2, InstallAssumption
      <4> QED BY <4>3 DEF Flags, Paths
    <3>8. files'[path] = files[path]
      <4>1. CASE files'[path] = files[path]
        BY <4>1
      <4>2. CASE pc[i] # "idle" /\ path = Path(i)
        <5>1. request[i].scope = request[k].scope
          BY <4>2
        <5> QED BY <2>2, <3>5, <4>2, <5>1 DEF Alone
      <4> QED BY <3>7, <4>1, <4>2
    <3> QED BY <3>1, <3>6, <3>8 DEF Same
  <2> QED BY <2>1, <2>2
<1> QED BY <1>1, <1>2 DEF RivalInv

\* The invariant, part by part.
LEMMA RivalParts ==
    ASSUME RivalInv, NEW i \in Invocations
    PROVE  WrittenInv /\ InstallTypeOK /\ OnceEach(i)
  BY DEF RivalInv, WrittenInv

\* The host that is being served has not ended, and the next ones have not begun.
LEMMA HostIsUntried ==
    ASSUME RivalInv, NEW i \in Invocations, pc[i] \in Active
    PROVE  /\ outcome[i][Host(i)].kind = "untried"
           /\ \A a \in DOMAIN Tail(todo[i]) : Tail(todo[i])[a] # Host(i)
                                              /\ outcome[i][Tail(todo[i])[a]].kind = "untried"
           /\ \A a, b \in DOMAIN Tail(todo[i]) : Tail(todo[i])[a] = Tail(todo[i])[b] => a = b
<1>1. todo[i] \in Seq(Hosts) /\ todo[i] # <<>> /\ OnceEach(i)
  BY RivalParts, ActiveIs
<1>2. 1 \in DOMAIN todo[i] /\ Host(i) = todo[i][1]
  BY <1>1, HeadTailProperties DEF Host
<1>3. /\ \A a, b \in DOMAIN Tail(todo[i]) : Tail(todo[i])[a] = Tail(todo[i])[b] => a = b
      /\ \A a \in DOMAIN Tail(todo[i]) : Tail(todo[i])[a] # Head(todo[i]) /\ a + 1 \in DOMAIN todo[i]
                                         /\ Tail(todo[i])[a] = todo[i][a + 1]
  <2>1. \A a, b \in DOMAIN todo[i] : todo[i][a] = todo[i][b] => a = b
    BY <1>1 DEF OnceEach
  <2> QED BY <1>1, <2>1, NextHost
<1> QED BY <1>1, <1>2, <1>3 DEF OnceEach, Host

\* The host that ended is not tried again.
LEMMA EndedOnce ==
    ASSUME RivalInv, NEW i \in Invocations, pc[i] \in Active, NEW result, Ended(i, result)
    PROVE  OnceEach(i)'
<1>1. /\ \A h \in Hosts : outcome'[i][h] = IF h = Host(i) THEN result ELSE outcome[i][h]
      /\ todo'[i] = Tail(todo[i]) /\ todo'[i] \in Seq(Hosts) /\ pc'[i] # "idle"
  BY RivalParts, EndedIs
<1>2. \A a \in DOMAIN todo'[i] : todo'[i][a] \in Hosts
  BY <1>1
<1> QED BY <1>1, <1>2, HostIsUntried DEF OnceEach

\* A host that failed registers nothing, and one that ends well has registered before.
LEMMA EndedKeepsRivals ==
    ASSUME RivalInv, NEW i \in Invocations, pc[i] \in Active, NEW result, Ended(i, result),
           UNCHANGED <<files, origin, stray, request, before>>, WrittenInv',
           result.kind = "installed" => pc[i] = "scan"
    PROVE  RivalInv'
<1>1. InstallTypeOK /\ pc[i] # "idle" /\ Path(i)[2] = request[i].scope
  BY RivalParts, ActiveIs
<1>2. /\ DOMAIN outcome' = Invocations /\ \A k \in Invocations : DOMAIN outcome'[k] = Hosts
      /\ \A k \in Invocations, h \in Hosts :
             outcome'[k][h] = IF k = i /\ h = Host(i) THEN result ELSE outcome[k][h]
      /\ pc'[i] \in {"read", "done"}
      /\ \A k \in Invocations \ {i} : pc'[k] = pc[k] /\ todo'[k] = todo[k]
      /\ outcome' = [outcome EXCEPT ![i][Host(i)] = result]
  BY <1>1, EndedIs DEF Ended
<1>3. \A k \in Invocations \ {i} : Same(k) /\ outcome'[k] = outcome[k]
  <2>1. DOMAIN outcome = Invocations
    BY <1>1, TypeParts DEF ShapesOK
  <2> QED BY <1>2, <2>1 DEF Same
<1>4. ASSUME NEW h \in Hosts, Registered(i, h)', Alone(i)' PROVE IsOurs(h, files'[<<h, request'[i].scope>>])
  <2>1. outcome'[i][h].kind = "installed"
    BY <1>2, <1>4 DEF Registered
  <2>2. Registered(i, h)
    BY <1>2, <1>4, <2>1 DEF Registered
  <2>3. Alone(i)
    BY <1>3, <1>4 DEF Alone, Same
  <2> QED BY <2>2, <2>3 DEF RivalInv
<1>5. OnceEach(i)'
  BY EndedOnce
<1> QED BY <1>1, <1>2, <1>3, <1>4, <1>5, RivalStep

LEMMA StartKeepsRivals ==
    ASSUME RivalInv, NEW i \in Invocations, NEW r \in InstallRequests, Start(i, r), WrittenInv'
    PROVE  RivalInv'
<1>1. InstallTypeOK /\ OnceEach(i)
  BY RivalParts
<1>2. /\ pc[i] = "idle" /\ pc'[i] \in {"read", "done"}
      /\ todo'[i] = Picked(Order, Where(Order, Targets(r))) /\ todo'[i] \in Seq(Hosts)
      /\ \A k \in Invocations \ {i} : pc'[k] = pc[k] /\ request'[k] = request[k] /\ todo'[k] = todo[k]
      /\ UNCHANGED <<files, origin, stray, before, outcome>>
  BY <1>1, StartTypes
<1>3. \A h \in Hosts : outcome'[i][h].kind = "untried"
  BY <1>1, <1>2 DEF OnceEach
<1>4. OnceEach(i)'
  <2>1. \A a, b \in DOMAIN todo'[i] : todo'[i][a] = todo'[i][b] => a = b
    BY <1>2, OrderIsOnce
  <2>2. \A a \in DOMAIN todo'[i] : todo'[i][a] \in Hosts
    BY <1>2
  <2> QED BY <1>2, <1>3, <2>1, <2>2 DEF OnceEach
<1>5. ASSUME NEW h \in Hosts PROVE ~Registered(i, h)'
  BY <1>2, <1>3 DEF Registered
<1>6. \A k \in Invocations \ {i} : Same(k) /\ outcome'[k] = outcome[k]
  BY <1>2 DEF Same
<1>7. Path(i)[2] = request[i].scope
  BY DEF Path
<1> QED BY <1>2, <1>4, <1>5, <1>6, <1>7, RivalStep

\* The steps within a host.
LEMMA MoveKeepsRivals ==
    ASSUME RivalInv, WrittenInv', NEW i \in Invocations, pc[i] \in Active, pc'[i] # "idle",
           \A k \in Invocations \ {i} : Same(k), UNCHANGED <<request, outcome, todo>>,
           \A path \in Paths \ {Path(i)} : files'[path] = files[path],
           pc'[i] \in {"config", "scan"} /\ ~request[i].dryRun =>
               \/ pc[i] \in {"config", "scan"} /\ files'[Path(i)] = files[Path(i)]
               \/ IsKnown(Host(i), request[i]) => IsOurs(Host(i), files'[Path(i)])
    PROVE  RivalInv'
<1>1. /\ InstallTypeOK /\ pc[i] # "idle" /\ Path(i) \in Paths /\ Path(i)[2] = request[i].scope
      /\ Path(i) = <<Host(i), request[i].scope>> /\ Host(i) \in Hosts /\ request[i].scope \in Scopes
  BY RivalParts, ActiveIs
<1>2. OnceEach(i)'
  BY <1>1, RivalParts DEF OnceEach
<1>3. Host(i)' = Host(i)
  BY DEF Host
<1>4. ASSUME NEW h \in Hosts, Registered(i, h)', Alone(i)' PROVE IsOurs(h, files'[<<h, request'[i].scope>>])
  <2>1. Alone(i)
    BY <1>4 DEF Alone, Same
  <2>2. CASE outcome[i][h].kind = "installed"
    <3>1. h # Host(i)
      BY <2>2, HostIsUntried
    <3>2. <<h, request[i].scope>> \in Paths \ {Path(i)}
      BY <1>1, <3>1 DEF Paths
    <3>3. Registered(i, h)
      BY <1>4, <2>2 DEF Registered
    <3>4. IsOurs(h, files[<<h, request[i].scope>>])
      BY <2>1, <3>3 DEF RivalInv
    <3> QED BY <3>2, <3>4
  <2>3. CASE outcome[i][h].kind # "installed"
    <3>1. pc'[i] \in {"config", "scan"} /\ h = Host(i) /\ ~request[i].dryRun /\ IsKnown(h, request[i])
      BY <1>3, <1>4, <2>3 DEF Registered
    <3>2. CASE pc[i] \in {"config", "scan"} /\ files'[Path(i)] = files[Path(i)]
      <4>1. Registered(i, h)
        BY <3>1, <3>2 DEF Registered
      <4>2. IsOurs(h, files[<<h, request[i].scope>>])
        BY <2>1, <4>1 DEF RivalInv
      <4> QED BY <1>1, <3>1, <3>2, <4>2
    <3> QED BY <1>1, <3>1, <3>2
  <2> QED BY <2>2, <2>3
<1> QED BY <1>1, <1>2, <1>4, RivalStep

LEMMA RivalsKeep ==
    ASSUME RivalInv, WrittenInv', NEW i \in Invocations,
           Read(i) \/ Open(i) \/ Fill(i) \/ Config(i) \/ Throw(i) \/ Scan(i) \/ Die(i)
    PROVE  RivalInv'
<1>0. InstallTypeOK
  BY RivalParts
<1>1. CASE Read(i)
  <2>1. pc[i] \in Active
    BY <1>1 DEF Read, Active
  <2>2. CASE Readable(Host(i), files[Path(i)])
    <3>1. /\ pc'[i] = "write" /\ \A k \in Invocations \ {i} : Same(k)
          /\ UNCHANGED <<files, origin, stray, request, todo, outcome>>
      BY <1>0, <1>1, <2>2, ReadIs
    <3> QED BY <2>1, <3>1, MoveKeepsRivals
  <2>3. CASE ~Readable(Host(i), files[Path(i)])
    <3>1. Ended(i, [kind |-> "failed"]) /\ UNCHANGED <<files, origin, stray, request, before>>
      BY <1>1, <2>3 DEF Read
    <3> QED BY <2>1, <3>1, EndedKeepsRivals
  <2> QED BY <2>2, <2>3
<1>2. CASE Open(i)
  <2>1. /\ pc[i] = "write" /\ \A k \in Invocations \ {i} : Same(k)
        /\ UNCHANGED <<origin, stray, request, todo, outcome, before>>
        /\ IF request[i].dryRun THEN pc'[i] = "scan" /\ files' = files
           ELSE /\ pc'[i] = "fill" /\ files'[Path(i)].state = "torn"
                /\ \A other \in Paths \ {Path(i)} : files'[other] = files[other]
    BY <1>0, <1>2, OpenIs
  <2>2. pc[i] \in Active
    BY <2>1 DEF Active
  <2> QED BY <2>1, <2>2, MoveKeepsRivals
<1>3. CASE Fill(i)
  <2>1. /\ pc[i] = "fill" /\ pc'[i] = "config" /\ \A k \in Invocations \ {i} : Same(k)
        /\ UNCHANGED <<origin, stray, request, todo, outcome, before>>
        /\ before[i] \in Contents(Host(i))
        /\ files'[Path(i)] = Patched(Host(i), request[i], before[i])
        /\ \A other \in Paths \ {Path(i)} : files'[other] = files[other]
    BY <1>0, <1>3, FillIs
  <2>2. pc[i] \in Active
    BY <2>1 DEF Active
  <2>3. IsKnown(Host(i), request[i]) => IsOurs(Host(i), files'[Path(i)])
    BY <1>0, <2>1, <2>2, ActiveIs, PatchedIsOurs
  <2> QED BY <2>1, <2>2, <2>3, MoveKeepsRivals
<1>4. CASE Config(i) \/ Die(i)
  <2>1. pc[i] \in Active
    BY <1>0, <1>4, TypeParts DEF Config, Die, Active, ShapesOK
  <2>2. PICK p \in {"scan", "dead"} : (p = "scan" => pc[i] = "config") /\ pc' = [pc EXCEPT ![i] = p]
    BY <1>4 DEF Config, Die
  <2>3. UNCHANGED <<files, origin, stray, request, todo, before, outcome>>
    BY <1>4 DEF Config, Die
  <2>4. pc'[i] = p /\ \A k \in Invocations \ {i} : Same(k)
    BY <1>0, <2>1, <2>2, <2>3, WaitIs
  <2> QED BY <2>1, <2>2, <2>3, <2>4, MoveKeepsRivals
<1>5. CASE Throw(i)
  <2>1. pc[i] \in Active /\ Ended(i, [kind |-> "failed"]) /\ UNCHANGED <<files, origin, stray, request, before>>
    BY <1>5 DEF Throw, Active
  <2> QED BY <2>1, EndedKeepsRivals
<1>6. CASE Scan(i)
  <2>1. PICK result : pc[i] = "scan" /\ Ended(i, result) /\ UNCHANGED <<files, origin, stray, request, before>>
    BY <1>6 DEF Scan
  <2>2. pc[i] \in Active
    BY <2>1 DEF Active
  <2> QED BY <2>1, <2>2, EndedKeepsRivals
<1> QED BY <1>1, <1>2, <1>3, <1>4, <1>5, <1>6

LEMMA RivalsAtFirst == InstallInit => RivalInv
  BY WrittenAtFirst DEF InstallInit, RivalInv, OnceEach, Registered, Untried

LEMMA RivalsStay == RivalInv /\ [InstallNext]_installVars => RivalInv'
<1> SUFFICES ASSUME RivalInv, [InstallNext]_installVars PROVE RivalInv'
  OBVIOUS
<1>0. WrittenInv'
  BY WrittenStays DEF RivalInv
<1>1. CASE UNCHANGED installVars
  BY <1>0, <1>1 DEF installVars, RivalInv, OnceEach, Registered, Alone, Host
<1>2. ASSUME NEW i \in Invocations, NEW r \in InstallRequests, Start(i, r) PROVE RivalInv'
  BY <1>0, <1>2, StartKeepsRivals
<1>3. ASSUME NEW i \in Invocations,
             Read(i) \/ Open(i) \/ Fill(i) \/ Config(i) \/ Throw(i) \/ Scan(i) \/ Die(i)
      PROVE  RivalInv'
  BY <1>0, <1>3, RivalsKeep
<1> QED BY <1>1, <1>2, <1>3 DEF InstallNext

\* The scan of the later of two installers names the earlier.
LEMMA ScanNames ==
    ASSUME RivalInv, RivalsAreNamed, NEW i \in Invocations, Scan(i),
           \A k, l, m \in Invocations : k = l \/ l = m \/ k = m
    PROVE  RivalsAreNamed'
<1> DEFINE result == [kind |-> "installed", before |-> before[i],
                      wrote |-> Patched(Host(i), request[i], before[i]),
                      enabled |-> Written(Host(i), request[i], Patched(Host(i), request[i], before[i]).urls),
                      rivals |-> Rivals(Host(i), request[i])]
<1>1. pc[i] = "scan" /\ Ended(i, result) /\ request' = request
  BY DEF Scan
<1>2. result.kind = "installed" /\ result.rivals = Rivals(Host(i), request[i])
  OBVIOUS
<1> HIDE DEF result
<1>3. pc[i] \in Active /\ InstallTypeOK
  BY <1>1, RivalParts DEF Active
<1>4. \A k \in Invocations, h \in Hosts :
          outcome'[k][h] = IF k = i /\ h = Host(i) THEN result ELSE outcome[k][h]
  BY <1>1, <1>3, EndedIs
<1>5. ASSUME NEW j \in Invocations, outcome[j][Host(i)].kind = "installed", request[i].scope # request[j].scope,
             ~request[j].dryRun, IsKnown(Host(i), request[j])
      PROVE  Rivals(Host(i), request[i])
  <2>1. Host(i) \in Hosts
    BY <1>3, ActiveIs
  <2>2. Registered(j, Host(i))
    BY <1>5 DEF Registered
  <2>3. Alone(j)
    BY <1>5 DEF Alone
  <2>4. IsOurs(Host(i), files[<<Host(i), request[j].scope>>])
    BY <2>1, <2>2, <2>3 DEF RivalInv
  <2>5. pc[j] # "idle"
    BY <1>5, <2>1 DEF RivalInv, WrittenInv, OutcomesAreWritten
  <2>6. request[j] \in Flags
    BY <2>5, InstallAssumption, TypeParts DEF RivalInv, WrittenInv, InvocationTypeOK
  <2>7. <<Host(i), request[j].scope>> \in Paths
    BY <2>1, <2>6 DEF Flags, Paths
  <2>8. HasOurs(Host(i), request[i], files[<<Host(i), request[j].scope>>])
    BY <2>1, <2>4, OursIsSeen
  <2> QED BY <1>5, <2>7, <2>8 DEF Rivals
<1>6. ASSUME NEW a \in Invocations, NEW b \in Invocations, NEW h \in Hosts,
             outcome'[a][h].kind = "installed", outcome'[b][h].kind = "installed",
             request[a].scope # request[b].scope,
             \A k \in {a, b} : ~request[k].dryRun /\ IsKnown(h, request[k])
      PROVE  outcome'[a][h].rivals \/ outcome'[b][h].rivals
  <2>1. a # b
    BY <1>6
  <2>2. CASE h = Host(i) /\ a = i
    <3>1. outcome[b][h].kind = "installed"
      BY <1>4, <1>6, <2>1, <2>2
    <3>2. Rivals(Host(i), request[i])
      BY <1>5, <1>6, <2>2, <3>1
    <3> QED BY <1>2, <1>4, <2>2, <3>2
  <2>3. CASE h = Host(i) /\ b = i
    <3>1. outcome[a][h].kind = "installed"
      BY <1>4, <1>6, <2>1, <2>3
    <3>2. Rivals(Host(i), request[i])
      BY <1>5, <1>6, <2>3, <3>1
    <3> QED BY <1>2, <1>4, <2>3, <3>2
  <2>4. CASE ~(h = Host(i) /\ (a = i \/ b = i))
    <3>1. outcome'[a][h] = outcome[a][h] /\ outcome'[b][h] = outcome[b][h]
      BY <1>4, <2>4
    <3> QED BY <1>6, <3>1 DEF RivalsAreNamed
  <2> QED BY <2>2, <2>3, <2>4
<1> QED BY <1>1, <1>6 DEF RivalsAreNamed

\* Two installers that register one host in both scopes at the same time: the one that
\* looks last finds the other one's registration, for it has been written by then and
\* nobody else writes that file (detectClaudeRivalInstalls, after the write).
THEOREM RivalsStayNamed ==
    ASSUME \A k, l, m \in Invocations : k = l \/ l = m \/ k = m
    PROVE  InstallSpec => []RivalsAreNamed
<1>1. InstallInit => RivalsAreNamed
  BY DEF InstallInit, RivalsAreNamed, Untried
<1>2. RivalInv /\ RivalsAreNamed /\ [InstallNext]_installVars => RivalsAreNamed'
  <2> SUFFICES ASSUME RivalInv, RivalsAreNamed, [InstallNext]_installVars PROVE RivalsAreNamed'
    OBVIOUS
  <2>1. CASE UNCHANGED installVars
    BY <2>1 DEF installVars, RivalsAreNamed
  <2>2. ASSUME NEW i \in Invocations, NEW r \in InstallRequests, Start(i, r) PROVE RivalsAreNamed'
    <3>1. InstallTypeOK
      BY RivalParts, <2>2
    <3>2. /\ pc[i] = "idle" /\ outcome' = outcome /\ \A k \in Invocations \ {i} : request'[k] = request[k]
      BY <2>2, <3>1, StartTypes
    <3>3. \A h \in Hosts : outcome[i][h].kind # "installed"
      BY <3>2 DEF RivalInv, WrittenInv, OutcomesAreWritten
    <3> SUFFICES ASSUME NEW a \in Invocations, NEW b \in Invocations, NEW h \in Hosts,
                        outcome[a][h].kind = "installed", outcome[b][h].kind = "installed",
                        request'[a].scope # request'[b].scope,
                        \A k \in {a, b} : ~request'[k].dryRun /\ IsKnown(h, request'[k])
                 PROVE  outcome[a][h].rivals \/ outcome[b][h].rivals
      BY <3>2 DEF RivalsAreNamed
    <3>4. a # i /\ b # i
      BY <3>3
    <3>5. request'[a] = request[a] /\ request'[b] = request[b]
      BY <3>2, <3>4
    <3> QED BY <3>5 DEF RivalsAreNamed
  <2>3. ASSUME NEW i \in Invocations, Open(i) \/ Fill(i) \/ Config(i) \/ Die(i) PROVE RivalsAreNamed'
    BY <2>3 DEF Open, Fill, Config, Die, RivalsAreNamed
  <2>4. ASSUME NEW i \in Invocations, Read(i) \/ Throw(i) PROVE RivalsAreNamed'
    <3>1. InstallTypeOK /\ pc[i] \in Active
      BY <2>4, RivalParts DEF Read, Throw, Active
    <3>2. request' = request
      BY <2>4 DEF Read, Throw
    <3>3. CASE outcome' = outcome
      BY <3>2, <3>3 DEF RivalsAreNamed
    <3>4. CASE Ended(i, [kind |-> "failed"])
      <4>1. \A k \in Invocations, h \in Hosts :
                outcome'[k][h] = IF k = i /\ h = Host(i) THEN [kind |-> "failed"] ELSE outcome[k][h]
        BY <3>1, <3>4, EndedIs
      <4>2. \A k \in Invocations, h \in Hosts : outcome'[k][h].kind = "installed" => outcome'[k][h] = outcome[k][h]
        BY <4>1
      <4> QED BY <3>2, <4>2 DEF RivalsAreNamed
    <3> QED BY <2>4, <3>3, <3>4 DEF Read, Throw
  <2>5. ASSUME NEW i \in Invocations, Scan(i) PROVE RivalsAreNamed'
    BY <2>5, ScanNames
  <2> QED BY <2>1, <2>2, <2>3, <2>4, <2>5 DEF InstallNext
<1> QED BY <1>1, <1>2, RivalsAtFirst, RivalsStay, PTL DEF InstallSpec

-----------------------------------------------------------------------------
(* Parts and what masking makes of them                                    *)

Leaf == Atoms \cup {Swept}
Leaves == [{"text"} -> Leaf] \cup [{"free", "plumbing", "output"} -> Leaf]
Parts == [type: {"text", "tool", "step", "compaction", "unknown"}, user: BOOLEAN, leaves: Leaves]
Copies == [copy: Seq(Parts), next: Nat]
Sights == [user: BOOLEAN, bare: BOOLEAN, atom: Leaf, live: BOOLEAN]

\* What a masked part may still hold in clear, and whose tokens: fields that name things,
\* and what the user typed.
Clean(part, held) ==
    \A l \in DOMAIN part.leaves :
        /\ part.leaves[l].kind = "raw" => l \in Plumbing \/ part.type \in Bare
        /\ part.leaves[l].kind \in {"token", "forged"} => part.user \/ Alive(held, part.leaves[l])

LEMMA Kinds ==
    /\ Filler \in Leaf /\ Swept \in Leaf
    /\ \A v \in Values : Token(v) \in Leaf /\ Raw(v) \in Leaf
    /\ Filler.kind = "nothing" /\ Forged.kind = "forged" /\ Swept.kind = "swept"
    /\ \A v : Raw(v).kind = "raw" /\ Token(v).kind = "token" /\ Raw(v).value = v /\ Token(v).value = v
    /\ \A a \in Leaf : /\ a.kind = "raw" => a.value \in Values /\ a = Raw(a.value)
                       /\ a.kind = "token" => a.value \in Values /\ a = Token(a.value)
<1>1. /\ Filler.kind = "nothing" /\ Forged.kind = "forged" /\ Swept.kind = "swept"
      /\ Filler \in Leaf /\ Swept \in Leaf
  BY DEF Leaf, Atoms, Filler, Forged, Swept
<1>2. \A v : Raw(v).kind = "raw" /\ Token(v).kind = "token" /\ Raw(v).value = v /\ Token(v).value = v
  BY DEF Token, Raw
<1>3. \A v \in Values : Token(v) \in Leaf /\ Raw(v) \in Leaf
  BY DEF Leaf, Atoms
<1>4. ASSUME NEW a \in Leaf
      PROVE  /\ a.kind = "raw" => a.value \in Values /\ a = Raw(a.value)
             /\ a.kind = "token" => a.value \in Values /\ a = Token(a.value)
  <2>1. CASE a \in {Filler, Forged, Swept}
    BY <1>1, <2>1
  <2>2. CASE \E v \in Values : a = Raw(v) \/ a = Token(v)
    BY <1>2, <2>2
  <2> QED BY <1>4, <2>1, <2>2 DEF Leaf, Atoms
<1> QED BY <1>1, <1>2, <1>3, <1>4

LEMMA AtomsMove ==
    ASSUME NEW held \in SUBSET Values, NEW a \in Leaf
    PROVE  /\ Masked(a) \in Leaf /\ Masked(a).kind # "raw"
           /\ Live(held, a) \in Leaf
           /\ a \in Atoms => Live(held, a) \in Atoms
           /\ a.kind # "raw" => Masked(a) = a
           /\ a.kind = "raw" => Masked(a) = Token(a.value) /\ a.value \in Values /\ a = Raw(a.value)
  BY Kinds DEF Masked, Live, Alive, Atoms, Leaf

\* Before masking, tokens that are dead here are swept from what the user did not type.
LEMMA SweptLeaves ==
    ASSUME NEW part \in Parts, NEW held \in SUBSET Values
    PROVE  /\ SweepDead(part, held) \in Leaves
           /\ DOMAIN SweepDead(part, held) = DOMAIN part.leaves
           /\ \A l \in DOMAIN part.leaves :
                 LET a == SweepDead(part, held)[l] IN
                 /\ a \in Leaf
                 /\ a.kind = "raw" => a = part.leaves[l]
                 /\ a.kind \in {"token", "forged"} =>
                        part.user \/ part.type = "compaction" \/ Alive(held, a)
<1>1. part.leaves \in Leaves
  BY DEF Parts
<1>2. \A l \in DOMAIN part.leaves : part.leaves[l] \in Leaf
  BY <1>1 DEF Leaves
<1>3. CASE part.user \/ part.type = "compaction"
  BY <1>1, <1>2, <1>3 DEF SweepDead
<1>4. CASE ~(part.user \/ part.type = "compaction")
  <2> DEFINE f == [l \in DOMAIN part.leaves |->
                     IF part.leaves[l].kind \in {"token", "forged"} /\ ~Alive(held, part.leaves[l])
                     THEN Swept ELSE part.leaves[l]]
  <2>1. SweepDead(part, held) = f
    BY <1>4 DEF SweepDead
  <2>2. \A l \in DOMAIN part.leaves : f[l] \in Leaf
    BY <1>2, Kinds
  <2>3. f \in Leaves
    BY <1>1, <2>2 DEF Leaves
  <2>4. \A l \in DOMAIN part.leaves :
           /\ f[l].kind = "raw" => f[l] = part.leaves[l]
           /\ f[l].kind \in {"token", "forged"} => Alive(held, f[l])
    BY Kinds
  <2> QED BY <2>1, <2>2, <2>3, <2>4
<1> QED BY <1>3, <1>4

\* A masked part holds no value but in a field that names something, and no token that is
\* dead but one the user typed.
LEMMA MaskedIsClean ==
    ASSUME NEW part \in Parts, NEW held \in SUBSET Values
    PROVE  /\ MaskPart(part, held) \in Parts
           /\ Minted(part, held) \subseteq Values
           /\ Clean(MaskPart(part, held), held \cup Minted(part, held))
<1> DEFINE swept == SweepDead(part, held)
           new == MaskPart(part, held).leaves
           after == held \cup Minted(part, held)
<1> HIDE DEF swept
<1>1. /\ swept \in Leaves /\ DOMAIN swept = DOMAIN part.leaves
      /\ \A l \in DOMAIN part.leaves :
            /\ swept[l] \in Leaf
            /\ swept[l].kind = "raw" => swept[l] = part.leaves[l]
            /\ swept[l].kind \in {"token", "forged"} =>
                   part.user \/ part.type = "compaction" \/ Alive(held, swept[l])
  BY SweptLeaves DEF swept
<1>2. /\ MaskPart(part, held).type = part.type /\ MaskPart(part, held).user = part.user
      /\ new = CASE part.type = "tool" -> MaskFields(swept)
                 [] part.type = "compaction" -> StripTokens(swept)
                 [] part.type = "step" -> swept
                 [] OTHER -> MaskStrict(swept)
      /\ part.type \in {"text", "tool", "step", "compaction", "unknown"} /\ part.user \in BOOLEAN
      /\ MaskPart(part, held) = [type |-> part.type, user |-> part.user, leaves |-> new]
  BY DEF MaskPart, Parts, swept
<1>3. Minted(part, held) \subseteq Values
  BY DEF Minted
<1>4. \A l \in DOMAIN part.leaves : Masked(swept[l]) \in Leaf /\ Masked(swept[l]).kind # "raw"
  BY <1>1, AtomsMove
\* What is masked is minted, so it is alive.
<1>5. ASSUME NEW l \in DOMAIN part.leaves, new[l] = Masked(swept[l]), part.type # "compaction"
      PROVE  new[l].kind \in {"token", "forged"} => part.user \/ Alive(after, new[l])
  <2>1. CASE swept[l].kind = "raw"
    <3>1. PICK v \in Values : swept[l] = Raw(v) /\ part.leaves[l] = Raw(v) /\ new[l] = Token(v)
      BY <1>1, <1>5, <2>1, AtomsMove
    <3>2. v \in Minted(part, held)
      BY <3>1 DEF Minted
    <3> QED BY <3>1, <3>2, Kinds DEF Alive
  <2>2. CASE swept[l].kind # "raw"
    <3>1. new[l] = swept[l]
      BY <1>1, <1>5, <2>2, AtomsMove
    <3> QED BY <1>1, <1>5, <3>1 DEF Alive
  <2> QED BY <2>1, <2>2
<1> HIDE DEF new, after
<1>6. CASE part.type = "tool"
  <2>1. new = [l \in DOMAIN part.leaves |-> IF l \in Plumbing THEN swept[l] ELSE Masked(swept[l])]
    BY <1>1, <1>2, <1>6 DEF MaskFields
  <2>2. DOMAIN new = DOMAIN part.leaves /\ \A l \in DOMAIN new : new[l] \in Leaf
    BY <1>1, <1>4, <2>1
  <2>3. new \in Leaves
    BY <1>1, <2>1, <2>2 DEF Leaves
  <2>4. ASSUME NEW l \in DOMAIN new
        PROVE  /\ new[l].kind = "raw" => l \in Plumbing
               /\ new[l].kind \in {"token", "forged"} => part.user \/ Alive(after, new[l])
    <3>1. CASE l \in Plumbing
      <4>1. new[l] = swept[l]
        BY <2>1, <2>2, <3>1
      <4> QED BY <1>1, <1>6, <2>2, <3>1, <4>1 DEF Alive, after
    <3>2. CASE l \notin Plumbing
      <4>1. new[l] = Masked(swept[l])
        BY <2>1, <2>2, <3>2
      <4> QED BY <1>4, <1>5, <1>6, <2>2, <3>2, <4>1
    <3> QED BY <3>1, <3>2
  <2> QED BY <1>2, <1>3, <2>3, <2>4 DEF Parts, Clean, after
<1>7. CASE part.type = "compaction"
  <2>1. new = [l \in DOMAIN part.leaves |-> IF swept[l].kind \in {"token", "forged"} THEN Swept ELSE swept[l]]
    BY <1>1, <1>2, <1>7 DEF StripTokens
  <2>2. DOMAIN new = DOMAIN part.leaves /\ \A l \in DOMAIN new : new[l] \in Leaf
    BY <1>1, <2>1, Kinds
  <2>3. new \in Leaves
    BY <1>1, <2>1, <2>2 DEF Leaves
  <2>4. \A l \in DOMAIN new : new[l].kind \notin {"token", "forged"}
    BY <2>1, <2>2, Kinds
  <2> QED BY <1>2, <1>3, <1>7, <2>3, <2>4 DEF Parts, Clean, Bare
<1>8. CASE part.type = "step"
  <2>1. new = swept
    BY <1>2, <1>8
  <2>2. \A l \in DOMAIN new : new[l].kind \in {"token", "forged"} => part.user \/ Alive(after, new[l])
    BY <1>1, <1>8, <2>1 DEF Alive, after
  <2> QED BY <1>1, <1>2, <1>3, <1>8, <2>1, <2>2 DEF Parts, Clean, Bare, after
<1>9. CASE part.type \in {"text", "unknown"}
  <2>1. new = [l \in DOMAIN part.leaves |-> Masked(swept[l])]
    BY <1>1, <1>2, <1>9 DEF MaskStrict
  <2>2. DOMAIN new = DOMAIN part.leaves /\ \A l \in DOMAIN new : new[l] \in Leaf /\ new[l].kind # "raw"
    BY <1>4, <2>1
  <2>3. new \in Leaves
    BY <1>1, <2>1, <2>2 DEF Leaves
  <2>4. \A l \in DOMAIN new : new[l].kind \in {"token", "forged"} => part.user \/ Alive(after, new[l])
    BY <1>5, <1>9, <2>1, <2>2
  <2>5. MaskPart(part, held) \in Parts
    BY <1>2, <2>3 DEF Parts
  <2>6. Clean(MaskPart(part, held), after)
    <3> SUFFICES ASSUME NEW l \in DOMAIN new
                 PROVE  /\ new[l].kind # "raw"
                        /\ new[l].kind \in {"token", "forged"} => part.user \/ Alive(after, new[l])
      BY <1>2 DEF Clean, new
    <3> QED BY <2>2, <2>4
  <2> QED BY <1>3, <2>5, <2>6 DEF after
<1> QED BY <1>2, <1>6, <1>7, <1>8, <1>9

\* What is alive stays so in a vault that grows.
LEMMA GrownStaysClean ==
    ASSUME NEW part, NEW held, NEW more, held \subseteq more, Clean(part, held)
    PROVE  Clean(part, more)
  BY DEF Clean, Alive
-----------------------------------------------------------------------------
(* The plugin                                                              *)

PluginTypeOK ==
    /\ boundary \in BOOLEAN
    /\ build \in [Instances -> {"new", "waiting", "ready", "failed"}]
    /\ remover \in [Instances -> Instances]
    /\ singleton \in Instances \cup {"none"}
    /\ promise \in [Instances -> {"pending", "resolved", "rejected"}]
    /\ vault \in [Instances -> SUBSET Values]
    /\ store \in Seq(Parts)
    /\ pending \in [Dispatches -> Copies]
    /\ shown \in SUBSET Sights

\* Whoever has begun to build has the shared remover, and it is one.
RemoverIsShared ==
    Split => \A m \in Instances : build[m] # "new" => singleton = remover[m]

\* No request is under way, and nothing shown, before all modules are loaded.
Busy == shown # {} \/ \E d \in Dispatches : pending[d].next # 0
BusyIsLoaded == Busy => Loaded

\* What of a copy has been masked is clean in the vault that is shared.
CopiesAreClean ==
    boundary => \A d \in Dispatches : \A i \in 1 .. Len(pending[d].copy) :
        i < pending[d].next => Clean(pending[d].copy[i], KeptBy(Masker))

StoreInv ==
    /\ PluginTypeOK /\ RemoverIsShared /\ BusyIsLoaded /\ CopiesAreClean
    /\ NothingRawIsShown /\ ShownIsRestorable

LEMMA Modules == Masker \in Instances /\ Restorer \in Instances /\ "none" \notin Instances
  BY DEF Masker, Restorer, Instances

\* Once loaded, both modules work with one remover.
LEMMA OneRemover ==
    ASSUME PluginTypeOK, RemoverIsShared, Loaded
    PROVE  /\ remover[Masker] \in Instances /\ remover[Masker] = remover[Restorer]
           /\ KeptBy(Masker) = KeptBy(Restorer) /\ KeptBy(Masker) \in SUBSET Values
<1>1. build[Masker] # "new" /\ build[Restorer] # "new"
  BY Modules DEF Loaded
<1>2. remover[Masker] = remover[Restorer]
  <2>1. CASE Split
    BY <1>1, <2>1, Modules DEF RemoverIsShared
  <2>2. CASE ~Split
    BY <2>2 DEF Masker, Restorer
  <2> QED BY <2>1, <2>2
<1>3. remover[Masker] \in Instances
  BY Modules DEF PluginTypeOK
<1> QED BY <1>2, <1>3 DEF KeptBy, PluginTypeOK

\* While nothing is under way or shown, there is nothing to keep clean.
LEMMA RestIsClean ==
    ASSUME PluginTypeOK, ~Busy
    PROVE  BusyIsLoaded /\ CopiesAreClean /\ NothingRawIsShown /\ ShownIsRestorable
<1>1. shown = {} /\ \A d \in Dispatches : pending[d].next = 0
  BY DEF Busy
<1>2. CopiesAreClean
  <2> SUFFICES ASSUME NEW d \in Dispatches, NEW i \in 1 .. Len(pending[d].copy), i < pending[d].next
               PROVE  FALSE
    BY DEF CopiesAreClean
  <2>1. pending[d].copy \in Seq(Parts)
    BY DEF PluginTypeOK, Copies
  <2> QED BY <1>1, <2>1, LenProperties
<1> QED BY <1>1, <1>2 DEF BusyIsLoaded, NothingRawIsShown, ShownIsRestorable, Busy

\* A step that leaves the modules, the copies and what was shown as they are, and lets
\* vaults only grow, keeps the invariant.
LEMMA GrowthKeeps ==
    ASSUME StoreInv, PluginTypeOK', UNCHANGED <<boundary, buildVars, pending, shown>>,
           \A m \in Instances : vault[m] \subseteq vault'[m]
    PROVE  StoreInv'
<1>1. RemoverIsShared' /\ BusyIsLoaded'
  BY DEF StoreInv, RemoverIsShared, BusyIsLoaded, Busy, Loaded, buildVars
<1>2. KeptBy(Masker) \subseteq KeptBy(Masker)' /\ KeptBy(Restorer) \subseteq KeptBy(Restorer)'
  BY Modules DEF KeptBy, StoreInv, PluginTypeOK, buildVars
<1>3. CopiesAreClean'
  <2> SUFFICES ASSUME boundary, NEW d \in Dispatches, NEW i \in 1 .. Len(pending[d].copy),
                      i < pending[d].next
               PROVE  Clean(pending[d].copy[i], KeptBy(Masker)')
    BY DEF CopiesAreClean
  <2>1. Clean(pending[d].copy[i], KeptBy(Masker))
    BY DEF StoreInv, CopiesAreClean
  <2> QED BY <1>2, <2>1, GrownStaysClean
<1>4. NothingRawIsShown'
  BY DEF StoreInv, NothingRawIsShown
<1>5. ShownIsRestorable'
  BY <1>2 DEF StoreInv, ShownIsRestorable, Alive
<1> QED BY <1>1, <1>3, <1>4, <1>5 DEF StoreInv

LEMMA PutParts ==
    ASSUME store \in Seq(Parts), NEW part \in Parts, Adds(part)
    PROVE  /\ store' \in Seq(Parts)
           /\ \A i \in DOMAIN store : store'[i] = store[i]
  BY DEF Adds

LEMMA PartIsOne ==
    /\ \A user \in BOOLEAN, a \in Leaf, type \in {"text", "step", "compaction", "unknown"} :
          Part(type, user, [text |-> a]) \in Parts
    /\ \A a \in Leaf, b \in Leaf, c \in Leaf :
          Part("tool", FALSE, [free |-> a, plumbing |-> b, output |-> c]) \in Parts
<1>1. ASSUME NEW user \in BOOLEAN, NEW a \in Leaf, NEW type \in {"text", "step", "compaction", "unknown"}
      PROVE  Part(type, user, [text |-> a]) \in Parts
  <2>1. [text |-> a] \in [{"text"} -> Leaf]
    OBVIOUS
  <2> QED BY <2>1 DEF Part, Parts, Leaves
<1>2. ASSUME NEW a \in Leaf, NEW b \in Leaf, NEW c \in Leaf
      PROVE  Part("tool", FALSE, [free |-> a, plumbing |-> b, output |-> c]) \in Parts
  <2>1. [free |-> a, plumbing |-> b, output |-> c] \in [{"free", "plumbing", "output"} -> Leaf]
    OBVIOUS
  <2> QED BY <2>1 DEF Part, Parts, Leaves
<1> QED BY <1>1, <1>2

LEMMA AtomIsLeaf == Atoms \subseteq Leaf
  BY DEF Leaf

LEMMA UserSaysKeeps == ASSUME StoreInv, NEW atom \in Atoms, UserSays(atom) PROVE StoreInv'
<1>1. Part("text", TRUE, [text |-> atom]) \in Parts
  BY PartIsOne, AtomIsLeaf
<1>2. store' \in Seq(Parts)
  BY <1>1, PutParts DEF UserSays, StoreInv, PluginTypeOK
<1>3. PluginTypeOK'
  BY <1>2 DEF UserSays, StoreInv, PluginTypeOK, buildVars
<1> QED BY <1>3, GrowthKeeps DEF UserSays

LEMMA HostAddsKeeps ==
    ASSUME StoreInv, NEW atom \in Atoms, NEW type \in {"step", "compaction", "unknown"}, HostAdds(type, atom)
    PROVE  StoreInv'
<1>1. Part(type, FALSE, [text |-> atom]) \in Parts
  BY PartIsOne, AtomIsLeaf
<1>2. store' \in Seq(Parts)
  BY <1>1, PutParts DEF HostAdds, StoreInv, PluginTypeOK
<1>3. PluginTypeOK'
  BY <1>2 DEF HostAdds, StoreInv, PluginTypeOK, buildVars
<1> QED BY <1>3, GrowthKeeps DEF HostAdds

LEMMA ModelWritesKeeps == ASSUME StoreInv, NEW atom \in Atoms, ModelWrites(atom) PROVE StoreInv'
<1> DEFINE text == IF boundary THEN Live(KeptBy(Restorer), atom) ELSE atom
<1>0. KeptBy(Restorer) \in SUBSET Values
  BY OneRemover DEF StoreInv, ModelWrites
<1>1. text \in Leaf
  BY <1>0, AtomIsLeaf, AtomsMove
<1>2. Part("text", FALSE, [text |-> text]) \in Parts
  BY <1>1, PartIsOne
<1>3. store' \in Seq(Parts)
  BY <1>2, PutParts DEF ModelWrites, StoreInv, PluginTypeOK
<1>4. PluginTypeOK'
  BY <1>3 DEF ModelWrites, StoreInv, PluginTypeOK, buildVars
<1> QED BY <1>4, GrowthKeeps DEF ModelWrites

\* The arguments of a tool call are leaves again, restored or masked.
LEMMA ArgumentsType ==
    ASSUME StoreInv, Loaded, NEW atom \in Atoms, NEW display \in BOOLEAN
    PROVE  LET args == Arguments([free |-> atom, plumbing |-> atom], display)
           IN  args["free"] \in Leaf /\ args["plumbing"] \in Leaf
<1> DEFINE leaves == [free |-> atom, plumbing |-> atom]
           restored == RestoreFields(leaves, KeptBy(Masker))
           args == Arguments(leaves, display)
<1>0. KeptBy(Masker) \in SUBSET Values /\ atom \in Leaf
  BY OneRemover, AtomIsLeaf DEF StoreInv
<1>1. /\ DOMAIN leaves = {"free", "plumbing"}
      /\ \A l \in DOMAIN leaves : restored[l] = Live(KeptBy(Masker), atom)
      /\ DOMAIN restored = {"free", "plumbing"}
  BY DEF RestoreFields
<1>2. \A l \in {"free", "plumbing"} : restored[l] \in Leaf /\ Masked(restored[l]) \in Leaf
  BY <1>0, <1>1, AtomsMove
<1> HIDE DEF leaves, restored
<1>3. CASE Remasks(display)
  <2>1. args = [l \in DOMAIN restored |-> IF l \in Plumbing THEN restored[l] ELSE Masked(restored[l])]
    BY <1>3 DEF Arguments, MaskFields, restored, leaves
  <2> QED BY <1>1, <1>2, <2>1 DEF leaves
<1>4. CASE ~Remasks(display)
  <2>1. args = restored
    BY <1>4 DEF Arguments, restored
  <2> QED BY <1>1, <1>2, <2>1 DEF leaves
<1> QED BY <1>3, <1>4

LEMMA ToolRunsKeeps ==
    ASSUME StoreInv, NEW atom \in Atoms, NEW read \in Atoms, NEW display \in BOOLEAN,
           ToolRuns(atom, display, read)
    PROVE  StoreInv'
<1> DEFINE args == Arguments([free |-> atom, plumbing |-> atom], display)
           output == IF read = Filler THEN args["free"] ELSE read
           held == KeptBy(Masker) \cup
                      {v \in Values : Remasks(display) /\ Live(KeptBy(Masker), atom) = Raw(v)}
           told == Live(vault'[remover[Restorer]], output)
<1>1. /\ args["free"] \in Leaf /\ args["plumbing"] \in Leaf /\ output \in Leaf
  BY ArgumentsType, AtomIsLeaf DEF ToolRuns
<1>2. /\ remover[Masker] \in Instances /\ remover[Masker] = remover[Restorer]
      /\ KeptBy(Masker) \in SUBSET Values
  BY OneRemover DEF StoreInv, ToolRuns
<1>3. held \in SUBSET Values /\ KeptBy(Masker) \subseteq held
  BY <1>2
<1> HIDE DEF args, output, held
<1>4. /\ vault' = [vault EXCEPT ![remover[Masker]] = held]
      /\ Adds(Part("tool", FALSE, [free |-> args["free"], plumbing |-> args["plumbing"], output |-> told]))
      /\ UNCHANGED <<boundary, buildVars, pending, shown>>
  BY DEF ToolRuns, args, output, held
<1>5. /\ vault' \in [Instances -> SUBSET Values]
      /\ \A m \in Instances : vault[m] \subseteq vault'[m]
      /\ vault'[remover[Restorer]] \in SUBSET Values
  BY <1>2, <1>3, <1>4 DEF StoreInv, PluginTypeOK, KeptBy
<1>6. told \in Leaf
  BY <1>1, <1>5, AtomsMove
<1> HIDE DEF told
<1>7. Part("tool", FALSE, [free |-> args["free"], plumbing |-> args["plumbing"], output |-> told]) \in Parts
  BY <1>1, <1>6, PartIsOne
<1>8. store' \in Seq(Parts)
  BY <1>4, <1>7, PutParts DEF StoreInv, PluginTypeOK
<1>9. PluginTypeOK'
  BY <1>4, <1>5, <1>8 DEF StoreInv, PluginTypeOK, buildVars
<1> QED BY <1>4, <1>5, <1>9, GrowthKeeps
\* While a module is being built nothing is under way, and whoever builds takes the shared
\* remover or makes it.
LEMMA BuildKeeps == ASSUME StoreInv, NEW m \in Instances, Build(m) PROVE StoreInv'
<1>1. build[m] # "ready" /\ ~Loaded /\ ~Busy
  BY DEF Build, Loaded, StoreInv, BusyIsLoaded
<1>2. PluginTypeOK'
  <2>1. CASE m # "full" /\ Shared(m)
    BY <2>1, Modules DEF Build, StoreInv, PluginTypeOK, Shared
  <2>2. CASE ~(m # "full" /\ Shared(m))
    BY <2>2 DEF Build, StoreInv, PluginTypeOK
  <2> QED BY <2>1, <2>2
<1>3. ~Busy'
  BY <1>1 DEF Build, Busy
<1>4. RemoverIsShared'
  <2> SUFFICES ASSUME Split, NEW n \in Instances, build'[n] # "new" PROVE singleton' = remover'[n]
    BY DEF RemoverIsShared
  <2>0. m # "full" /\ build \in [Instances -> {"new", "waiting", "ready", "failed"}]
        /\ remover \in [Instances -> Instances]
    BY DEF Instances, StoreInv, PluginTypeOK
  <2>1. CASE Shared(m)
    BY <2>0, <2>1 DEF Build, StoreInv, RemoverIsShared
  <2>2. CASE ~Shared(m)
    <3>1. \A k \in Instances : build[k] = "new"
      BY <2>0, <2>2, Modules DEF Shared, StoreInv, RemoverIsShared
    <3>2. n = m
      BY <2>0, <3>1 DEF Build
    <3> QED BY <2>0, <2>2, <3>2 DEF Build
  <2> QED BY <2>1, <2>2
<1>5. BusyIsLoaded' /\ CopiesAreClean' /\ NothingRawIsShown' /\ ShownIsRestorable'
  <2>1. shown' = {} /\ \A d \in Dispatches : pending'[d].next = 0
    BY <1>3 DEF Busy
  <2>2. CopiesAreClean'
    <3> SUFFICES ASSUME NEW d \in Dispatches, NEW i \in 1 .. Len(pending'[d].copy), i < pending'[d].next
                 PROVE  FALSE
      BY DEF CopiesAreClean
    <3>1. pending'[d].copy \in Seq(Parts)
      BY <1>2 DEF PluginTypeOK, Copies
    <3> QED BY <2>1, <3>1, LenProperties
  <2> QED BY <1>3, <2>1, <2>2 DEF BusyIsLoaded, NothingRawIsShown, ShownIsRestorable
<1> QED BY <1>2, <1>4, <1>5 DEF StoreInv

LEMMA InitEndsKeeps == ASSUME StoreInv, NEW m \in Instances, InitEnds(m) PROVE StoreInv'
<1>1. PluginTypeOK'
  BY DEF InitEnds, StoreInv, PluginTypeOK
<1>2. UNCHANGED <<boundary, build, remover, singleton, vault, store, pending, shown>>
  BY DEF InitEnds
<1>3. RemoverIsShared' /\ BusyIsLoaded' /\ CopiesAreClean' /\ NothingRawIsShown' /\ ShownIsRestorable'
  BY <1>2 DEF StoreInv, RemoverIsShared, BusyIsLoaded, Busy, Loaded, CopiesAreClean, KeptBy, NothingRawIsShown,
              ShownIsRestorable
<1> QED BY <1>1, <1>3 DEF StoreInv

LEMMA BuildEndsKeeps == ASSUME StoreInv, NEW m \in Instances, BuildEnds(m) PROVE StoreInv'
<1>1. /\ build[m] = "waiting"
      /\ UNCHANGED <<boundary, remover, singleton, promise, vault, store, pending, shown>>
      /\ \E result \in {"ready", "failed"} : build' = [build EXCEPT ![m] = result]
  BY DEF BuildEnds
<1>2. ~Busy
  BY <1>1 DEF StoreInv, BusyIsLoaded, Loaded
<1>3. PluginTypeOK'
  BY <1>1 DEF StoreInv, PluginTypeOK
<1>4. RemoverIsShared'
  BY <1>1 DEF StoreInv, PluginTypeOK, RemoverIsShared
<1>5. BusyIsLoaded' /\ CopiesAreClean' /\ NothingRawIsShown' /\ ShownIsRestorable'
  BY <1>1, <1>2 DEF StoreInv, BusyIsLoaded, Busy, CopiesAreClean, KeptBy, NothingRawIsShown, ShownIsRestorable
<1> QED BY <1>3, <1>4, <1>5 DEF StoreInv

\* The copy is the host's conversation; with the boundary, nothing of it counts as masked yet.
LEMMA DispatchKeeps == ASSUME StoreInv, NEW d \in Dispatches, Dispatch(d) PROVE StoreInv'
<1>1. /\ First \in Nat /\ (boundary => First = 1)
      /\ store \in Seq(Parts) /\ pending \in [Dispatches -> Copies]
  BY LenProperties DEF First, StoreInv, PluginTypeOK
<1>2. /\ pending' = [pending EXCEPT ![d] = [copy |-> store, next |-> First]]
      /\ UNCHANGED <<boundary, build, remover, singleton, promise, vault, store, shown>>
      /\ Loaded
  BY DEF Dispatch, buildVars
<1>3. pending'[d] = [copy |-> store, next |-> First] /\ \A e \in Dispatches \ {d} : pending'[e] = pending[e]
  BY <1>1, <1>2
<1>4. PluginTypeOK'
  BY <1>1, <1>2 DEF StoreInv, PluginTypeOK, Copies
<1>5. CopiesAreClean'
  <2> SUFFICES ASSUME boundary, NEW e \in Dispatches, NEW i \in 1 .. Len(pending'[e].copy),
                      i < pending'[e].next
               PROVE  Clean(pending'[e].copy[i], KeptBy(Masker))
    BY <1>2 DEF CopiesAreClean, KeptBy
  <2>1. e # d
    BY <1>1, <1>3
  <2> QED BY <1>3, <2>1 DEF StoreInv, CopiesAreClean
<1>6. RemoverIsShared' /\ BusyIsLoaded' /\ NothingRawIsShown' /\ ShownIsRestorable'
  BY <1>2 DEF StoreInv, RemoverIsShared, BusyIsLoaded, Loaded, NothingRawIsShown, ShownIsRestorable, KeptBy
<1> QED BY <1>4, <1>5, <1>6 DEF StoreInv

\* Each part that is masked is clean in a vault that has its values, and stays so while
\* others mask.
LEMMA MaskNextKeeps == ASSUME StoreInv, NEW d \in Dispatches, MaskNext(d) PROVE StoreInv'
<1> DEFINE i == pending[d].next
           copy == pending[d].copy
           part == copy[i]
           held == KeptBy(Masker)
           new == MaskPart(part, held)
<1>1. /\ pending \in [Dispatches -> Copies] /\ copy \in Seq(Parts) /\ i \in Nat
      /\ i \in 1 .. Len(copy) /\ part \in Parts
      /\ vault \in [Instances -> SUBSET Values] /\ remover \in [Instances -> Instances]
  BY LenProperties, ElementOfSeq DEF MaskNext, StoreInv, PluginTypeOK, Copies
<1>2. Busy /\ Loaded
  BY <1>1 DEF StoreInv, BusyIsLoaded, Busy
<1>3. /\ remover[Masker] \in Instances /\ remover[Masker] = remover[Restorer]
      /\ held \in SUBSET Values /\ held = vault[remover[Masker]]
  BY <1>2, OneRemover DEF StoreInv, KeptBy
<1>4. UNCHANGED <<boundary, build, remover, singleton, promise, store, shown>>
  BY DEF MaskNext, buildVars
<1>5. CASE /\ pending' = [pending EXCEPT ![d] = [copy |-> [@.copy EXCEPT ![i] = new], next |-> i + 1]]
           /\ vault' = [vault EXCEPT ![remover[Masker]] = @ \cup Minted(part, @)]
  <2>1. /\ new \in Parts /\ Minted(part, held) \in SUBSET Values
        /\ Clean(new, held \cup Minted(part, held))
    BY <1>1, <1>3, MaskedIsClean
  <2> HIDE DEF new
  <2>2. /\ vault' \in [Instances -> SUBSET Values]
        /\ vault'[remover[Masker]] = held \cup Minted(part, held)
        /\ KeptBy(Masker)' = held \cup Minted(part, held)
        /\ KeptBy(Restorer)' = held \cup Minted(part, held)
        /\ KeptBy(Restorer) = held
    BY <1>1, <1>3, <1>4, <1>5, <2>1 DEF KeptBy
  <2>3. /\ pending'[d].next = i + 1 /\ pending'[d].copy = [copy EXCEPT ![i] = new]
        /\ [copy EXCEPT ![i] = new] \in Seq(Parts) /\ Len([copy EXCEPT ![i] = new]) = Len(copy)
        /\ \A e \in Dispatches \ {d} : pending'[e] = pending[e]
    BY <1>1, <1>5, <2>1, ExceptSeq
  <2>4. PluginTypeOK'
    <3>1. pending' \in [Dispatches -> Copies]
      BY <1>1, <1>5, <2>3 DEF Copies
    <3> QED BY <1>4, <2>2, <3>1 DEF StoreInv, PluginTypeOK
  <2>5. CopiesAreClean'
    <3> SUFFICES ASSUME boundary, NEW e \in Dispatches, NEW k \in 1 .. Len(pending'[e].copy),
                        k < pending'[e].next
                 PROVE  Clean(pending'[e].copy[k], held \cup Minted(part, held))
      BY <1>4, <2>2 DEF CopiesAreClean
    <3>1. CASE e = d /\ k = i
      <4>1. pending'[e].copy[k] = new
        BY <1>1, <2>3, <3>1
      <4> QED BY <2>1, <4>1
    <3>2. CASE e # d \/ k # i
      <4>1. /\ k \in 1 .. Len(pending[e].copy) /\ k < pending[e].next
            /\ pending'[e].copy[k] = pending[e].copy[k]
        <5>1. CASE e # d
          BY <2>3, <5>1
        <5>2. CASE e = d
          BY <1>1, <2>3, <3>2, <5>2
        <5> QED BY <5>1, <5>2
      <4>2. Clean(pending[e].copy[k], held)
        BY <4>1 DEF StoreInv, CopiesAreClean
      <4> QED BY <4>1, <4>2, GrownStaysClean
    <3> QED BY <3>1, <3>2
  <2>6. RemoverIsShared' /\ BusyIsLoaded' /\ NothingRawIsShown'
    BY <1>2, <1>4 DEF StoreInv, RemoverIsShared, BusyIsLoaded, Loaded, NothingRawIsShown
  <2>7. ShownIsRestorable'
    BY <1>4, <2>2 DEF StoreInv, ShownIsRestorable, Alive
  <2> QED BY <2>4, <2>5, <2>6, <2>7 DEF StoreInv
<1>6. CASE pending' = [pending EXCEPT ![d] = [copy |-> <<>>, next |-> 0]] /\ UNCHANGED vault
  <2>1. pending'[d] = [copy |-> <<>>, next |-> 0] /\ \A e \in Dispatches \ {d} : pending'[e] = pending[e]
    BY <1>1, <1>6
  <2>2. PluginTypeOK'
    <3>1. [copy |-> <<>>, next |-> 0] \in Copies
      BY EmptySeq DEF Copies
    <3> QED BY <1>1, <1>4, <1>6, <3>1 DEF StoreInv, PluginTypeOK
  <2>3. CopiesAreClean'
    <3> SUFFICES ASSUME boundary, NEW e \in Dispatches, NEW k \in 1 .. Len(pending'[e].copy),
                        k < pending'[e].next
                 PROVE  Clean(pending'[e].copy[k], KeptBy(Masker))
      BY <1>4, <1>6 DEF CopiesAreClean, KeptBy
    <3>1. e # d
      BY <2>1
    <3> QED BY <2>1, <3>1 DEF StoreInv, CopiesAreClean
  <2>4. RemoverIsShared' /\ BusyIsLoaded' /\ NothingRawIsShown' /\ ShownIsRestorable'
    BY <1>2, <1>4, <1>6 DEF StoreInv, RemoverIsShared, BusyIsLoaded, Loaded, NothingRawIsShown,
                            ShownIsRestorable, KeptBy
  <2> QED BY <2>2, <2>3, <2>4 DEF StoreInv
<1> QED BY <1>5, <1>6 DEF MaskNext

\* What is sent is a copy all of whose parts have been masked.
LEMMA SendKeeps == ASSUME StoreInv, NEW d \in Dispatches, Send(d) PROVE StoreInv'
<1> DEFINE copy == pending[d].copy
           held == KeptBy(Masker)
           Sight(part, l) == [user |-> part.user, bare |-> l \in Plumbing \/ part.type \in Bare,
                              atom |-> part.leaves[l], live |-> Alive(held, part.leaves[l])]
<1>1. /\ pending \in [Dispatches -> Copies] /\ copy \in Seq(Parts) /\ pending[d].next = Len(copy) + 1
      /\ Len(copy) \in Nat /\ DOMAIN copy = 1 .. Len(copy)
  BY LenProperties DEF Send, StoreInv, PluginTypeOK, Copies
<1>2. Busy /\ Loaded
  BY <1>1 DEF StoreInv, BusyIsLoaded, Busy
<1>3. held = KeptBy(Restorer) /\ held \in SUBSET Values
  BY <1>2, OneRemover DEF StoreInv
<1>4. /\ UNCHANGED <<boundary, build, remover, singleton, promise, vault, store>>
      /\ pending' = [pending EXCEPT ![d] = [copy |-> <<>>, next |-> 0]]
      /\ KeptBy(Masker)' = held /\ KeptBy(Restorer)' = held
  BY <1>3 DEF Send, buildVars, KeptBy
<1>5. ASSUME NEW s \in shown', s \notin shown
      PROVE  \E i \in 1 .. Len(copy) : \E l \in DOMAIN copy[i].leaves : s = Sight(copy[i], l)
  BY <1>1, <1>5 DEF Send
<1>6. ASSUME NEW i \in 1 .. Len(copy), NEW l \in DOMAIN copy[i].leaves
      PROVE  /\ Sight(copy[i], l) \in Sights
             /\ boundary => Clean(copy[i], held)
  <2>1. copy[i] \in Parts
    BY <1>1, ElementOfSeq
  <2>2. copy[i].leaves[l] \in Leaf /\ copy[i].user \in BOOLEAN
    BY <2>1, <1>6 DEF Parts, Leaves
  <2>3. Alive(held, copy[i].leaves[l]) \in BOOLEAN /\ (l \in Plumbing \/ copy[i].type \in Bare) \in BOOLEAN
    BY DEF Alive
  <2>4. Sight(copy[i], l) \in Sights
    BY <2>2, <2>3 DEF Sights
  <2>5. boundary => Clean(copy[i], held)
    BY <1>1 DEF StoreInv, CopiesAreClean
  <2> QED BY <2>4, <2>5
<1>7. shown' \in SUBSET Sights
  <2> SUFFICES ASSUME NEW s \in shown' PROVE s \in Sights
    OBVIOUS
  <2>1. CASE s \in shown
    BY <2>1 DEF StoreInv, PluginTypeOK
  <2>2. CASE s \notin shown
    <3>1. PICK i \in 1 .. Len(copy) : \E l \in DOMAIN copy[i].leaves : s = Sight(copy[i], l)
      BY <1>5, <2>2
    <3>2. PICK l \in DOMAIN copy[i].leaves : s = Sight(copy[i], l)
      BY <3>1
    <3>3. Sight(copy[i], l) \in Sights
      BY <1>6
    <3> QED BY <3>2, <3>3
  <2> QED BY <2>1, <2>2
<1>8. PluginTypeOK'
  <2>1. [copy |-> <<>>, next |-> 0] \in Copies
    BY EmptySeq DEF Copies
  <2> QED BY <1>1, <1>4, <1>7, <2>1 DEF StoreInv, PluginTypeOK
<1>9. CopiesAreClean'
  <2> SUFFICES ASSUME boundary, NEW e \in Dispatches, NEW k \in 1 .. Len(pending'[e].copy),
                      k < pending'[e].next
               PROVE  Clean(pending'[e].copy[k], held)
    BY <1>4 DEF CopiesAreClean
  <2>1. e # d /\ pending'[e] = pending[e]
    BY <1>1, <1>4
  <2> QED BY <2>1 DEF StoreInv, CopiesAreClean
<1>10. ASSUME boundary, NEW s \in shown', s \notin shown
       PROVE  /\ s.atom.kind = "raw" => s.bare
              /\ s.atom.kind \in {"token", "forged"} => (s.user /\ ~s.live) \/ Alive(held, s.atom)
  <2>1. PICK i \in 1 .. Len(copy) : \E l \in DOMAIN copy[i].leaves : s = Sight(copy[i], l)
    BY <1>5, <1>10
  <2>2. PICK l \in DOMAIN copy[i].leaves : s = Sight(copy[i], l)
    BY <2>1
  <2>3. Clean(copy[i], held)
    BY <1>6, <1>10
  <2> QED BY <2>2, <2>3 DEF Clean
<1>11. NothingRawIsShown'
  BY <1>4, <1>10 DEF StoreInv, NothingRawIsShown
<1>12. ShownIsRestorable'
  BY <1>3, <1>4, <1>10 DEF StoreInv, ShownIsRestorable
<1>13. RemoverIsShared' /\ BusyIsLoaded'
  BY <1>2, <1>4 DEF StoreInv, RemoverIsShared, BusyIsLoaded, Loaded
<1> QED BY <1>8, <1>9, <1>11, <1>12, <1>13 DEF StoreInv

\* A fresh process has nothing under way.
LEMMA FreshKeeps ==
    ASSUME boundary' \in BOOLEAN, store' \in Seq(Parts),
           build' = [m \in Instances |-> "new"], remover' = [m \in Instances |-> m],
           singleton' = "none", promise' = [m \in Instances |-> "resolved"],
           vault' = [m \in Instances |-> {}],
           pending' = [d \in Dispatches |-> [copy |-> <<>>, next |-> 0]], shown' = {}
    PROVE  StoreInv'
<1>1. [copy |-> <<>>, next |-> 0] \in Copies
  BY EmptySeq DEF Copies
<1>2. PluginTypeOK'
  BY <1>1 DEF PluginTypeOK
<1>3. RemoverIsShared' /\ BusyIsLoaded' /\ NothingRawIsShown' /\ ShownIsRestorable'
  BY DEF RemoverIsShared, BusyIsLoaded, Busy, NothingRawIsShown, ShownIsRestorable
<1>4. CopiesAreClean'
  <2> SUFFICES ASSUME NEW d \in Dispatches, NEW i \in 1 .. Len(pending'[d].copy), i < pending'[d].next
               PROVE  FALSE
    BY DEF CopiesAreClean
  <2>1. pending'[d] = [copy |-> <<>>, next |-> 0]
    OBVIOUS
  <2> QED BY <2>1
<1> QED BY <1>2, <1>3, <1>4 DEF StoreInv

\* The inductive invariant: the modules share one remover, nothing is under way before they
\* are loaded, and what of a request has been masked is clean in the vault they share
\* (getOrCreateRemover, maskPartInPlace).
THEOREM PluginStaysShared == Spec => []StoreInv
<1>1. Init => StoreInv
  <2> SUFFICES ASSUME Init PROVE StoreInv
    OBVIOUS
  <2>1. [copy |-> <<>>, next |-> 0] \in Copies /\ store \in Seq(Parts)
    BY EmptySeq DEF Copies, Init
  <2>2. PluginTypeOK
    BY <2>1 DEF Init, PluginTypeOK
  <2>3. ~Busy
    <3>1. \A d \in Dispatches : pending[d].next = 0
      BY DEF Init
    <3> QED BY <3>1 DEF Init, Busy
  <2>4. RemoverIsShared
    BY DEF Init, RemoverIsShared
  <2> QED BY <2>2, <2>3, <2>4, RestIsClean DEF StoreInv
<1>2. StoreInv /\ [Next]_vars => StoreInv'
  <2> SUFFICES ASSUME StoreInv, [Next]_vars PROVE StoreInv'
    OBVIOUS
  <2>1. CASE UNCHANGED vars
    BY <2>1 DEF vars, StoreInv, PluginTypeOK, RemoverIsShared, BusyIsLoaded, Busy, Loaded, CopiesAreClean, KeptBy,
                NothingRawIsShown, ShownIsRestorable
  <2>2. CASE Restart
    BY <2>2, FreshKeeps DEF Restart, StoreInv, PluginTypeOK
  <2> QED BY <2>1, <2>2, BuildKeeps, InitEndsKeeps, BuildEndsKeeps, UserSaysKeeps, ModelWritesKeeps,
             HostAddsKeeps, DispatchKeeps, MaskNextKeeps, SendKeeps, ToolRunsKeeps
          DEF Next, Idle
<1> QED BY <1>1, <1>2, PTL DEF Spec

LEMMA PartsAreTyped == ASSUME PluginTypeOK PROVE TypeOK
<1>1. ASSUME NEW i \in DOMAIN store, NEW l \in DOMAIN store[i].leaves
      PROVE  store[i].leaves[l] \in Atoms \cup {Swept}
  <2>1. store[i] \in Parts
    BY ElementOfSeq, LenProperties DEF PluginTypeOK
  <2> QED BY <1>1, <2>1 DEF Parts, Leaves, Leaf
<1> QED BY <1>1 DEF TypeOK, PluginTypeOK

\* With the boundary the model is shown no value but in fields that name things, and no
\* token that cannot be restored but what the user typed: whatever requests overlap, and
\* whoever built the shared remover (hooks.ts).
THEOREM PluginIsSafe == Spec => []PluginInv
<1>1. StoreInv => PluginInv
  BY PartsAreTyped DEF StoreInv, PluginInv
<1> QED BY <1>1, PluginStaysShared, PTL

\* What the user sees is never rewritten: a request works on a copy (hooks.ts:652-656).
THEOREM PartsStay == Spec => StoreKeepsItsParts
<1>1. StoreInv /\ [Next]_vars => [\A i \in DOMAIN store : store'[i] = store[i]]_vars
  <2> SUFFICES ASSUME StoreInv, Next, NEW i \in DOMAIN store PROVE store'[i] = store[i]
    BY DEF vars
  <2>1. store \in Seq(Parts)
    BY DEF StoreInv, PluginTypeOK
  <2>2. ASSUME NEW part, Adds(part) PROVE store'[i] = store[i]
    BY <2>1, <2>2 DEF Adds
  <2>3. CASE UNCHANGED store
    BY <2>3
  <2> QED BY <2>2, <2>3 DEF Next, Build, InitEnds, BuildEnds, UserSays, ModelWrites, HostAdds, Dispatch, MaskNext,
             Send, ToolRuns, Idle, Restart, vars
<1> QED BY <1>1, PluginStaysShared, PTL DEF Spec, StoreKeepsItsParts

-----------------------------------------------------------------------------
(* The hook of a prompt                                                    *)

\* Before the masking nothing has been written, and the hook ends well only with the
\* answer it decided on.
HookInv ==
    /\ HookTypeOK
    /\ stage \in {Stages[i] : i \in 1 .. 6} => stdout = <<>> /\ exit = "running"
    /\ stage = "dispose" => stdout = <<Decision>> /\ exit = "running"
    /\ stage = "ended" => exit = 2 \/ (exit = 0 /\ stdout = <<Decision>>)
    /\ stage # "ended" => host = "waiting"
    /\ GateIsClosed

LEMMA StageNames ==
    /\ DOMAIN Stages = 1 .. 6
    /\ Stages[1] = "stdin" /\ Stages[2] = "parse" /\ Stages[3] = "config" /\ Stages[4] = "start"
    /\ Stages[5] = "init" /\ Stages[6] = "mask"
    /\ {Stages[i] : i \in 1 .. 6} = {"stdin", "parse", "config", "start", "init", "mask"}
  BY DEF Stages

LEMMA FailKeeps == ASSUME HookInv, stage # "ended", Fail PROVE HookInv'
  BY StageNames DEF HookInv, HookTypeOK, Fail, GateIsClosed, Decision, Tokens, Configured

\* Whatever stage of the hook fails, a prompt with personal data goes to no other machine
\* than this one, unless the user vouches for it or has masking switched off by name; what
\* listens on this machine the hook does not find out (hook.ts).
THEOREM GateStaysClosed == HookSpec => [](HookTypeOK /\ GateIsClosed)
<1>1. HookInit => HookInv
  BY StageNames DEF HookInit, HookInv, HookTypeOK, GateIsClosed
<1>2. HookInv /\ [HookNext]_hookVars => HookInv'
  <2> SUFFICES ASSUME HookInv, [HookNext]_hookVars PROVE HookInv'
    OBVIOUS
  <2>1. CASE UNCHANGED hookVars
    BY <2>1 DEF hookVars, HookInv, HookTypeOK, GateIsClosed, Decision, Tokens, Configured
  <2>2. CASE Prepare
    <3>1. PICK i \in 1 .. 5 :
            /\ stage = Stages[i]
            /\ \/ /\ stage' = IF stage = "config" /\ ~env.auto_start THEN "init" ELSE Stages[i + 1]
                  /\ UNCHANGED <<env, prompt, stdout, exit, host>>
               \/ Fail
      BY <2>2 DEF Prepare
    <3>2. stage \in {Stages[k] : k \in 1 .. 6} /\ stage # "ended" /\ stage # "dispose"
      BY <3>1, StageNames
    <3>3. CASE /\ stage' = IF stage = "config" /\ ~env.auto_start THEN "init" ELSE Stages[i + 1]
               /\ UNCHANGED <<env, prompt, stdout, exit, host>>
      <4>1. stage' \in {Stages[k] : k \in 1 .. 6} /\ stage' # "ended" /\ stage' # "dispose"
        BY <3>3, StageNames
      <4> QED BY <3>2, <3>3, <4>1, StageNames DEF HookInv, HookTypeOK, GateIsClosed
    <3> QED BY <3>1, <3>2, <3>3, FailKeeps
  <2>3. CASE Mask
    <3>1. stage = "mask" /\ stdout = <<>> /\ exit = "running" /\ host = "waiting"
      BY <2>3, StageNames DEF Mask, HookInv
    <3>2. CASE stdout' = Append(stdout, Decision) /\ stage' = "dispose" /\ UNCHANGED <<env, prompt, exit, host>>
      <4>1. stdout' = <<Decision>>
        BY <3>1, <3>2
      <4>2. Decision' = Decision
        BY <3>2 DEF Decision, Tokens, Configured
      <4> QED BY <3>1, <3>2, <4>1, <4>2, StageNames DEF HookInv, HookTypeOK, GateIsClosed
    <3> QED BY <2>3, <3>1, <3>2, FailKeeps DEF Mask
  <2>4. CASE Dispose
    <3>1. CASE stage' = "ended" /\ exit' = 0 /\ UNCHANGED <<env, prompt, stdout, host>>
      <4>1. Decision' = Decision
        BY <3>1 DEF Decision, Tokens, Configured
      <4> QED BY <2>4, <3>1, <4>1, StageNames DEF Dispose, HookInv, HookTypeOK, GateIsClosed
    <3> QED BY <2>4, <3>1, FailKeeps DEF Dispose
  <2>5. CASE HostDecides
    <3>1. stage = "ended" /\ UNCHANGED <<env, prompt, stage, stdout, exit>> /\ host' \in {"blocked", "sent"}
      BY <2>5 DEF HostDecides
    <3>2. Decision' = Decision
      BY <3>1 DEF Decision, Tokens, Configured
    <3>3. ASSUME host' = "sent"
          PROVE  /\ exit = 0 /\ stdout # <<>>
                 /\ prompt # {} => env.trust \/ env.bypass \/ env.url[1] = "local"
      <4>1. exit = 0 /\ stdout = <<Decision>> /\ Decision # "block"
        BY <2>5, <3>1, <3>3 DEF HostDecides, HookInv
      <4> QED BY <4>1 DEF Decision, Tokens, Configured
    <3>4. GateIsClosed'
      BY <3>1, <3>3 DEF GateIsClosed
    <3> QED BY <3>1, <3>2, <3>4, StageNames DEF HookInv, HookTypeOK
  <2> QED BY <2>1, <2>2, <2>3, <2>4, <2>5 DEF HookNext
<1>3. HookInv => HookTypeOK /\ GateIsClosed
  BY DEF HookInv
<1> QED BY <1>1, <1>2, <1>3, PTL DEF HookSpec

-----------------------------------------------------------------------------
(* The three of them                                                        *)

\* The run that checks the clients takes no step of theirs that is not one of their own.
LEMMA LayersAreSpecs == MCSpec => InstallSpec /\ HookSpec /\ Spec
<1>1. MCInit => InstallInit /\ HookInit /\ Init
  BY DEF MCInit, ClientsInit
<1>2. [MCNext]_<<layer, clientVars, allStreamVars>> =>
          [InstallNext]_installVars /\ [HookNext]_hookVars /\ [Next]_vars
  BY DEF MCNext, clientVars
<1> QED BY <1>1, <1>2, PTL DEF MCSpec, InstallSpec, HookSpec, Spec

\* A URL the installer reports as enabled is one the hook trusts.
LEMMA WrittenIsTrusted == WrittenInv => InstalledIsTrusted
<1> SUFFICES ASSUME WrittenInv, NEW i \in Invocations, outcome[i]["claude-code"].kind = "installed",
                    "anthropic" \in outcome[i]["claude-code"].enabled, request[i].root = "local"
             PROVE  Configured([url |-> outcome[i]["claude-code"].wrote.urls["anthropic"], trust |-> FALSE])
  BY DEF InstalledIsTrusted
<1>1. "claude-code" \in Hosts
  BY HostNames
<1>2. outcome[i]["claude-code"].enabled =
          Written("claude-code", request[i], outcome[i]["claude-code"].wrote.urls)
  BY <1>1 DEF WrittenInv, OutcomesAreWritten
<1>3. outcome[i]["claude-code"].wrote.urls["anthropic"] = <<"local", "anthropic">>
  BY <1>2 DEF Written
<1> QED BY <1>3 DEF Configured

\* Personal data leaves this machine through a client only where the user says so: the hook
\* lets a prompt pass to a local URL or one that is vouched for, the URL an installer sets
\* up is one of these, and the plugin shows the model no value and no token that cannot be
\* restored (hook.ts, hooks.ts).
THEOREM GatesStayClosed == MCSpec => []GatesAreClosed
<1>1. InstallSpec => []InstalledIsTrusted
  BY WrittenAtFirst, WrittenStays, WrittenIsTrusted, PTL DEF InstallSpec
<1>2. HookTypeOK /\ GateIsClosed /\ InstalledIsTrusted /\ PluginInv => GatesAreClosed
  BY DEF GatesAreClosed
<1> QED BY <1>1, <1>2, LayersAreSpecs, GateStaysClosed, PluginIsSafe, PTL
=============================================================================
