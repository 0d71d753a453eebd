------------------------- MODULE ShardBalanceProofs -------------------------
(***************************************************************************)
(* What balance deals out, for any number of groups and shards.            *)
(*                                                                         *)
(* balance gives the shards of group 0 to the least group, and then moves  *)
(* shards from the largest group to the smallest one. The rounds bring the *)
(* sizes together, so they end within the number of shards; each of them   *)
(* takes the same groups in whatever order it walks the maps; so all       *)
(* replicas get the same result, and Dealt says what it is.                *)
(*                                                                         *)
(* A loop is a function that is defined round by round: that it has values,*)
(* and what they have in common, is shown by induction on the least round  *)
(* for which it fails (UpTo).                                              *)
(***************************************************************************)
EXTENDS ShardBalance, FiniteSetTheorems, TLAPS

\* The quicker prover first, and once more with more time.
USE ZenonT(2), SMT, Zenon

-----------------------------------------------------------------------------
(* Sequences                                                               *)

\* What Append, concatenation and Tail return.
LEMMA AppendSeq ==
    ASSUME NEW T, NEW s \in Seq(T), NEW e \in T
    PROVE  /\ Append(s, e) \in Seq(T) /\ Append(s, e) # <<>>
           /\ Len(Append(s, e)) = Len(s) + 1 /\ Append(s, e)[Len(s) + 1] = e
           /\ \A i \in 1 .. Len(s) : Append(s, e)[i] = s[i]
OBVIOUS

LEMMA ConcatSeq ==
    ASSUME NEW T, NEW s \in Seq(T), NEW t \in Seq(T)
    PROVE  /\ s \o t \in Seq(T) /\ Len(s \o t) = Len(s) + Len(t)
           /\ \A i \in 1 .. Len(s) + Len(t) :
                 (s \o t)[i] = IF i <= Len(s) THEN s[i] ELSE t[i - Len(s)]
OBVIOUS

LEMMA TailSeq ==
    ASSUME NEW T, NEW s \in Seq(T), s # <<>>
    PROVE  /\ Head(s) \in T /\ Tail(s) \in Seq(T) /\ Len(Tail(s)) = Len(s) - 1
           /\ \A i \in 1 .. Len(Tail(s)) : Tail(s)[i] = s[i + 1]
OBVIOUS

-----------------------------------------------------------------------------
(* Loops                                                                   *)

\* A set of natural numbers has a least element.
LEMMA Least ==
    ASSUME NEW S, S \subseteq Nat, S # {}
    PROVE  \E n \in S : \A m \in S : n <= m
<1> DEFINE R == OpToRel(<, Nat)
<1>1. IsWellFoundedOn(R, Nat)
  BY NatLessThanWellFounded
<1>2. \A m, n \in Nat : m < n => <<m, n>> \in R
  BY DEF OpToRel
<1> HIDE DEF R
<1>3. PICK n \in S : \A m \in S : ~ (<<m, n>> \in R)
  BY <1>1, WFMin, Zenon
<1>4. \A m \in S : ~ (m < n)
  BY <1>2, <1>3, Zenon
<1>5. n \in Nat /\ S \subseteq Nat
  OBVIOUS
<1>6. \A m \in S : n <= m
  BY ONLY <1>4, <1>5
<1> QED
  BY <1>6, Zenon

\* Induction up to M: Good holds what the induction is about.
LEMMA UpTo ==
    ASSUME NEW M \in Nat, NEW Good, 0 \in Good,
           \A n \in 1 .. M : n - 1 \in Good => n \in Good
    PROVE  \A n \in 0 .. M : n \in Good
<1> SUFFICES ASSUME NEW k \in 0 .. M, k \notin Good PROVE FALSE
  OBVIOUS
<1> DEFINE Bad == {n \in 0 .. M : n \notin Good}
<1>1. PICK n \in Bad : \A m \in Bad : n <= m
  <2>1. Bad \subseteq Nat /\ Bad # {}
    OBVIOUS
  <2> HIDE DEF Bad
  <2> QED
    BY <2>1, Least
<1>2. n \in 1 .. M /\ n \notin Good
  BY <1>1
<1>3. n - 1 \in 0 .. M /\ ~ (n <= n - 1)
  BY <1>2
<1>4. n - 1 \in Good
  BY <1>1, <1>3
<1> QED
  BY <1>2, <1>4

\* f holds the values of a loop of M rounds: a before the first, and then what round n,
\* F[n], makes of the value before it.
values(f, M, a, F) == f[0] = a /\ \A n \in 1 .. M : f[n] = F[n][f[n - 1]]

\* A loop of M rounds has a value after each of them.
LEMMA Loop ==
    ASSUME NEW M \in Nat, NEW A, NEW a \in A, NEW F \in [1 .. M -> [A -> A]]
    PROVE  \E f \in [0 .. M -> A] : values(f, M, a, F)
<1> DEFINE step(n, x) == F[n][x]
<1>0. \A n \in 1 .. M, x \in A : step(n, x) \in A
  OBVIOUS
<1> HIDE DEF step
<1> DEFINE P(n, f) == f[0] = a /\ \A k \in 1 .. n : f[k] = step(k, f[k - 1])
           Good == {n \in 0 .. M : \E f \in [0 .. n -> A] : P(n, f)}
<1>1. 0 \in Good
  <2>1. [k \in 0 .. 0 |-> a] \in [0 .. 0 -> A] /\ P(0, [k \in 0 .. 0 |-> a])
    OBVIOUS
  <2>2. \E f \in [0 .. 0 -> A] : P(0, f)
    BY <2>1, Zenon
  <2> QED
    BY <2>2
<1>2. ASSUME NEW n \in 1 .. M, n - 1 \in Good PROVE n \in Good
  <2>1. PICK f \in [0 .. n - 1 -> A] : P(n - 1, f)
    BY <1>2
  <2> DEFINE g == [k \in 0 .. n |-> IF k = n THEN step(n, f[n - 1]) ELSE f[k]]
  <2>2. f[n - 1] \in A
    OBVIOUS
  <2>3. step(n, f[n - 1]) \in A
    BY <1>0, <2>2
  <2>4. g \in [0 .. n -> A]
    BY <2>3
  <2>5. g[0] = a
    BY <2>1
  <2>6. ASSUME NEW k \in 1 .. n PROVE g[k] = step(k, g[k - 1])
    <3>1. g[k - 1] = f[k - 1]
      BY <2>6
    <3>2. CASE k = n
      BY <3>1, <3>2
    <3>3. CASE k # n
      <4>1. k \in 1 .. n - 1
        BY <3>3
      <4>2. f[k] = step(k, f[k - 1])
        BY <2>1, <4>1
      <4> QED
        BY <3>1, <3>3, <4>2
    <3> QED
      BY <3>2, <3>3
  <2>7. P(n, g)
    BY <2>5, <2>6
  <2> HIDE DEF g, P
  <2> QED
    BY <2>4, <2>7
<1> HIDE DEF Good
<1>3. M \in Good
  <2>1. \A n \in 0 .. M : n \in Good
    BY <1>1, <1>2, UpTo
  <2> QED
    BY <2>1
<1>4. PICK f \in [0 .. M -> A] : P(M, f)
  BY <1>3 DEF Good
<1>5. values(f, M, a, F)
  BY <1>4 DEF values, step
<1> QED
  BY <1>5

\* The walks over S.
Walks(S) == Bijection(1 .. Cardinality(S), S)

\* A walk over S meets every element of S.
LEMMA WalkMeetsAll ==
    ASSUME NEW S, IsFiniteSet(S), NEW order \in Walks(S)
    PROVE  /\ order \in Seq(S) /\ Len(order) = Cardinality(S) /\ Cardinality(S) \in Nat
           /\ \A g \in S : \E n \in 1 .. Len(order) : order[n] = g
<1>1. Cardinality(S) \in Nat
  BY FS_CardinalityType
<1>2. /\ order \in [1 .. Cardinality(S) -> S]
      /\ \A g \in S : \E n \in 1 .. Cardinality(S) : order[n] = g
  BY DEF Walks, Bijection, Surjection
<1>3. order \in Seq(S) /\ Len(order) = Cardinality(S)
  BY <1>1, <1>2
<1> QED
  BY <1>1, <1>2, <1>3

\* Group g of S has the fewest shards, or the most, and is the least of those that have.
Fewest(m, S, g) ==
    /\ g \in S
    /\ \A h \in S : Len(m[g]) < Len(m[h]) \/ (Len(m[g]) = Len(m[h]) /\ g <= h)

Most(m, S, g) ==
    /\ g \in S
    /\ \A h \in S : Len(m[g]) > Len(m[h]) \/ (Len(m[g]) = Len(m[h]) /\ g <= h)

\* getGidWithMinShards finds it, in whatever order it walks.
LEMMA MinShards ==
    ASSUME NEW S, S \subseteq Nat, S # {}, IsFiniteSet(S), NEW m, \A g \in S : Len(m[g]) \in Nat,
           NEW order \in Walks(S)
    PROVE  Fewest(m, S, getGidWithMinShards(m, order))
<1> DEFINE M == Len(order)
           A == [mi : Int, ans : Int]
           start0 == [mi |-> -1, ans |-> 0]
           step(n, a) == IF \/ a.mi = -1 \/ Len(m[order[n]]) < a.mi
                            \/ Len(m[order[n]]) = a.mi /\ order[n] < a.ans
                         THEN [mi |-> Len(m[order[n]]), ans |-> order[n]] ELSE a
           P(f) == f = [n \in 0 .. M |-> IF n = 0 THEN start0 ELSE step(n, f[n - 1])]
<1>1. /\ order \in Seq(S) /\ M = Cardinality(S) /\ M \in Nat
      /\ \A g \in S : \E n \in 1 .. M : order[n] = g
  BY WalkMeetsAll
<1>2. \A n \in 1 .. M : order[n] \in S /\ order[n] \in Nat /\ Len(m[order[n]]) \in Nat
  <2>1. \A n \in 1 .. M : order[n] \in S
    BY <1>1
  <2> QED
    BY <2>1
<1>3. start0 \in A /\ \A n \in 1 .. M, a \in A : step(n, a) \in A
  BY <1>2
<1>4. getGidWithMinShards(m, order) = (CHOOSE f : P(f))[M].ans
  BY Zenon DEF getGidWithMinShards
<1> HIDE DEF A, step, start0, M
<1>5. \E f : P(f)
  <2> DEFINE F == [n \in 1 .. M |-> [a \in A |-> step(n, a)]]
  <2>1. F \in [1 .. M -> [A -> A]] /\ \A n \in 1 .. M, a \in A : F[n][a] = step(n, a)
    BY <1>3
  <2> HIDE DEF F
  <2>2. PICK f \in [0 .. M -> A] : values(f, M, start0, F)
    BY <1>1, <1>3, <2>1, Loop, Zenon
  <2>3. ASSUME NEW n \in 1 .. M PROVE f[n] = step(n, f[n - 1])
    <3>1. f[n - 1] \in A
      BY <1>1
    <3>2. f[n] = F[n][f[n - 1]]
      BY <2>2 DEF values
    <3> QED
      BY <2>1, <3>1, <3>2
  <2>4. P(f)
    BY <1>1, <2>2, <2>3 DEF values
  <2> HIDE DEF P
  <2> QED
    BY <2>4
<1>6. PICK f : P(f) /\ getGidWithMinShards(m, order) = f[M].ans
  <2> HIDE DEF P
  <2> QED
    BY <1>4, <1>5, Zenon
<1>7. f[0] = start0 /\ \A n \in 1 .. M : f[n] = step(n, f[n - 1])
  BY <1>1, <1>6
<1> DEFINE best(n) == /\ f[n] \in A
                      /\ f[n].ans \in S /\ f[n].mi = Len(m[f[n].ans])
                      /\ \A k \in 1 .. n : \/ f[n].mi < Len(m[order[k]])
                                           \/ f[n].mi = Len(m[order[k]]) /\ f[n].ans <= order[k]
           Good == {n \in 0 .. M : n > 0 => best(n)}
<1>8. 0 \in Good
  BY <1>1
<1>9. ASSUME NEW n \in 1 .. M, n - 1 \in Good PROVE n \in Good
  <2>1. f[n] = step(n, f[n - 1]) /\ order[n] \in S /\ order[n] \in Nat /\ Len(m[order[n]]) \in Nat
    BY <1>2, <1>7
  <2>2. CASE n = 1
    <3>1. f[n] = [mi |-> Len(m[order[n]]), ans |-> order[n]]
      BY <1>7, <2>1, <2>2 DEF step, start0
    <3> QED
      BY <2>1, <2>2, <3>1 DEF A
  <2>3. CASE n # 1
    <3>1. n - 1 \in 1 .. M /\ best(n - 1)
      BY <1>9, <2>3
    <3>2. PICK a : a = f[n - 1]
      OBVIOUS
    <3>3. /\ a \in A /\ a.ans \in S /\ a.ans \in Nat /\ a.mi = Len(m[a.ans]) /\ a.mi \in Nat
          /\ \A k \in 1 .. n - 1 : \/ a.mi < Len(m[order[k]])
                                   \/ a.mi = Len(m[order[k]]) /\ a.ans <= order[k]
      BY <3>1, <3>2
    <3>4. \A k \in 1 .. n : k = n \/ k \in 1 .. n - 1
      BY <1>1
    <3>5. CASE Len(m[order[n]]) < a.mi \/ (Len(m[order[n]]) = a.mi /\ order[n] < a.ans)
      <4>1. f[n] = [mi |-> Len(m[order[n]]), ans |-> order[n]]
        BY <2>1, <3>2, <3>5 DEF step
      <4>2. f[n] \in A /\ f[n].ans = order[n] /\ f[n].mi = Len(m[order[n]])
        BY <2>1, <4>1 DEF A
      <4>3. ASSUME NEW k \in 1 .. n
            PROVE  \/ Len(m[order[n]]) < Len(m[order[k]])
                   \/ Len(m[order[n]]) = Len(m[order[k]]) /\ order[n] <= order[k]
        <5>1. order[k] \in Nat /\ Len(m[order[k]]) \in Nat
          BY <1>1, <1>2
        <5>2. CASE k = n
          BY <2>1, <5>2
        <5>3. CASE k \in 1 .. n - 1
          BY <2>1, <3>3, <3>5, <5>1, <5>3
        <5> QED
          BY <3>4, <5>2, <5>3
      <4> QED
        BY <2>1, <4>2, <4>3
    <3>6. CASE ~ (Len(m[order[n]]) < a.mi \/ (Len(m[order[n]]) = a.mi /\ order[n] < a.ans))
      <4>1. f[n] = a
        BY <2>1, <3>2, <3>3, <3>6 DEF step
      <4>2. \A k \in 1 .. n : \/ a.mi < Len(m[order[k]])
                              \/ a.mi = Len(m[order[k]]) /\ a.ans <= order[k]
        BY <2>1, <3>3, <3>4, <3>6
      <4> QED
        BY <3>3, <4>1, <4>2
    <3> QED
      BY <3>5, <3>6
  <2> QED
    BY <2>2, <2>3
<1>10. M \in Good
  <2> HIDE DEF Good
  <2>1. \A n \in 0 .. M : n \in Good
    BY <1>1, <1>8, <1>9, UpTo
  <2> QED
    BY <1>1, <2>1
<1>11. M > 0
  <2>1. PICK g \in S : TRUE
    OBVIOUS
  <2>2. PICK n \in 1 .. M : order[n] = g
    BY <1>1, <2>1
  <2> QED
    BY <1>1, <2>2
<1>12. best(M)
  BY <1>10, <1>11
<1>13. PICK g : g = f[M].ans
  OBVIOUS
<1>14. \A h \in S : Len(m[g]) < Len(m[h]) \/ (Len(m[g]) = Len(m[h]) /\ g <= h)
  BY <1>1, <1>12, <1>13
<1> QED
  BY <1>6, <1>12, <1>13, <1>14 DEF Fewest

\* getGidWithMaxShards likewise.
LEMMA MaxShards ==
    ASSUME NEW S, S \subseteq Nat, S # {}, IsFiniteSet(S), NEW m, \A g \in S : Len(m[g]) \in Nat,
           NEW order \in Walks(S)
    PROVE  Most(m, S, getGidWithMaxShards(m, order))
<1> DEFINE M == Len(order)
           A == [ma : Int, ans : Int]
           start0 == [ma |-> -1, ans |-> 0]
           step(n, a) == IF \/ Len(m[order[n]]) > a.ma
                            \/ Len(m[order[n]]) = a.ma /\ order[n] < a.ans
                         THEN [ma |-> Len(m[order[n]]), ans |-> order[n]] ELSE a
           P(f) == f = [n \in 0 .. M |-> IF n = 0 THEN start0 ELSE step(n, f[n - 1])]
<1>1. /\ order \in Seq(S) /\ M = Cardinality(S) /\ M \in Nat
      /\ \A g \in S : \E n \in 1 .. M : order[n] = g
  BY WalkMeetsAll
<1>2. \A n \in 1 .. M : order[n] \in S /\ order[n] \in Nat /\ Len(m[order[n]]) \in Nat
  <2>1. \A n \in 1 .. M : order[n] \in S
    BY <1>1
  <2> QED
    BY <2>1
<1>3. start0 \in A /\ \A n \in 1 .. M, a \in A : step(n, a) \in A
  BY <1>2
<1>4. getGidWithMaxShards(m, order) = (CHOOSE f : P(f))[M].ans
  BY Zenon DEF getGidWithMaxShards
<1> HIDE DEF A, step, start0, M
<1>5. \E f : P(f)
  <2> DEFINE F == [n \in 1 .. M |-> [a \in A |-> step(n, a)]]
  <2>1. F \in [1 .. M -> [A -> A]] /\ \A n \in 1 .. M, a \in A : F[n][a] = step(n, a)
    BY <1>3
  <2> HIDE DEF F
  <2>2. PICK f \in [0 .. M -> A] : values(f, M, start0, F)
    BY <1>1, <1>3, <2>1, Loop, Zenon
  <2>3. ASSUME NEW n \in 1 .. M PROVE f[n] = step(n, f[n - 1])
    <3>1. f[n - 1] \in A
      BY <1>1
    <3>2. f[n] = F[n][f[n - 1]]
      BY <2>2 DEF values
    <3> QED
      BY <2>1, <3>1, <3>2
  <2>4. P(f)
    BY <1>1, <2>2, <2>3 DEF values
  <2> HIDE DEF P
  <2> QED
    BY <2>4
<1>6. PICK f : P(f) /\ getGidWithMaxShards(m, order) = f[M].ans
  <2> HIDE DEF P
  <2> QED
    BY <1>4, <1>5, Zenon
<1>7. f[0] = start0 /\ \A n \in 1 .. M : f[n] = step(n, f[n - 1])
  BY <1>1, <1>6
<1> DEFINE best(n) == /\ f[n] \in A
                      /\ f[n].ans \in S /\ f[n].ma = Len(m[f[n].ans])
                      /\ \A k \in 1 .. n : \/ f[n].ma > Len(m[order[k]])
                                           \/ f[n].ma = Len(m[order[k]]) /\ f[n].ans <= order[k]
           Good == {n \in 0 .. M : n > 0 => best(n)}
<1>8. 0 \in Good
  BY <1>1
<1>9. ASSUME NEW n \in 1 .. M, n - 1 \in Good PROVE n \in Good
  <2>1. f[n] = step(n, f[n - 1]) /\ order[n] \in S /\ order[n] \in Nat /\ Len(m[order[n]]) \in Nat
    BY <1>2, <1>7
  <2>2. CASE n = 1
    <3>1. f[n] = [ma |-> Len(m[order[n]]), ans |-> order[n]]
      BY <1>7, <2>1, <2>2 DEF step, start0
    <3> QED
      BY <2>1, <2>2, <3>1 DEF A
  <2>3. CASE n # 1
    <3>1. n - 1 \in 1 .. M /\ best(n - 1)
      BY <1>9, <2>3
    <3>2. PICK a : a = f[n - 1]
      OBVIOUS
    <3>3. /\ a \in A /\ a.ans \in S /\ a.ans \in Nat /\ a.ma = Len(m[a.ans]) /\ a.ma \in Nat
          /\ \A k \in 1 .. n - 1 : \/ a.ma > Len(m[order[k]])
                                   \/ a.ma = Len(m[order[k]]) /\ a.ans <= order[k]
      BY <3>1, <3>2
    <3>4. \A k \in 1 .. n : k = n \/ k \in 1 .. n - 1
      BY <1>1
    <3>5. CASE Len(m[order[n]]) > a.ma \/ (Len(m[order[n]]) = a.ma /\ order[n] < a.ans)
      <4>1. f[n] = [ma |-> Len(m[order[n]]), ans |-> order[n]]
        BY <2>1, <3>2, <3>5 DEF step
      <4>2. f[n] \in A /\ f[n].ans = order[n] /\ f[n].ma = Len(m[order[n]])
        BY <2>1, <4>1 DEF A
      <4>3. ASSUME NEW k \in 1 .. n
            PROVE  \/ Len(m[order[n]]) > Len(m[order[k]])
                   \/ Len(m[order[n]]) = Len(m[order[k]]) /\ order[n] <= order[k]
        <5>1. order[k] \in Nat /\ Len(m[order[k]]) \in Nat
          BY <1>1, <1>2
        <5>2. CASE k = n
          BY <2>1, <5>2
        <5>3. CASE k \in 1 .. n - 1
          BY <2>1, <3>3, <3>5, <5>1, <5>3
        <5> QED
          BY <3>4, <5>2, <5>3
      <4> QED
        BY <2>1, <4>2, <4>3
    <3>6. CASE ~ (Len(m[order[n]]) > a.ma \/ (Len(m[order[n]]) = a.ma /\ order[n] < a.ans))
      <4>1. f[n] = a
        BY <2>1, <3>2, <3>3, <3>6 DEF step
      <4>2. \A k \in 1 .. n : \/ a.ma > Len(m[order[k]])
                              \/ a.ma = Len(m[order[k]]) /\ a.ans <= order[k]
        BY <2>1, <3>3, <3>4, <3>6
      <4> QED
        BY <3>3, <4>1, <4>2
    <3> QED
      BY <3>5, <3>6
  <2> QED
    BY <2>2, <2>3
<1>10. M \in Good
  <2> HIDE DEF Good
  <2>1. \A n \in 0 .. M : n \in Good
    BY <1>1, <1>8, <1>9, UpTo
  <2> QED
    BY <1>1, <2>1
<1>11. M > 0
  <2>1. PICK g \in S : TRUE
    OBVIOUS
  <2>2. PICK n \in 1 .. M : order[n] = g
    BY <1>1, <2>1
  <2> QED
    BY <1>1, <2>2
<1>12. best(M)
  BY <1>10, <1>11
<1>13. PICK g : g = f[M].ans
  OBVIOUS
<1>14. \A h \in S : Len(m[g]) > Len(m[h]) \/ (Len(m[g]) = Len(m[h]) /\ g <= h)
  BY <1>1, <1>12, <1>13
<1> QED
  BY <1>6, <1>12, <1>13, <1>14 DEF Most

\* getNext finds the least group, in whatever order it walks.
LEMMA NextGroup ==
    ASSUME NEW S, S \subseteq Nat, S # {}, IsFiniteSet(S), NEW m, NEW order \in Walks(S)
    PROVE  getNext(m, order) \in S /\ \A h \in S : getNext(m, order) <= h
<1> DEFINE M == Len(order)
           step(n, a) == IF a = -1 \/ order[n] < a THEN order[n] ELSE a
           P(f) == f = [n \in 0 .. M |-> IF n = 0 THEN -1 ELSE step(n, f[n - 1])]
<1>1. /\ order \in Seq(S) /\ M = Cardinality(S) /\ M \in Nat
      /\ \A g \in S : \E n \in 1 .. M : order[n] = g
  BY WalkMeetsAll
<1>2. \A n \in 1 .. M : order[n] \in S /\ order[n] \in Nat
  <2>1. \A n \in 1 .. M : order[n] \in S
    BY <1>1
  <2> QED
    BY <2>1
<1>3. -1 \in Int /\ \A n \in 1 .. M, a \in Int : step(n, a) \in Int
  BY <1>2
<1>4. getNext(m, order) = (CHOOSE f : P(f))[M]
  BY Zenon DEF getNext
<1> HIDE DEF step, M
<1>5. \E f : P(f)
  <2> DEFINE F == [n \in 1 .. M |-> [a \in Int |-> step(n, a)]]
  <2>1. F \in [1 .. M -> [Int -> Int]] /\ \A n \in 1 .. M, a \in Int : F[n][a] = step(n, a)
    BY <1>3
  <2> HIDE DEF F
  <2>2. PICK f \in [0 .. M -> Int] : values(f, M, -1, F)
    BY <1>1, <1>3, <2>1, Loop, Zenon
  <2>3. ASSUME NEW n \in 1 .. M PROVE f[n] = step(n, f[n - 1])
    <3>1. f[n - 1] \in Int
      BY <1>1
    <3>2. f[n] = F[n][f[n - 1]]
      BY <2>2 DEF values
    <3> QED
      BY <2>1, <3>1, <3>2
  <2>4. P(f)
    BY <1>1, <2>2, <2>3 DEF values
  <2> HIDE DEF P
  <2> QED
    BY <2>4
<1>6. PICK f : P(f) /\ getNext(m, order) = f[M]
  <2> HIDE DEF P
  <2> QED
    BY <1>4, <1>5, Zenon
<1>7. f[0] = -1 /\ \A n \in 1 .. M : f[n] = step(n, f[n - 1])
  BY <1>1, <1>6
<1> DEFINE Good == {n \in 0 .. M : n > 0 => f[n] \in S /\ \A k \in 1 .. n : f[n] <= order[k]}
<1>8. 0 \in Good
  BY <1>1
<1>9. ASSUME NEW n \in 1 .. M, n - 1 \in Good PROVE n \in Good
  <2>1. f[n] = step(n, f[n - 1]) /\ order[n] \in S /\ order[n] \in Nat
    BY <1>2, <1>7
  <2>2. CASE n = 1
    BY <1>7, <2>1, <2>2 DEF step
  <2>3. CASE n # 1
    <3>0. n - 1 > 0
      BY <1>1, <2>3
    <3>1. f[n - 1] \in S /\ f[n - 1] \in Nat /\ \A k \in 1 .. n - 1 : f[n - 1] <= order[k]
      <4>1. f[n - 1] \in S /\ \A k \in 1 .. n - 1 : f[n - 1] <= order[k]
        BY <1>9, <3>0
      <4> QED
        BY <4>1
    <3>2. \A k \in 1 .. n : order[k] \in Nat /\ (k = n \/ k \in 1 .. n - 1)
      BY <1>1, <1>2
    <3>3. CASE order[n] < f[n - 1]
      <4>1. f[n] = order[n]
        BY <2>1, <3>3 DEF step
      <4> QED
        BY <2>1, <3>1, <3>2, <3>3, <4>1
    <3>4. CASE ~ (order[n] < f[n - 1])
      <4>1. f[n] = f[n - 1]
        BY <2>1, <3>1, <3>4 DEF step
      <4> QED
        BY <2>1, <3>1, <3>2, <3>4, <4>1
    <3> QED
      BY <3>3, <3>4
  <2> QED
    BY <2>2, <2>3
<1>10. M \in Good
  <2> HIDE DEF Good
  <2>1. \A n \in 0 .. M : n \in Good
    BY <1>1, <1>8, <1>9, UpTo
  <2> QED
    BY <1>1, <2>1
<1>11. M > 0
  <2>1. PICK g \in S : TRUE
    OBVIOUS
  <2>2. PICK n \in 1 .. M : order[n] = g
    BY <1>1, <2>1
  <2> QED
    BY <1>1, <2>2
<1>12. f[M] \in S /\ \A k \in 1 .. M : f[M] <= order[k]
  BY <1>10, <1>11
<1>13. \A h \in S : f[M] <= h
  BY <1>1, <1>12
<1> QED
  BY <1>6, <1>12, <1>13

\* Shard x is on list l.
on(x, l) == \E i \in 1 .. Len(l) : l[i] = x

once(l) == \A i, j \in 1 .. Len(l) : l[i] = l[j] => i = j

\* m has the shards of each group of D, as shards assigns them.
Lists(m, shards, D) ==
    /\ m \in [D -> Seq(Shard)]
    /\ shards \in [Shard -> D]
    /\ \A g \in D : once(m[g]) /\ \A x \in Shard : on(x, m[g]) <=> shards[x] = g

\* One more shard at the end of a list.
LEMMA OneMore ==
    ASSUME NEW l \in Seq(Shard), NEW x \in Shard
    PROVE  /\ Append(l, x) \in Seq(Shard) /\ Len(Append(l, x)) = Len(l) + 1
           /\ \A y \in Shard : on(y, Append(l, x)) <=> y = x \/ on(y, l)
           /\ once(l) /\ ~ on(x, l) => once(Append(l, x))
<1>1. /\ Append(l, x) \in Seq(Shard) /\ Len(Append(l, x)) = Len(l) + 1 /\ Len(l) \in Nat
      /\ \A i \in 1 .. Len(l) : Append(l, x)[i] = l[i]
      /\ Append(l, x)[Len(l) + 1] = x
  BY AppendSeq
<1>2. \A i \in 1 .. Len(l) + 1 : i = Len(l) + 1 \/ i \in 1 .. Len(l)
  BY <1>1
<1>3. ASSUME NEW y \in Shard PROVE on(y, Append(l, x)) <=> y = x \/ on(y, l)
  <2>1. CASE y = x
    <3>1. Len(l) + 1 \in 1 .. Len(Append(l, x))
      BY <1>1
    <3> QED
      BY <1>1, <2>1, <3>1 DEF on
  <2>2. CASE y # x
    <3>1. ASSUME on(y, Append(l, x)) PROVE on(y, l)
      BY <1>1, <1>2, <2>2, <3>1 DEF on
    <3>2. ASSUME on(y, l) PROVE on(y, Append(l, x))
      <4>1. PICK i \in 1 .. Len(l) : l[i] = y
        BY <3>2 DEF on
      <4>2. i \in 1 .. Len(Append(l, x)) /\ Append(l, x)[i] = y
        BY <1>1, <4>1
      <4> QED
        BY <4>2 DEF on
    <3> QED
      BY <2>2, <3>1, <3>2
  <2> QED
    BY <2>1, <2>2
<1>4. ASSUME once(l), ~ on(x, l) PROVE once(Append(l, x))
  BY <1>1, <1>2, <1>4 DEF once, on
<1> QED
  BY <1>1, <1>3, <1>4

\* getShardsMap lists the shards of every group that has one.
LEMMA ShardsMap ==
    ASSUME NEW shards \in [Shard -> Nat]
    PROVE  Lists(getShardsMap(shards), shards, Range(shards))
<1> DEFINE D == Range(shards)
           A == [D -> Seq(Shard)]
           start0 == [gid \in D |-> <<>>]
           step(n, m) == [m EXCEPT ![shards[n - 1]] = Append(@, n - 1)]
           P(f) == f = [n \in 0 .. NShards |-> IF n = 0 THEN start0 ELSE step(n, f[n - 1])]
<1>1. NShards \in Nat /\ \A n \in 1 .. NShards : n - 1 \in Shard
  BY NShardsAssumption DEF Shard
<1>2. \A x \in Shard : shards[x] \in D
  BY DEF Range
<1>3. start0 \in A
  OBVIOUS
<1>4. ASSUME NEW n \in 1 .. NShards, NEW m \in A
      PROVE  /\ step(n, m) \in A
             /\ step(n, m)[shards[n - 1]] = Append(m[shards[n - 1]], n - 1)
             /\ \A g \in D : g # shards[n - 1] => step(n, m)[g] = m[g]
  <2>1. shards[n - 1] \in D /\ n - 1 \in Shard /\ m[shards[n - 1]] \in Seq(Shard)
    BY <1>1, <1>2
  <2>2. Append(m[shards[n - 1]], n - 1) \in Seq(Shard)
    BY <2>1
  <2> QED
    BY <2>1, <2>2
<1>5. getShardsMap(shards) = (CHOOSE f : P(f))[NShards]
  BY Zenon DEF getShardsMap
<1> HIDE DEF step, start0, A, D
<1>6. \E f : P(f)
  <2> DEFINE F == [n \in 1 .. NShards |-> [m \in A |-> step(n, m)]]
  <2>1. F \in [1 .. NShards -> [A -> A]] /\ \A n \in 1 .. NShards, m \in A : F[n][m] = step(n, m)
    BY <1>4
  <2> HIDE DEF F
  <2>2. PICK f \in [0 .. NShards -> A] : values(f, NShards, start0, F)
    BY <1>1, <1>3, <2>1, Loop, Zenon
  <2>3. ASSUME NEW n \in 1 .. NShards PROVE f[n] = step(n, f[n - 1])
    <3>1. f[n - 1] \in A
      BY <1>1
    <3>2. f[n] = F[n][f[n - 1]]
      BY <2>2 DEF values
    <3> QED
      BY <2>1, <3>1, <3>2
  <2>4. P(f)
    BY <1>1, <2>2, <2>3 DEF values
  <2> HIDE DEF P
  <2> QED
    BY <2>4
<1>7. PICK f : P(f) /\ getShardsMap(shards) = f[NShards]
  <2> HIDE DEF P
  <2> QED
    BY <1>5, <1>6, Zenon
<1>8. f[0] = start0 /\ \A n \in 1 .. NShards : f[n] = step(n, f[n - 1])
  BY <1>1, <1>7
<1> DEFINE part(n) == /\ f[n] \in A
                      /\ \A g \in D : /\ once(f[n][g])
                                      /\ \A x \in Shard : on(x, f[n][g]) <=> shards[x] = g /\ x < n
           Good == {n \in 0 .. NShards : part(n)}
<1>9. 0 \in Good
  <2>1. \A g \in D : f[0][g] = <<>>
    BY <1>8 DEF start0
  <2>2. once(<<>>) /\ \A x \in Shard : ~ on(x, <<>>) /\ ~ (x < 0)
    BY <1>1 DEF once, on, Shard
  <2> QED
    BY <1>1, <1>3, <1>8, <2>1, <2>2
<1>10. ASSUME NEW n \in 1 .. NShards, n - 1 \in Good PROVE n \in Good
  <2>1. PICK m : m = f[n - 1]
    OBVIOUS
  <2>2. /\ m \in A
        /\ \A g \in D : /\ once(m[g])
                        /\ \A x \in Shard : on(x, m[g]) <=> shards[x] = g /\ x < n - 1
    BY <1>10, <2>1
  <2>3. f[n] \in A
    BY <1>4, <1>8, <2>1, <2>2
  <2>4. \A x \in Shard : x \in Nat /\ (x < n <=> x < n - 1 \/ x = n - 1)
    BY <1>1 DEF Shard
  <2>5. ASSUME NEW g \in D
        PROVE  once(f[n][g]) /\ \A x \in Shard : on(x, f[n][g]) <=> shards[x] = g /\ x < n
    <3>1. CASE g # shards[n - 1]
      <4>1. f[n][g] = m[g]
        BY <1>4, <1>8, <2>1, <2>2, <3>1
      <4> QED
        BY <2>2, <2>4, <3>1, <4>1
    <3>2. CASE g = shards[n - 1]
      <4>1. f[n][g] = Append(m[g], n - 1) /\ n - 1 \in Shard
        BY <1>1, <1>4, <1>8, <2>1, <2>2, <3>2
      <4>2. m[g] \in Seq(Shard) /\ once(m[g])
        BY <2>2 DEF A
      <4>3. ~ on(n - 1, m[g])
        BY <2>2, <4>1
      <4>4. once(f[n][g]) /\ \A x \in Shard : on(x, f[n][g]) <=> x = n - 1 \/ on(x, m[g])
        BY <4>1, <4>2, <4>3, OneMore
      <4> QED
        BY <2>2, <2>4, <3>2, <4>4
    <3> QED
      BY <3>1, <3>2
  <2> QED
    BY <2>3, <2>5
<1>11. part(NShards)
  <2> HIDE DEF Good
  <2>1. \A n \in 0 .. NShards : n \in Good
    BY <1>1, <1>9, <1>10, UpTo
  <2>2. NShards \in Good
    BY <1>1, <2>1
  <2> QED
    BY <2>2 DEF Good
<1>12. \A x \in Shard : x < NShards
  BY <1>1 DEF Shard
<1>13. shards \in [Shard -> D]
  BY <1>2
<1> QED
  BY <1>7, <1>11, <1>12, <1>13 DEF Lists, A, D

\* The first shard of a list is taken away.
LEMMA OneLess ==
    ASSUME NEW l \in Seq(Shard), l # <<>>, once(l)
    PROVE  /\ Head(l) \in Shard /\ on(Head(l), l)
           /\ Tail(l) \in Seq(Shard) /\ Len(Tail(l)) = Len(l) - 1 /\ once(Tail(l))
           /\ \A y \in Shard : on(y, Tail(l)) <=> on(y, l) /\ y # Head(l)
<1>1. /\ Head(l) \in Shard /\ Tail(l) \in Seq(Shard) /\ Len(Tail(l)) = Len(l) - 1
      /\ \A i \in 1 .. Len(Tail(l)) : Tail(l)[i] = l[i + 1]
  BY TailSeq
<1>2. Len(l) \in Nat \ {0} /\ Head(l) = l[1]
  OBVIOUS
<1>3. on(Head(l), l)
  <2>1. 1 \in 1 .. Len(l)
    BY <1>2
  <2> QED
    BY <1>2, <2>1 DEF on
<1>4. \A i \in 1 .. Len(Tail(l)) : i + 1 \in 1 .. Len(l) /\ i + 1 # 1
  BY <1>1, <1>2
<1>5. once(Tail(l))
  <2> SUFFICES ASSUME NEW i \in 1 .. Len(Tail(l)), NEW j \in 1 .. Len(Tail(l)),
                      Tail(l)[i] = Tail(l)[j]
               PROVE  i = j
    BY DEF once
  <2>1. l[i + 1] = l[j + 1] /\ i + 1 \in 1 .. Len(l) /\ j + 1 \in 1 .. Len(l)
    BY <1>1, <1>4
  <2>2. i + 1 = j + 1
    BY <2>1 DEF once
  <2> QED
    BY <1>1, <1>2, <2>2
<1>6. ASSUME NEW y \in Shard PROVE on(y, Tail(l)) <=> on(y, l) /\ y # Head(l)
  <2>1. ASSUME on(y, Tail(l)) PROVE on(y, l) /\ y # Head(l)
    <3>1. PICK i \in 1 .. Len(Tail(l)) : Tail(l)[i] = y
      BY <2>1 DEF on
    <3>2. l[i + 1] = y /\ i + 1 \in 1 .. Len(l) /\ i + 1 # 1 /\ 1 \in 1 .. Len(l)
      BY <1>1, <1>2, <1>4, <3>1
    <3>3. y # l[1]
      BY <3>2 DEF once
    <3> QED
      BY <1>2, <3>2, <3>3 DEF on
  <2>2. ASSUME on(y, l), y # Head(l) PROVE on(y, Tail(l))
    <3>1. PICK i \in 1 .. Len(l) : l[i] = y
      BY <2>2 DEF on
    <3>2. i # 1
      BY <1>2, <2>2, <3>1
    <3>3. i - 1 \in 1 .. Len(Tail(l)) /\ (i - 1) + 1 = i
      BY <1>1, <1>2, <3>2
    <3>4. Tail(l)[i - 1] = y
      BY <1>1, <3>1, <3>3
    <3> QED
      BY <3>3, <3>4 DEF on
  <2> QED
    BY <2>1, <2>2
<1> QED
  BY <1>1, <1>3, <1>5, <1>6

\* Two lists in one.
LEMMA BothLists ==
    ASSUME NEW l \in Seq(Shard), NEW k \in Seq(Shard), once(l), once(k),
           \A y \in Shard : ~ (on(y, l) /\ on(y, k))
    PROVE  /\ l \o k \in Seq(Shard) /\ once(l \o k)
           /\ \A y \in Shard : on(y, l \o k) <=> on(y, l) \/ on(y, k)
<1>1. /\ l \o k \in Seq(Shard) /\ Len(l \o k) = Len(l) + Len(k)
      /\ Len(l) \in Nat /\ Len(k) \in Nat
      /\ \A i \in 1 .. Len(l) + Len(k) : (l \o k)[i] =
            IF i <= Len(l) THEN l[i] ELSE k[i - Len(l)]
  BY ConcatSeq
<1>2. PICK c : c = l \o k
  OBVIOUS
<1>3. \A i \in 1 .. Len(l) : i \in 1 .. Len(c) /\ c[i] = l[i]
  BY <1>1, <1>2
<1>4. \A i \in 1 .. Len(k) : i + Len(l) \in 1 .. Len(c) /\ c[i + Len(l)] = k[i]
  <2> SUFFICES ASSUME NEW i \in 1 .. Len(k)
               PROVE  i + Len(l) \in 1 .. Len(c) /\ c[i + Len(l)] = k[i]
    OBVIOUS
  <2>1. i + Len(l) \in 1 .. Len(l) + Len(k) /\ ~ (i + Len(l) <= Len(l)) /\ (i + Len(l)) - Len(l) = i
    BY <1>1
  <2> QED
    BY <1>1, <1>2, <2>1
<1>5. ASSUME NEW i \in 1 .. Len(c)
      PROVE  \/ i \in 1 .. Len(l) /\ c[i] = l[i]
             \/ i - Len(l) \in 1 .. Len(k) /\ c[i] = k[i - Len(l)]
  BY <1>1, <1>2
<1>6. \A y \in Shard : on(y, c) <=> on(y, l) \/ on(y, k)
  BY <1>3, <1>4, <1>5 DEF on
<1>7. \A i \in 1 .. Len(l) : l[i] \in Shard
  OBVIOUS
<1>8. \A i \in 1 .. Len(k) : k[i] \in Shard
  OBVIOUS
<1>9. \A i \in 1 .. Len(l), j \in 1 .. Len(k) : l[i] # k[j]
  BY <1>7, <1>8 DEF on
<1>10. once(c)
  <2> SUFFICES ASSUME NEW i \in 1 .. Len(c), NEW j \in 1 .. Len(c), c[i] = c[j]
               PROVE  i = j
    BY DEF once
  <2>1. CASE i \in 1 .. Len(l) /\ j \in 1 .. Len(l)
    BY <1>3, <2>1 DEF once
  <2>2. CASE i - Len(l) \in 1 .. Len(k) /\ j - Len(l) \in 1 .. Len(k)
    <3>1. ~ (i \in 1 .. Len(l)) /\ ~ (j \in 1 .. Len(l))
      BY <1>1, <2>2
    <3>2. k[i - Len(l)] = k[j - Len(l)]
      BY <1>5, <3>1
    <3>3. i - Len(l) = j - Len(l)
      BY <2>2, <3>2 DEF once
    <3> QED
      BY <1>1, <1>2, <3>3
  <2>3. CASE \/ i \in 1 .. Len(l) /\ ~ (j \in 1 .. Len(l))
             \/ j \in 1 .. Len(l) /\ ~ (i \in 1 .. Len(l))
    BY <1>3, <1>5, <1>9, <2>3
  <2> QED
    BY <1>5, <2>1, <2>2, <2>3
<1> QED
  BY <1>1, <1>2, <1>6, <1>10

\* A list is as long as its group has shards.
LEMMA ListLength ==
    ASSUME NEW D, NEW m, NEW shards, Lists(m, shards, D), NEW g \in D
    PROVE  /\ m[g] \in Seq(Shard) /\ Len(m[g]) \in Nat
           /\ Cardinality({x \in Shard : shards[x] = g}) = Len(m[g])
<1> DEFINE T == {x \in Shard : shards[x] = g}
<1>1. m[g] \in Seq(Shard) /\ once(m[g]) /\ \A x \in Shard : on(x, m[g]) <=> shards[x] = g
  BY DEF Lists
<1>2. Len(m[g]) \in Nat /\ m[g] \in [1 .. Len(m[g]) -> Shard]
  BY <1>1
<1>3. \A i \in 1 .. Len(m[g]) : m[g][i] \in T
  BY <1>1, <1>2 DEF on
<1>4. m[g] \in [1 .. Len(m[g]) -> T]
  BY <1>2, <1>3
<1>5. m[g] \in Injection(1 .. Len(m[g]), T)
  BY <1>1, <1>4 DEF Injection, IsInjective, once
<1>6. m[g] \in Surjection(1 .. Len(m[g]), T)
  BY <1>1, <1>4 DEF Surjection, on
<1>7. ExistsBijection(1 .. Len(m[g]), T)
  BY <1>5, <1>6 DEF ExistsBijection, Bijection
<1>8. IsFiniteSet(1 .. Len(m[g])) /\ Cardinality(1 .. Len(m[g])) = Len(m[g])
  <2>1. PICK n \in Nat : n = Len(m[g])
    BY <1>2
  <2>2. IsFiniteSet(1 .. n) /\ Cardinality(1 .. n) = n
    BY FS_Interval
  <2> QED
    BY <2>1, <2>2
<1> HIDE DEF T
<1>9. Cardinality(T) = Len(m[g])
  BY <1>7, <1>8, FS_Bijection
<1> QED
  BY <1>1, <1>2, <1>9 DEF T

\* There are walks.
LEMMA SomeWalk ==
    ASSUME NEW S, IsFiniteSet(S)
    PROVE  Walks(S) # {}
  BY FS_CardinalityType DEF Walks, ExistsBijection

\* What balance works on: the lists of the groups of D, none of the shards in group 0.
Table(D) ==
    {b \in [m : [D -> Seq(Shard)], shards : [Shard -> D], done : BOOLEAN] :
        Lists(b.m, b.shards, D) /\ \A x \in Shard : b.shards[x] # 0}

Gids(D) == D \subseteq Nat /\ IsFiniteSet(D) /\ D \ {0} # {}

\* balance begins with one table, in which the groups have the shards they had if none was
\* in group 0.
LEMMA Adopt ==
    ASSUME NEW D, Gids(D), NEW m, NEW shards, Lists(m, shards, D)
    PROVE  \E b \in Table(D) : /\ adoptZero(m, shards) = {b} /\ ~ b.done
                               /\ (\A x \in Shard : shards[x] # 0) => b.shards = shards
<1> DEFINE S == D \ {0}
           after(gid) ==
               IF 0 \in DOMAIN m
               THEN [m |-> [m EXCEPT ![gid] = m[gid] \o m[0], ![0] = <<>>],
                     shards |-> [s \in Shard |-> IF shards[s] = 0 THEN gid ELSE shards[s]],
                     done |-> FALSE]
               ELSE [m |-> m, shards |-> shards, done |-> FALSE]
<1>1. S \subseteq Nat /\ S # {} /\ IsFiniteSet(S)
  BY FS_Subset DEF Gids
<1>2. DOMAIN m = D /\ m \in [D -> Seq(Shard)] /\ shards \in [Shard -> D]
  BY DEF Lists
<1>3. PICK gid \in S : {getNext(m, o) : o \in walks(m)} = {gid}
  <2>1. walks(m) = Walks(S)
    BY <1>2 DEF walks, Walks
  <2>2. PICK w \in Walks(S) : TRUE
    BY <1>1, SomeWalk
  <2>3. \A o \in Walks(S) : getNext(m, o) \in S /\ \A h \in S : getNext(m, o) <= h
    BY <1>1, NextGroup
  <2>4. \A o \in Walks(S) : getNext(m, o) = getNext(m, w)
    BY <1>1, <2>3
  <2> QED
    BY <2>1, <2>2, <2>3, <2>4
<1>4. adoptZero(m, shards) = {after(gid)}
  BY <1>3 DEF adoptZero
<1>5. CASE 0 \notin D
  <2>1. after(gid) = [m |-> m, shards |-> shards, done |-> FALSE]
    BY <1>2, <1>5
  <2>2. \A x \in Shard : shards[x] # 0
    BY <1>2, <1>5
  <2>3. after(gid) \in Table(D) /\ ~ after(gid).done /\ after(gid).shards = shards
    BY <1>2, <2>1, <2>2 DEF Table
  <2> QED
    BY <1>4, <2>3
<1>6. CASE 0 \in D
  <2> DEFINE n == [m EXCEPT ![gid] = m[gid] \o m[0], ![0] = <<>>]
             sh == [s \in Shard |-> IF shards[s] = 0 THEN gid ELSE shards[s]]
  <2>1. after(gid) = [m |-> n, shards |-> sh, done |-> FALSE]
    BY <1>2, <1>6
  <2>2. gid \in D /\ gid # 0
    OBVIOUS
  <2>3. /\ m[gid] \in Seq(Shard) /\ once(m[gid]) /\ m[0] \in Seq(Shard) /\ once(m[0])
        /\ \A y \in Shard : /\ on(y, m[gid]) <=> shards[y] = gid
                            /\ on(y, m[0]) <=> shards[y] = 0
    BY <1>6, <2>2 DEF Lists
  <2>4. /\ m[gid] \o m[0] \in Seq(Shard) /\ once(m[gid] \o m[0])
        /\ \A y \in Shard : on(y, m[gid] \o m[0]) <=> shards[y] = gid \/ shards[y] = 0
    BY <2>2, <2>3, BothLists
  <2>5. n[gid] = m[gid] \o m[0] /\ n[0] = <<>> /\ \A g \in D : g # gid /\ g # 0 => n[g] = m[g]
    BY <1>2, <1>6, <2>2
  <2>6. <<>> \in Seq(Shard) /\ once(<<>>) /\ \A y \in Shard : ~ on(y, <<>>)
    BY DEF once, on
  <2>7. n \in [D -> Seq(Shard)]
    BY <1>2, <2>4, <2>6
  <2>8. /\ sh \in [Shard -> D]
        /\ \A x \in Shard : sh[x] = IF shards[x] = 0 THEN gid ELSE shards[x]
    BY <1>2, <2>2
  <2> HIDE DEF n, sh
  <2>9. ASSUME NEW g \in D PROVE once(n[g]) /\ \A x \in Shard : on(x, n[g]) <=> sh[x] = g
    <3>1. CASE g = gid
      BY <2>2, <2>4, <2>5, <2>8, <3>1
    <3>2. CASE g = 0
      BY <2>2, <2>5, <2>6, <2>8, <3>2
    <3>3. CASE g # gid /\ g # 0
      <4>1. n[g] = m[g] /\ once(m[g]) /\ \A x \in Shard : on(x, m[g]) <=> shards[x] = g
        BY <2>5, <3>3 DEF Lists
      <4> QED
        BY <2>8, <3>3, <4>1
    <3> QED
      BY <3>1, <3>2, <3>3
  <2>10. Lists(n, sh, D)
    BY <2>7, <2>8, <2>9 DEF Lists
  <2>11. \A x \in Shard : sh[x] # 0
    BY <2>2, <2>8
  <2>12. (\A x \in Shard : shards[x] # 0) => sh = shards
    BY <1>2, <2>8
  <2>13. after(gid) \in Table(D)
    BY <2>1, <2>7, <2>8, <2>10, <2>11 DEF Table
  <2> QED
    BY <1>4, <2>1, <2>12, <2>13
<1> QED
  BY <1>5, <1>6

\* The first shard of group max goes to group min.
moved(b, min, max) ==
    LET shard == Head(b.m[max])
        grown == [b.m EXCEPT ![min] = Append(b.m[min], shard)]
    IN  [m |-> [grown EXCEPT ![max] = Tail(grown[max])],
         shards |-> [b.shards EXCEPT ![shard] = min], done |-> FALSE]

\* A round makes one table of a table, in whatever order it walks.
LEMMA Round ==
    ASSUME NEW D, Gids(D), NEW b \in Table(D)
    PROVE  \E min, max \in D \ {0} :
              /\ Fewest(b.m, D \ {0}, min) /\ Most(b.m, D \ {0}, max)
              /\ round(b) = {IF b.done THEN b
                             ELSE IF even(b.m, min, max) THEN [b EXCEPT !.done = TRUE]
                             ELSE moved(b, min, max)}
<1> DEFINE S == D \ {0}
<1>1. S \subseteq Nat /\ S # {} /\ IsFiniteSet(S)
  BY FS_Subset DEF Gids
<1>2. b.m \in [D -> Seq(Shard)] /\ walks(b.m) = Walks(S) /\ \A g \in S : Len(b.m[g]) \in Nat
  <2>1. b.m \in [D -> Seq(Shard)]
    BY DEF Table
  <2>2. DOMAIN b.m = D /\ \A g \in S : b.m[g] \in Seq(Shard)
    BY <2>1
  <2>3. \A g \in S : Len(b.m[g]) \in Nat
    BY <2>2
  <2> QED
    BY <2>1, <2>2, <2>3 DEF walks, Walks
<1>3. PICK w \in Walks(S) : TRUE
  BY <1>1, SomeWalk
<1>4. PICK min \in S : /\ Fewest(b.m, S, min)
                       /\ {getGidWithMinShards(b.m, o) : o \in walks(b.m)} = {min}
  <2>1. \A o \in Walks(S) : Fewest(b.m, S, getGidWithMinShards(b.m, o))
    BY <1>1, <1>2, MinShards
  <2>2. ASSUME NEW g, NEW h, Fewest(b.m, S, g), Fewest(b.m, S, h) PROVE g = h
    BY <1>1, <1>2, <2>2 DEF Fewest
  <2>3. \A o \in Walks(S) : getGidWithMinShards(b.m, o) = getGidWithMinShards(b.m, w)
    BY <2>1, <2>2
  <2>4. getGidWithMinShards(b.m, w) \in S
    BY <2>1 DEF Fewest
  <2> QED
    BY <1>2, <2>1, <2>3, <2>4
<1>5. PICK max \in S : /\ Most(b.m, S, max)
                       /\ {getGidWithMaxShards(b.m, o) : o \in walks(b.m)} = {max}
  <2>1. \A o \in Walks(S) : Most(b.m, S, getGidWithMaxShards(b.m, o))
    BY <1>1, <1>2, MaxShards
  <2>2. ASSUME NEW g, NEW h, Most(b.m, S, g), Most(b.m, S, h) PROVE g = h
    BY <1>1, <1>2, <2>2 DEF Most
  <2>3. \A o \in Walks(S) : getGidWithMaxShards(b.m, o) = getGidWithMaxShards(b.m, w)
    BY <2>1, <2>2
  <2>4. getGidWithMaxShards(b.m, w) \in S
    BY <2>1 DEF Most
  <2> QED
    BY <1>2, <2>1, <2>3, <2>4
<1>6. CASE b.done
  <2>1. round(b) = {b}
    BY <1>6 DEF round
  <2> QED
    BY <1>4, <1>5, <1>6, <2>1
<1>7. CASE ~ b.done
  <2> DEFINE outcome(x, y) == IF even(b.m, x, y) THEN [b EXCEPT !.done = TRUE] ELSE moved(b, x, y)
  <2>1. round(b) = {outcome(x, y) : x \in {getGidWithMinShards(b.m, o) : o \in walks(b.m)},
                                 y \in {getGidWithMaxShards(b.m, o) : o \in walks(b.m)}}
    BY <1>7 DEF round, moved
  <2> HIDE DEF outcome
  <2>2. round(b) = {outcome(min, max)}
    BY <1>4, <1>5, <2>1
  <2> QED
    BY <1>4, <1>5, <1>7, <2>2 DEF outcome
<1> QED
  BY <1>6, <1>7

\* Table c is table b after a shard has gone from group max to group min.
Moves(b, c, min, max, D) ==
    /\ c \in Table(D) /\ ~ c.done
    /\ Len(b.m[max]) >= Len(b.m[min]) + 2
    /\ \E x \in Shard : b.shards[x] = max /\ c.shards = [b.shards EXCEPT ![x] = min]
    /\ \A g \in D : Len(c.m[g]) = IF g = max THEN Len(b.m[g]) - 1
                                  ELSE IF g = min THEN Len(b.m[g]) + 1 ELSE Len(b.m[g])

\* A round that is not the last takes a shard from a group with at least two more than
\* the group it gives it to.
LEMMA Moved ==
    ASSUME NEW D, Gids(D), NEW b \in Table(D), NEW min, NEW max,
           Fewest(b.m, D \ {0}, min), Most(b.m, D \ {0}, max), ~ even(b.m, min, max)
    PROVE  Moves(b, moved(b, min, max), min, max, D)
<1> DEFINE m == b.m
           sh == b.shards
           x == Head(m[max])
           n == [[m EXCEPT ![min] = Append(m[min], x)] EXCEPT
                    ![max] = Tail([m EXCEPT ![min] = Append(m[min], x)][max])]
           s == [sh EXCEPT ![x] = min]
<1>1. /\ m \in [D -> Seq(Shard)] /\ sh \in [Shard -> D] /\ Lists(m, sh, D)
      /\ \A y \in Shard : sh[y] # 0
  BY DEF Table
<1>2. min \in D \ {0} /\ max \in D \ {0} /\ min \in Nat /\ max \in Nat
  BY DEF Fewest, Most, Gids
<1>3. m[min] \in Seq(Shard) /\ m[max] \in Seq(Shard) /\ once(m[min]) /\ once(m[max])
  BY <1>1, <1>2 DEF Lists
<1>4. Len(m[min]) \in Nat /\ Len(m[max]) \in Nat
  BY <1>3
<1>5. Len(m[max]) >= Len(m[min]) + 2 /\ min # max
  <2>1. Len(m[min]) < Len(m[max]) \/ (Len(m[min]) = Len(m[max]) /\ min <= max)
    BY <1>2 DEF Fewest
  <2>2. Len(m[max]) > Len(m[min]) \/ (Len(m[max]) = Len(m[min]) /\ max <= min)
    BY <1>2 DEF Most
  <2>3. Len(m[min]) # Len(m[max]) - 1 /\ min # max
    BY DEF even
  <2> QED
    BY <1>2, <1>4, <2>1, <2>2, <2>3
<1>6. m[max] # <<>>
  BY <1>4, <1>5
<1>7. /\ x \in Shard /\ on(x, m[max]) /\ Tail(m[max]) \in Seq(Shard)
      /\ Len(Tail(m[max])) = Len(m[max]) - 1 /\ once(Tail(m[max]))
      /\ \A y \in Shard : on(y, Tail(m[max])) <=> on(y, m[max]) /\ y # x
  BY <1>3, <1>6, OneLess
<1>8. sh[x] = max
  BY <1>1, <1>2, <1>7 DEF Lists
<1>9. ~ on(x, m[min])
  BY <1>1, <1>2, <1>5, <1>7, <1>8 DEF Lists
<1>10. /\ Append(m[min], x) \in Seq(Shard) /\ Len(Append(m[min], x)) = Len(m[min]) + 1
       /\ \A y \in Shard : on(y, Append(m[min], x)) <=> y = x \/ on(y, m[min])
       /\ once(Append(m[min], x))
  BY <1>3, <1>7, <1>9, OneMore
<1>11. moved(b, min, max) = [m |-> n, shards |-> s, done |-> FALSE]
  BY DEF moved
<1>12. /\ n[min] = Append(m[min], x) /\ n[max] = Tail(m[max])
       /\ \A g \in D : g # min /\ g # max => n[g] = m[g]
  BY <1>1, <1>2, <1>5
<1>13. n \in [D -> Seq(Shard)]
  <2>1. [m EXCEPT ![min] = Append(m[min], x)] \in [D -> Seq(Shard)]
    BY <1>1, <1>2, <1>10
  <2>2. [m EXCEPT ![min] = Append(m[min], x)][max] = m[max]
    BY <1>1, <1>2, <1>5
  <2> QED
    BY <1>2, <1>7, <2>1, <2>2
<1>14. s \in [Shard -> D] /\ s[x] = min /\ \A y \in Shard : y # x => s[y] = sh[y]
  BY <1>1, <1>2, <1>7
<1> HIDE DEF n, s, x
<1>15. ASSUME NEW g \in D PROVE once(n[g]) /\ \A y \in Shard : on(y, n[g]) <=> s[y] = g
  <2>1. \A h \in D : once(m[h]) /\ \A y \in Shard : on(y, m[h]) <=> sh[y] = h
    BY <1>1 DEF Lists
  <2>2. CASE g = min
    <3>1. once(n[min]) /\ \A y \in Shard : on(y, n[min]) <=> y = x \/ sh[y] = min
      BY <1>2, <1>10, <1>12, <2>1
    <3> QED
      BY <1>7, <1>14, <2>2, <3>1
  <2>3. CASE g = max
    <3>1. once(n[max]) /\ \A y \in Shard : on(y, n[max]) <=> y # x /\ sh[y] = max
      BY <1>2, <1>7, <1>12, <2>1
    <3> QED
      BY <1>5, <1>7, <1>14, <2>3, <3>1
  <2>4. CASE g # min /\ g # max
    BY <1>7, <1>8, <1>12, <1>14, <2>1, <2>4
  <2> QED
    BY <2>2, <2>3, <2>4
<1>16. Lists(n, s, D)
  BY <1>13, <1>14, <1>15 DEF Lists
<1>17. \A y \in Shard : s[y] # 0
  BY <1>1, <1>2, <1>14
<1>18. moved(b, min, max) \in Table(D)
  BY <1>11, <1>13, <1>14, <1>16, <1>17 DEF Table
<1>19. \A g \in D : Len(n[g]) = IF g = max THEN Len(m[g]) - 1
                                ELSE IF g = min THEN Len(m[g]) + 1 ELSE Len(m[g])
  BY <1>5, <1>7, <1>10, <1>12
<1>20. /\ moved(b, min, max).m = n /\ moved(b, min, max).shards = s
       /\ ~ moved(b, min, max).done
  BY <1>11
<1> QED
  BY <1>5, <1>7, <1>8, <1>18, <1>19, <1>20 DEF s, Moves

-----------------------------------------------------------------------------
(* The loop                                                                *)

\* The sizes of the groups of S are within one of each other.
Within(m, S) == \A g, h \in S : Len(m[g]) <= Len(m[h]) + 1

\* None of the shards of R is in a group that would still give a shard away.
Settled(b, R, S) ==
    \A x \in R : \A h \in S : Len(b.m[b.shards[x]]) <= Len(b.m[h]) + 1

\* No group is more than one ahead of those of O.
Ahead(m, O, S) == \A g \in O : \A h \in S : Len(m[h]) <= Len(m[g]) + 1

\* Between tables b and c the groups that none is more than one ahead of get no shard.
Spares(b, c, S) ==
    \A O \in SUBSET S : Ahead(b.m, O, S) =>
        /\ Ahead(c.m, O, S)
        /\ \A x \in Shard : c.shards[x] = b.shards[x] \/ c.shards[x] \notin O

\* After n rounds either the loop has stopped, with the groups within one of each other,
\* or n shards have been moved for good.
Rounds(n, b, S) ==
    IF b.done THEN Within(b.m, S)
    ELSE \E R \in SUBSET Shard : Cardinality(R) = n /\ Settled(b, R, S)

\* A round keeps that.
LEMMA RoundSettles ==
    ASSUME NEW D, Gids(D), NEW n \in Nat, NEW b \in Table(D), Rounds(n, b, D \ {0})
    PROVE  \E c \in Table(D) :
              round(b) = {c} /\ Rounds(n + 1, c, D \ {0}) /\ Spares(b, c, D \ {0})
<1> DEFINE S == D \ {0}
<1>1. PICK min, max \in S :
          /\ Fewest(b.m, S, min) /\ Most(b.m, S, max)
          /\ round(b) = {IF b.done THEN b
                         ELSE IF even(b.m, min, max) THEN [b EXCEPT !.done = TRUE]
                         ELSE moved(b, min, max)}
  BY Round
<1>2. /\ b.m \in [D -> Seq(Shard)] /\ b.shards \in [Shard -> D]
      /\ \A y \in Shard : b.shards[y] # 0
  BY DEF Table
<1>3. \A g \in S : Len(b.m[g]) \in Nat
  <2>1. \A g \in S : b.m[g] \in Seq(Shard)
    BY <1>2
  <2> QED
    BY <2>1
<1>4. CASE b.done
  BY <1>1, <1>4 DEF Rounds, Spares
<1>5. CASE ~ b.done /\ even(b.m, min, max)
  <2> DEFINE c == [b EXCEPT !.done = TRUE]
  <2>1. c \in Table(D) /\ c.m = b.m /\ c.shards = b.shards /\ c.done
    BY DEF Table
  <2>2. round(b) = {c}
    BY <1>1, <1>5
  <2>3. Within(b.m, S)
    <3>1. \A g \in S : Len(b.m[g]) <= Len(b.m[max]) /\ Len(b.m[min]) <= Len(b.m[g])
      BY <1>1, <1>3 DEF Fewest, Most
    <3>2. Len(b.m[max]) <= Len(b.m[min]) + 1
      BY <1>3, <1>5 DEF even
    <3> QED
      BY <1>3, <3>1, <3>2 DEF Within
  <2> QED
    BY <2>1, <2>2, <2>3 DEF Rounds, Spares
<1>6. CASE ~ b.done /\ ~ even(b.m, min, max)
  <2>1. PICK c : c = moved(b, min, max)
    OBVIOUS
  <2>2. round(b) = {c}
    BY <1>1, <1>6, <2>1
  <2>3. Moves(b, c, min, max, D)
    BY <1>1, <1>6, <2>1, Moved
  <2>a. Len(b.m[max]) >= Len(b.m[min]) + 2
    BY <2>3 DEF Moves
  <2>4. PICK x \in Shard : b.shards[x] = max /\ c.shards = [b.shards EXCEPT ![x] = min]
    BY <2>3 DEF Moves
  <2>5. c.shards[x] = min /\ \A y \in Shard : y # x => c.shards[y] = b.shards[y]
    BY <1>2, <2>4
  <2>6. \A g \in S : /\ Len(c.m[g]) = IF g = max THEN Len(b.m[g]) - 1
                                      ELSE IF g = min THEN Len(b.m[g]) + 1 ELSE Len(b.m[g])
                     /\ Len(b.m[min]) <= Len(b.m[g]) /\ Len(b.m[g]) <= Len(b.m[max])
    BY <1>1, <1>3, <2>3 DEF Fewest, Most, Moves
  <2>7. min # max
    BY <1>3, <2>a
  <2>8. PICK R \in SUBSET Shard : Cardinality(R) = n /\ Settled(b, R, S)
    BY <1>6 DEF Rounds
  <2>9. x \notin R
    BY <1>1, <1>3, <2>a, <2>4, <2>8 DEF Settled
  <2>10. Cardinality(R \cup {x}) = n + 1
    <3>1. IsFiniteSet(Shard)
      BY NShardsAssumption, FS_Interval DEF Shard
    <3>2. IsFiniteSet(R)
      BY <3>1, FS_Subset
    <3> QED
      BY <2>8, <2>9, <3>2, FS_AddElement
  <2>11. Settled(c, R \cup {x}, S)
    <3> SUFFICES ASSUME NEW y \in R \cup {x}, NEW h \in S
                 PROVE  Len(c.m[c.shards[y]]) <= Len(c.m[h]) + 1
      BY DEF Settled
    <3>1. Len(b.m[h]) \in Nat /\ Len(b.m[min]) \in Nat /\ Len(b.m[max]) \in Nat
      BY <1>3
    <3>2. Len(c.m[min]) = Len(b.m[min]) + 1 /\ Len(c.m[h]) >= Len(b.m[min])
      BY <2>a, <2>6, <2>7, <3>1
    <3>3. CASE c.shards[y] = min
      BY <3>1, <3>2, <3>3
    <3>4. CASE c.shards[y] # min
      <4>1. y \in R /\ y \in Shard /\ y # x /\ c.shards[y] = b.shards[y]
        BY <2>5, <2>9, <3>4
      <4>2. PICK g \in S : g = b.shards[y]
        BY <1>2, <4>1
      <4>3. Len(b.m[g]) \in Nat /\ Len(b.m[g]) <= Len(b.m[h]) + 1 /\ Len(b.m[g]) <= Len(b.m[min]) + 1
        BY <1>1, <1>3, <2>8, <4>1, <4>2 DEF Settled
      <4>4. g # max /\ g # min
        BY <2>a, <3>1, <3>4, <4>1, <4>2, <4>3
      <4>5. Len(c.m[g]) = Len(b.m[g])
        BY <2>6, <4>4
      <4>6. h = max => Len(c.m[h]) = Len(b.m[max]) - 1
        BY <2>6
      <4>7. h # max => Len(c.m[h]) >= Len(b.m[h])
        BY <2>6, <3>1
      <4>8. Len(c.m[g]) <= Len(c.m[h]) + 1
        <5>1. CASE h = max
          BY <2>a, <3>1, <4>3, <4>5, <4>6, <5>1
        <5>2. CASE h # max
          <6>1. Len(c.m[h]) \in Nat
            BY <2>6, <3>1, <5>2
          <6> QED
            BY <3>1, <4>3, <4>5, <4>7, <5>2, <6>1
        <5> QED
          BY <5>1, <5>2
      <4> QED
        BY <4>1, <4>2, <4>8
    <3> QED
      BY <3>3, <3>4
  <2>12. Rounds(n + 1, c, S)
    BY <2>3, <2>10, <2>11 DEF Rounds, Moves
  <2>13. ASSUME NEW O \in SUBSET S, Ahead(b.m, O, S)
         PROVE  /\ Ahead(c.m, O, S)
                /\ \A y \in Shard : c.shards[y] = b.shards[y] \/ c.shards[y] \notin O
    <3>1. min \notin O
      BY <1>1, <1>3, <2>a, <2>13 DEF Ahead
    <3>2. ASSUME NEW g \in O, NEW h \in S PROVE Len(c.m[h]) <= Len(c.m[g]) + 1
      <4>1. Len(b.m[h]) \in Nat /\ Len(b.m[g]) \in Nat /\ Len(b.m[min]) \in Nat /\ Len(b.m[max]) \in Nat
        BY <1>3
      <4>2. Len(b.m[h]) <= Len(b.m[g]) + 1 /\ Len(b.m[max]) <= Len(b.m[g]) + 1
        BY <1>1, <2>13 DEF Ahead
      <4>3. Len(c.m[g]) = IF g = max THEN Len(b.m[g]) - 1 ELSE Len(b.m[g])
        BY <2>6, <3>1
      <4>4. Len(c.m[h]) = IF h = max THEN Len(b.m[h]) - 1
                          ELSE IF h = min THEN Len(b.m[h]) + 1 ELSE Len(b.m[h])
        BY <2>6
      <4>5. Len(b.m[h]) <= Len(b.m[max])
        BY <2>6
      <4> QED
        BY <2>a, <2>7, <4>1, <4>2, <4>3, <4>4, <4>5
    <3> QED
      BY <2>5, <3>1, <3>2 DEF Ahead
  <2> QED
    BY <2>2, <2>3, <2>12, <2>13 DEF Moves, Spares
<1> QED
  BY <1>4, <1>5, <1>6

number(shards, g) == Cardinality({x \in Shard : shards[x] = g})

\* What balance promises of its result x.  All the groups it knows of come to within one
\* of each other, and if no shard was without a group, the groups that none was more than
\* one ahead of get no shard.
Dealt(shards, gs, x) ==
    LET D == Range(shards) \cup gs
    IN  /\ x \in [Shard -> D]
        /\ D # {0} => \A y \in Shard : x[y] # 0
        /\ \A g, h \in D \ {0} : number(x, g) <= number(x, h) + 1
        /\ \A O \in SUBSET (D \ {0}) :
               /\ \A y \in Shard : shards[y] # 0
               /\ \A g \in O : \A h \in D \ {0} : number(shards, h) <= number(shards, g) + 1
               => \A y \in Shard : x[y] = shards[y] \/ x[y] \notin O

\* Every table has a round.
LEMMA RoundCloses ==
    ASSUME NEW D, Gids(D), NEW b \in Table(D)
    PROVE  \E c \in Table(D) : round(b) = {c}
<1>1. PICK min, max \in D \ {0} :
          /\ Fewest(b.m, D \ {0}, min) /\ Most(b.m, D \ {0}, max)
          /\ round(b) = {IF b.done THEN b
                         ELSE IF even(b.m, min, max) THEN [b EXCEPT !.done = TRUE]
                         ELSE moved(b, min, max)}
  BY Round
<1>2. CASE b.done
  BY <1>1, <1>2
<1>3. CASE ~ b.done /\ even(b.m, min, max)
  <2>1. [b EXCEPT !.done = TRUE] \in Table(D)
    BY DEF Table
  <2> QED
    BY <1>1, <1>3, <2>1
<1>4. CASE ~ b.done /\ ~ even(b.m, min, max)
  <2>1. Moves(b, moved(b, min, max), min, max, D)
    BY <1>1, <1>4, Moved
  <2> QED
    BY <1>1, <1>4, <2>1 DEF Moves
<1> QED
  BY <1>2, <1>3, <1>4

\* The lists balance starts from: the shards of each group, and none of the new ones.
LEMMA NewLists ==
    ASSUME NEW shards \in [Shard -> Nat], NEW gs
    PROVE  LET owned == getShardsMap(shards)
           IN  Lists([gid \in DOMAIN owned \cup gs |->
                         IF gid \in DOMAIN owned THEN owned[gid] ELSE <<>>],
                     shards, Range(shards) \cup gs)
<1> DEFINE owned == getShardsMap(shards)
           R == Range(shards)
           m == [gid \in DOMAIN owned \cup gs |-> IF gid \in DOMAIN owned THEN owned[gid] ELSE <<>>]
<1>1. Lists(owned, shards, R)
  BY ShardsMap
<1>2. DOMAIN owned = R /\ owned \in [R -> Seq(Shard)] /\ shards \in [Shard -> R]
  BY <1>1 DEF Lists
<1>3. <<>> \in Seq(Shard) /\ once(<<>>) /\ \A y \in Shard : ~ on(y, <<>>)
  BY DEF once, on
<1> HIDE DEF owned, R
<1>4. m \in [R \cup gs -> Seq(Shard)] /\ \A g \in R : m[g] = owned[g]
  BY <1>2, <1>3
<1>5. \A g \in gs \ R : m[g] = <<>> /\ \A x \in Shard : shards[x] # g
  BY <1>2
<1>6. ASSUME NEW g \in R \cup gs
      PROVE  once(m[g]) /\ \A x \in Shard : on(x, m[g]) <=> shards[x] = g
  <2>1. CASE g \in R
    BY <1>1, <1>4, <2>1 DEF Lists
  <2>2. CASE g \notin R
    BY <1>3, <1>5, <2>2
  <2> QED
    BY <2>1, <2>2
<1>7. shards \in [Shard -> R \cup gs]
  BY <1>2
<1>8. Lists(m, shards, R \cup gs)
  BY <1>4, <1>6, <1>7 DEF Lists
<1> QED
  BY <1>8 DEF owned, R

\* The loop of balance ends, with one result, and keeps those promises.
LEMMA BalanceDeals ==
    ASSUME NEW G, IsFiniteSet(G), G \subseteq Nat \ {0},
           NEW shards \in [Shard -> {0} \cup G], NEW gs \in SUBSET G
    PROVE  \E x : balance(shards, gs) = {x} /\ Dealt(shards, gs, x)
<1> DEFINE owned == getShardsMap(shards)
           D == Range(shards) \cup gs
           S == D \ {0}
           M == NShards + 1
<1>1. PICK m : m = [gid \in DOMAIN owned \cup gs |-> IF gid \in DOMAIN owned THEN owned[gid] ELSE <<>>]
  OBVIOUS
<1>2. shards \in [Shard -> Nat] /\ \A y \in Shard : shards[y] \in D
  <2>1. {0} \cup G \subseteq Nat
    OBVIOUS
  <2>2. \A y \in Shard : shards[y] \in Range(shards)
    BY DEF Range
  <2> QED
    BY <2>1, <2>2
<1>3. Lists(m, shards, D)
  BY <1>1, <1>2, NewLists
<1>4. DOMAIN m = D /\ shards \in [Shard -> D]
  BY <1>3 DEF Lists
<1>5. /\ NShards \in Nat /\ M \in Nat /\ M > NShards
      /\ IsFiniteSet(Shard) /\ Cardinality(Shard) = NShards /\ 0 \in Shard
  BY NShardsAssumption, FS_Interval DEF Shard
<1> HIDE DEF M
<1>6. D \subseteq Nat /\ IsFiniteSet(D)
  <2>1. D \subseteq {0} \cup G
    BY DEF Range
  <2>2. IsFiniteSet({0} \cup G)
    BY FS_AddElement
  <2>3. IsFiniteSet(D)
    BY <2>1, <2>2, FS_Subset
  <2>4. {0} \cup G \subseteq Nat
    OBVIOUS
  <2> QED
    BY <2>1, <2>3, <2>4
<1> HIDE DEF D
<1>7. ASSUME NEW z \in [Shard -> D], NEW g PROVE number(z, g) \in Nat
  <2>1. IsFiniteSet({y \in Shard : z[y] = g})
    BY <1>5, FS_Subset
  <2> QED
    BY <2>1, FS_CardinalityType DEF number
<1>8. CASE Cardinality(D) = 1
  <2>1. balance(shards, gs) = {shards}
    BY <1>1, <1>4, <1>8 DEF balance
  <2>2. PICK d : D = {d}
    BY <1>6, <1>8, FS_Singleton
  <2>3. \A y \in Shard : shards[y] = d
    BY <1>4, <2>2
  <2>4. \A g, h \in S : number(shards, g) <= number(shards, h) + 1
    BY <1>4, <1>7, <2>2
  <2> QED
    BY <1>4, <2>1, <2>2, <2>3, <2>4 DEF Dealt, D
<1>9. CASE Cardinality(D) # 1
  <2>1. Gids(D)
    <3>1. shards[0] \in D
      BY <1>2, <1>5
    <3>2. D # {0}
      BY <1>9, FS_Singleton
    <3> QED
      BY <1>6, <3>1, <3>2 DEF Gids
  <2>2. PICK b0 \in Table(D) : /\ adoptZero(m, shards) = {b0} /\ ~ b0.done
                               /\ (\A y \in Shard : shards[y] # 0) => b0.shards = shards
    BY <1>3, <2>1, Adopt
  <2> DEFINE A == Table(D)
             nxt == [b \in A |-> CHOOSE c : round(b) = {c}]
             F == [n \in 1 .. M |-> nxt]
  <2>3. \A b \in A : nxt[b] \in A /\ round(b) = {nxt[b]}
    <3> SUFFICES ASSUME NEW b \in A PROVE nxt[b] \in A /\ round(b) = {nxt[b]}
      OBVIOUS
    <3>1. PICK c \in A : round(b) = {c}
      BY <2>1, RoundCloses
    <3>2. (CHOOSE d : round(b) = {d}) = c
      BY <3>1
    <3> QED
      BY <3>1, <3>2
  <2>4. nxt \in [A -> A]
    BY <2>3
  <2> HIDE DEF nxt, A
  <2>5. F \in [1 .. M -> [A -> A]]
    BY <2>4
  <2>6. b0 \in A
    BY <2>2 DEF A
  <2> HIDE DEF F
  <2>7. PICK f \in [0 .. M -> A] : values(f, M, b0, F)
    BY <1>5, <2>5, <2>6, Loop
  <2>8. f[0] = b0 /\ \A n \in 1 .. M : f[n] = nxt[f[n - 1]]
    BY <2>7 DEF values, F
  <2>9. \A n \in 1 .. M : round(f[n - 1]) = {f[n]} /\ f[n - 1] \in A /\ f[n] \in A
    <3> SUFFICES ASSUME NEW n \in 1 .. M PROVE round(f[n - 1]) = {f[n]} /\ f[n - 1] \in A /\ f[n] \in A
      OBVIOUS
    <3>1. n - 1 \in 0 .. M /\ n \in 0 .. M
      BY <1>5
    <3>2. f[n - 1] \in A /\ f[n] \in A
      BY <3>1
    <3> QED
      BY <2>3, <2>8, <3>2
  <2> DEFINE P(r) == r = [n \in 0 .. M |-> IF n = 0 THEN adoptZero(m, shards)
                                           ELSE UNION {round(b) : b \in r[n - 1]}]
             r0 == [n \in 0 .. M |-> {f[n]}]
  <2>10. P(r0)
    <3>1. ASSUME NEW n \in 0 .. M
          PROVE  {f[n]} = IF n = 0 THEN adoptZero(m, shards)
                          ELSE UNION {round(b) : b \in r0[n - 1]}
      <4>1. CASE n = 0
        BY <2>2, <2>8, <4>1
      <4>2. CASE n # 0
        <5>1. n \in 1 .. M /\ n - 1 \in 0 .. M
          BY <1>5, <4>2
        <5>2. r0[n - 1] = {f[n - 1]}
          BY <5>1
        <5> QED
          BY <2>9, <4>2, <5>1, <5>2
      <4> QED
        BY <4>1, <4>2
    <3> QED
      BY <3>1
  <2>11. PICK r : P(r) /\ r = CHOOSE q : P(q)
    <3> HIDE DEF P
    <3> QED
      BY <2>10
  <2>12. \A n \in 0 .. M : r[n] = IF n = 0 THEN adoptZero(m, shards)
                                  ELSE UNION {round(b) : b \in r[n - 1]}
    BY <2>11
  <2>13. balance(shards, gs) = {b.shards : b \in {y \in r[M] : y.done}}
    <3>1. balance(shards, gs) = {b.shards : b \in {y \in (CHOOSE q : P(q))[M] : y.done}}
      BY <1>1, <1>4, <1>9, Zenon DEF balance, M
    <3> QED
      BY <2>11, <3>1
  <2> HIDE DEF P, r0
  <2> DEFINE Good == {n \in 0 .. M : r[n] = {f[n]} /\ Rounds(n, f[n], S) /\ Spares(b0, f[n], S)}
  <2>14. 0 \in Good
    <3>1. 0 \in 0 .. M
      BY <1>5
    <3>4. r[0] = {f[0]}
      BY <2>2, <2>8, <2>12, <3>1
    <3>2. Cardinality({}) = 0 /\ Settled(b0, {}, S)
      BY FS_EmptySet DEF Settled
    <3>3. Rounds(0, b0, S)
      BY <2>2, <3>2 DEF Rounds
    <3> QED
      BY <2>8, <3>1, <3>3, <3>4 DEF Spares
  <2>15. ASSUME NEW n \in 1 .. M, n - 1 \in Good PROVE n \in Good
    <3>1. r[n - 1] = {f[n - 1]} /\ Rounds(n - 1, f[n - 1], S) /\ Spares(b0, f[n - 1], S)
      BY <2>15
    <3>2. round(f[n - 1]) = {f[n]} /\ f[n - 1] \in Table(D) /\ f[n] \in Table(D)
      BY <2>9 DEF A
    <3>a. n - 1 \in Nat /\ n - 1 + 1 = n /\ n \in 0 .. M /\ n # 0
      BY <1>5
    <3>3. r[n] = {f[n]}
      <4>1. r[n] = UNION {round(b) : b \in r[n - 1]}
        BY <2>12, <3>a
      <4> QED
        BY <3>1, <3>2, <4>1
    <3>4. \E c \in Table(D) :
              round(f[n - 1]) = {c} /\ Rounds(n - 1 + 1, c, S) /\ Spares(f[n - 1], c, S)
      BY <2>1, <3>1, <3>2, <3>a, RoundSettles
    <3>5. Rounds(n, f[n], S) /\ Spares(f[n - 1], f[n], S)
      BY <3>2, <3>4, <3>a
    <3>6. Spares(b0, f[n], S)
      BY <3>1, <3>5 DEF Spares
    <3> QED
      BY <3>3, <3>5, <3>6, <3>a
  <2>16. M \in Good
    <3> HIDE DEF Good
    <3>1. \A n \in 0 .. M : n \in Good
      BY <1>5, <2>14, <2>15, UpTo
    <3> QED
      BY <1>5, <3>1
  <2>17. r[M] = {f[M]} /\ Rounds(M, f[M], S) /\ Spares(b0, f[M], S)
    BY <2>16
  <2>18. f[M] \in Table(D)
    <3>1. M \in 0 .. M
      BY <1>5
    <3> QED
      BY <3>1 DEF A
  <2>19. f[M].done
    <3> SUFFICES ASSUME ~ f[M].done PROVE FALSE
      OBVIOUS
    <3>1. PICK R \in SUBSET Shard : Cardinality(R) = M
      BY <2>17 DEF Rounds
    <3>2. Cardinality(R) <= Cardinality(Shard)
      BY <1>5, FS_Subset
    <3> QED
      BY <1>5, <3>1, <3>2
  <2>20. PICK x : x = f[M].shards
    OBVIOUS
  <2>21. balance(shards, gs) = {x}
    BY <2>13, <2>17, <2>19, <2>20
  <2>22. /\ x \in [Shard -> D] /\ Lists(f[M].m, x, D) /\ \A y \in Shard : x[y] # 0
    BY <2>18, <2>20 DEF Table
  <2>23. Within(f[M].m, S)
    BY <2>17, <2>19 DEF Rounds
  <2>24. ASSUME NEW g \in D PROVE number(x, g) = Len(f[M].m[g])
    BY <2>22, ListLength DEF number
  <2>25. \A g, h \in S : number(x, g) <= number(x, h) + 1
    BY <2>23, <2>24 DEF Within
  <2>26. ASSUME NEW O \in SUBSET S, \A y \in Shard : shards[y] # 0,
                \A g \in O : \A h \in S : number(shards, h) <= number(shards, g) + 1
         PROVE  \A y \in Shard : x[y] = shards[y] \/ x[y] \notin O
    <3>1. b0.shards = shards /\ Lists(b0.m, shards, D)
      BY <2>2, <2>26 DEF Table
    <3>2. ASSUME NEW g \in D PROVE number(shards, g) = Len(b0.m[g])
      BY <3>1, ListLength DEF number
    <3>3. Ahead(b0.m, O, S)
      BY <2>26, <3>2 DEF Ahead
    <3> QED
      BY <2>17, <2>20, <3>1, <3>3 DEF Spares
  <2>27. Dealt(shards, gs, x)
    BY <2>22, <2>25, <2>26 DEF Dealt, D
  <2> QED
    BY <2>21, <2>27
<1> QED
  BY <1>8, <1>9

=============================================================================
