---------------------------- MODULE DbIndexes_proofs ----------------------------
(***************************************************************************)
(* Proofs about the hash tables of WhiteDB: the walks of Walks.tla over    *)
(* linked lists and sequences; that strings are shared and found on their  *)
(* chains (StrHash); that the index of values counts every value of every  *)
(* row (HashIndex); that the extendible hash table keeps what was added    *)
(* through splits and growth (GintHash).                                   *)
(***************************************************************************)
EXTENDS DbIndexes, FiniteSetTheorems, SequenceTheorems, WellFoundedInduction, TLAPS

(***************************************************************************)
(* Numbers, and what holds for all of them up to a bound                   *)
(***************************************************************************)

LEMMA LeastOf ==
  ASSUME NEW T, T \subseteq Nat, T # {}
  PROVE  \E i \in T : \A j \in T : i <= j
<1>1. OpToRel(<, Nat) = {ss \in Nat \X Nat : ss[1] < ss[2]}
  BY DEF OpToRel
<1>2. PICK i \in T : \A j \in T : <<j, i>> \notin {ss \in Nat \X Nat : ss[1] < ss[2]}
  BY <1>1, NatLessThanWellFounded, WFMin, ZenonT(40)
<1>3. ASSUME NEW j \in T PROVE i <= j
  <2>1. i \in Nat /\ j \in Nat /\ ~ (j < i)
    BY <1>2
  <2>2. QED
    BY <2>1
<1>4. QED
  BY <1>3

\* Of a set of numbers, Min is the least one.
LEMMA MinIsLeast ==
  ASSUME NEW T, T \subseteq Nat, T # {}
  PROVE  Min(T) \in T /\ \A j \in T : Min(T) <= j
BY LeastOf DEF Min

\* A set that has 0, and each number up to m if it has the one before, has all
\* numbers up to m.
LEMMA UpTo ==
  ASSUME NEW m \in Nat, NEW T, 0 \in T, \A n \in 1 .. m : n - 1 \in T => n \in T
  PROVE  0 .. m \subseteq T
<1> DEFINE Lacking == {n \in 0 .. m : n \notin T}
<1> SUFFICES ASSUME Lacking # {} PROVE FALSE
  OBVIOUS
<1>1. PICK n \in Lacking : \A j \in Lacking : n <= j
  <2>1. Lacking \subseteq Nat
    OBVIOUS
  <2>2. QED
    BY <2>1, LeastOf
<1>2. n \in 1 .. m /\ n - 1 \in 0 .. m /\ ~ (n <= n - 1)
  OBVIOUS
<1>3. n - 1 \in T
  BY <1>1, <1>2
<1>4. QED
  BY <1>2, <1>3

\* f[n] is what step n makes of f[n - 1].
Steps(f, m, a, step) == f = [n \in 0 .. m |-> IF n = 0 THEN a ELSE step[n][f[n - 1]]]

\* A recursive function on 0 .. m exists if each step stays within what it is
\* to be.
LEMMA Iteration ==
  ASSUME NEW m \in Nat, NEW S, NEW a \in S[0], NEW step,
         \A n \in 1 .. m : \A x \in S[n - 1] : step[n][x] \in S[n]
  PROVE  \E f : Steps(f, m, a, step) /\ \A n \in 0 .. m : f[n] \in S[n]
<1> DEFINE Made(k, f) == f = [n \in 0 .. k |-> IF n = 0 THEN a ELSE step[n][f[n - 1]]]
           T == {k \in 0 .. m : \E f : Made(k, f)}
<1>1. 0 \in T
  <2>1. Made(0, [n \in 0 .. 0 |-> a])
    OBVIOUS
  <2> HIDE DEF Made
  <2>2. QED
    BY <2>1
<1>2. ASSUME NEW k \in 1 .. m, k - 1 \in T PROVE k \in T
  <2>1. PICK f : Made(k - 1, f)
    BY <1>2
  <2> DEFINE h == [n \in 0 .. k |-> IF n = k THEN step[k][f[k - 1]] ELSE f[n]]
  <2>2. k \in Nat /\ k # 0 /\ k - 1 \in Nat /\ k - 1 # k
    OBVIOUS
  <2>3. ASSUME NEW n \in 0 .. k
        PROVE  h[n] = IF n = 0 THEN a ELSE step[n][h[n - 1]]
    <3>1. CASE n = 0
      <4>1. 0 \in 0 .. k - 1 /\ f[0] = a
        BY <2>1, <2>2
      <4>2. QED
        BY <3>1, <4>1, <2>2
    <3>2. CASE n = k
      <4>1. h[k - 1] = f[k - 1]
        BY <2>2
      <4>2. QED
        BY <3>2, <4>1, <2>2
    <3>3. CASE n # 0 /\ n # k
      <4>1. n \in 0 .. k - 1 /\ n - 1 \in 0 .. k /\ n - 1 # k
        BY <2>2, <3>3
      <4>2. f[n] = step[n][f[n - 1]] /\ h[n - 1] = f[n - 1] /\ h[n] = f[n]
        BY <2>1, <3>3, <4>1
      <4>3. QED
        BY <4>2, <3>3
    <3>4. QED
      BY <3>1, <3>2, <3>3
  <2> HIDE DEF h
  <2>4. h = [n \in 0 .. k |-> h[n]]
    BY DEF h
  <2>5. Made(k, h)
    BY <2>3, <2>4
  <2>6. QED
    BY <2>5
<1>3. PICK f : Made(m, f)
  <2>1. m \in T
    <3> HIDE DEF T
    <3>1. 0 .. m \subseteq T
      BY <1>1, <1>2, UpTo
    <3>2. QED
      BY <3>1
  <2>2. QED
    BY <2>1
<1>4. \A n \in 0 .. m : f[n] \in S[n]
  <2> DEFINE U == {n \in 0 .. m : f[n] \in S[n]}
  <2>1. 0 \in U
    BY <1>3
  <2>2. ASSUME NEW n \in 1 .. m, n - 1 \in U PROVE n \in U
    <3>1. f[n] = step[n][f[n - 1]]
      BY <1>3
    <3>2. QED
      BY <2>2, <3>1
  <2> HIDE DEF U
  <2>3. 0 .. m \subseteq U
    BY <2>1, <2>2, UpTo
  <2>4. QED
    BY <2>3 DEF U
<1>5. QED
  BY <1>3, <1>4 DEF Steps

-----------------------------------------------------------------------------
(* Lists                                                                   *)

\* The list that begins at first and goes on as next says has the places l.
IsList(first, next, l) ==
  /\ l \in Seq(Nat \ {0})
  /\ first = IF l = <<>> THEN 0 ELSE l[1]
  /\ \A i \in 1 .. Len(l) : l[i] \in DOMAIN next /\ next[l[i]] = IF i = Len(l) THEN 0 ELSE l[i + 1]
  /\ \A i, j \in 1 .. Len(l) : l[i] = l[j] => i = j

LEMMA ListLength ==
  ASSUME NEW first, NEW next, NEW l, IsList(first, next, l), IsFiniteSet(DOMAIN next)
  PROVE  /\ Cardinality(DOMAIN next) \in Nat /\ Len(l) \in Nat /\ Len(l) <= Cardinality(DOMAIN next)
<1>1. l \in Injection(1 .. Len(l), DOMAIN next)
  <2>1. l \in [1 .. Len(l) -> DOMAIN next]
    BY DEF IsList
  <2>2. QED
    BY <2>1 DEF Injection, IsInjective, IsList
<1>2. Cardinality(1 .. Len(l)) <= Cardinality(DOMAIN next)
  BY <1>1, FS_Injection
<1>3. Len(l) \in Nat
  BY DEF IsList
<1>4. Cardinality(1 .. Len(l)) = Len(l)
  <2>1. \A m \in Nat : Cardinality(1 .. m) = m
    BY FS_Interval
  <2>2. QED
    BY <1>3, <2>1
<1>5. Cardinality(DOMAIN next) \in Nat
  BY FS_CardinalityType
<1>6. QED
  BY <1>2, <1>3, <1>4, <1>5

\* The walk along a list finds its places.
LEMMA FollowIs ==
  ASSUME NEW first, NEW next, NEW l, IsList(first, next, l),
         0 \notin DOMAIN next, IsFiniteSet(DOMAIN next)
  PROVE  Follow(first, next) = l
<1> DEFINE N == Cardinality(DOMAIN next) + 1
           After(x) == IF x \in DOMAIN next THEN next[x] ELSE 0
           Walk(f) == f = [n \in 0 .. N |-> IF n = 0 THEN first ELSE After(f[n - 1])]
           at == CHOOSE f : Walk(f)
           h == [n \in 0 .. N |-> IF n < Len(l) THEN l[n + 1] ELSE 0]
<1>1. /\ l \in Seq(Nat \ {0}) /\ first = IF l = <<>> THEN 0 ELSE l[1]
      /\ \A i \in 1 .. Len(l) : l[i] \in DOMAIN next /\ next[l[i]] = IF i = Len(l) THEN 0 ELSE l[i + 1]
  BY DEF IsList
<1>2. Len(l) \in Nat /\ N \in Nat /\ Len(l) < N /\ (l = <<>> <=> Len(l) = 0)
  <2>1. Len(l) \in Nat /\ Cardinality(DOMAIN next) \in Nat /\ Len(l) <= Cardinality(DOMAIN next)
    BY ListLength
  <2>2. QED
    BY <2>1, <1>1
<1> HIDE DEF N
<1>3. ASSUME NEW n \in 1 .. N PROVE h[n] = After(h[n - 1])
  <2>1. n - 1 \in 0 .. N /\ n \in 0 .. N /\ (n - 1) + 1 = n
    BY <1>2
  <2>2. h[n - 1] = (IF n - 1 < Len(l) THEN l[n] ELSE 0) /\ h[n] = IF n < Len(l) THEN l[n + 1] ELSE 0
    BY <2>1
  <2> HIDE DEF h
  <2>3. CASE n - 1 < Len(l)
    <3>1. n \in 1 .. Len(l)
      BY <1>2, <2>3
    <3>2. After(h[n - 1]) = IF n = Len(l) THEN 0 ELSE l[n + 1]
      BY <1>1, <2>2, <2>3, <3>1
    <3>3. n = Len(l) <=> ~ (n < Len(l))
      BY <1>2, <3>1
    <3>4. QED
      BY <2>2, <3>2, <3>3
  <2>4. CASE ~ (n - 1 < Len(l))
    <3>1. ~ (n < Len(l)) /\ h[n - 1] = 0 /\ h[n] = 0
      BY <1>2, <2>2, <2>4
    <3>2. QED
      BY <3>1
  <2>5. QED
    BY <2>3, <2>4
<1>4. h[0] = first
  <2>1. 0 \in 0 .. N /\ h[0] = IF 0 < Len(l) THEN l[1] ELSE 0
    BY <1>2
  <2>2. 0 < Len(l) <=> l # <<>>
    BY <1>2
  <2>3. QED
    BY <1>1, <2>1, <2>2
<1>5. Walk(at)
  <2>1. Walk(h)
    <3>1. ASSUME NEW n \in 0 .. N PROVE h[n] = IF n = 0 THEN first ELSE After(h[n - 1])
      <4>1. n = 0 \/ n \in 1 .. N
        BY <1>2
      <4> HIDE DEF h, After
      <4>2. QED
        BY <1>3, <1>4, <4>1
    <3>2. h = [n \in 0 .. N |-> h[n]]
      OBVIOUS
    <3> HIDE DEF h, After
    <3>3. QED
      BY <3>1, <3>2
  <2> HIDE DEF Walk, h
  <2>2. QED
    BY <2>1
<1> HIDE DEF at
<1>6. \A n \in 0 .. N : at[n] = h[n]
  <2> DEFINE T == {n \in 0 .. N : at[n] = h[n]}
  <2>1. 0 \in T
    BY <1>2, <1>4, <1>5
  <2>2. ASSUME NEW n \in 1 .. N, n - 1 \in T PROVE n \in T
    <3>1. n \in 0 .. N /\ n # 0 /\ at[n - 1] = h[n - 1]
      BY <1>2, <2>2
    <3>2. at[n] = After(at[n - 1])
      BY <1>5, <3>1
    <3> HIDE DEF h, After
    <3>3. QED
      BY <1>3, <3>1, <3>2
  <2> HIDE DEF T
  <2>3. 0 .. N \subseteq T
    BY <1>2, <2>1, <2>2, UpTo
  <2>4. QED
    BY <2>3 DEF T
<1>7. DOMAIN at = 0 .. N
  BY <1>5
<1>8. {n \in DOMAIN at : at[n] # 0} = 0 .. Len(l) - 1
  <2>1. ASSUME NEW n \in 0 .. N PROVE h[n] # 0 <=> n < Len(l)
    BY <1>1, <1>2
  <2> HIDE DEF h
  <2>2. QED
    BY <1>2, <1>6, <1>7, <2>1
<1>9. Cardinality({n \in DOMAIN at : at[n] # 0}) = Len(l)
  <2>1. \A m \in Nat : Cardinality(0 .. m - 1) = m
    BY FS_Interval
  <2>2. QED
    BY <1>2, <1>8, <2>1
<1>10. Follow(first, next) = [i \in 1 .. Len(l) |-> at[i - 1]]
  BY <1>9 DEF Follow, at, N
<1>11. \A i \in 1 .. Len(l) : at[i - 1] = l[i]
  <2>1. \A i \in 1 .. Len(l) : i - 1 \in 0 .. N /\ h[i - 1] = l[i]
    BY <1>2
  <2> HIDE DEF h
  <2>2. QED
    BY <1>6, <2>1
<1>12. l = [i \in 1 .. Len(l) |-> l[i]]
  BY <1>1
<1>13. QED
  BY <1>10, <1>11, <1>12

\* The places of a list do not depend on what is linked elsewhere.
LEMMA ListElsewhere ==
  ASSUME NEW first, NEW next, NEW next2, NEW l, IsList(first, next, l),
         \A a \in Range(l) : a \in DOMAIN next2 /\ next2[a] = next[a]
  PROVE  IsList(first, next2, l)
<1>1. l \in Seq(Nat \ {0}) /\ DOMAIN l = 1 .. Len(l)
  BY DEF IsList
<1>2. \A i \in 1 .. Len(l) : l[i] \in Range(l)
  BY <1>1 DEF Range
<1>3. QED
  BY <1>2 DEF IsList

LEMMA ListPrepended ==
  ASSUME NEW first, NEW next, NEW l, IsList(first, next, l), NEW a \in Nat \ {0}, a \notin Range(l),
         NEW next2, a \in DOMAIN next2, next2[a] = first,
         \A x \in Range(l) : x \in DOMAIN next2 /\ next2[x] = next[x]
  PROVE  /\ IsList(a, next2, <<a>> \o l)
         /\ Range(<<a>> \o l) = Range(l) \cup {a}
<1> DEFINE k == <<a>> \o l
<1>1. l \in Seq(Nat \ {0}) /\ Len(l) \in Nat /\ (l = <<>> <=> Len(l) = 0) /\ DOMAIN l = 1 .. Len(l)
  BY DEF IsList
<1>2. /\ k \in Seq(Nat \ {0}) /\ Len(k) = Len(l) + 1 /\ k[1] = a /\ DOMAIN k = 1 .. Len(l) + 1
      /\ \A i \in 2 .. Len(l) + 1 : k[i] = l[i - 1]
  BY <1>1
<1>3. \A i \in 1 .. Len(l) : l[i] \in Range(l) /\ l[i] # a
  BY <1>1 DEF Range
<1> HIDE DEF k
<1>4. ASSUME NEW i \in 1 .. Len(k)
      PROVE  k[i] \in DOMAIN next2 /\ next2[k[i]] = IF i = Len(k) THEN 0 ELSE k[i + 1]
  <2>1. CASE i = 1
    <3>1. first = IF Len(l) = 0 THEN 0 ELSE l[1]
      BY <1>1 DEF IsList
    <3>2. Len(l) # 0 => k[2] = l[1]
      BY <1>1, <1>2
    <3>3. QED
      BY <1>1, <1>2, <2>1, <3>1, <3>2
  <2>2. CASE i # 1
    <3>1. i - 1 \in 1 .. Len(l) /\ k[i] = l[i - 1] /\ (i = Len(k) <=> i - 1 = Len(l))
      BY <1>1, <1>2, <2>2
    <3>2. next[l[i - 1]] = IF i - 1 = Len(l) THEN 0 ELSE l[(i - 1) + 1]
      BY <3>1 DEF IsList
    <3>3. i # Len(k) => k[i + 1] = l[(i - 1) + 1]
      <4>1. (i + 1) - 1 = (i - 1) + 1 /\ (i # Len(k) => i + 1 \in 2 .. Len(l) + 1)
        BY <1>1, <1>2
      <4>2. QED
        BY <1>2, <4>1
    <3>4. QED
      BY <1>3, <3>1, <3>2, <3>3
  <2>3. QED
    BY <2>1, <2>2
<1>5. ASSUME NEW i \in 1 .. Len(k), NEW j \in 1 .. Len(k), k[i] = k[j] PROVE i = j
  <2>1. CASE i = 1 \/ j = 1
    <3>1. \A m \in 2 .. Len(l) + 1 : k[m] # a
      BY <1>1, <1>2, <1>3
    <3>2. QED
      BY <1>1, <1>2, <1>5, <2>1, <3>1
  <2>2. CASE i # 1 /\ j # 1
    <3>1. i - 1 \in 1 .. Len(l) /\ j - 1 \in 1 .. Len(l) /\ l[i - 1] = l[j - 1]
      BY <1>1, <1>2, <1>5, <2>2
    <3>2. i - 1 = j - 1
      BY <3>1 DEF IsList
    <3>3. QED
      BY <3>2
  <2>3. QED
    BY <2>1, <2>2
<1>6. k # <<>>
  BY <1>1, <1>2
<1>7. IsList(a, next2, k)
  BY <1>2, <1>4, <1>5, <1>6 DEF IsList
<1>8. Range(k) = Range(l) \cup {a}
  <2>1. \A i \in DOMAIN k : k[i] \in Range(l) \cup {a}
    <3>1. \A i \in 2 .. Len(l) + 1 : k[i] \in Range(l)
      <4>1. \A i \in 2 .. Len(l) + 1 : i - 1 \in 1 .. Len(l)
        BY <1>1
      <4>2. QED
        BY <1>2, <1>3, <4>1
    <3>2. \A i \in DOMAIN k : i = 1 \/ i \in 2 .. Len(l) + 1
      BY <1>1, <1>2
    <3>3. QED
      BY <1>2, <3>1, <3>2
  <2>2. a \in Range(k)
    <3>1. 1 \in DOMAIN k
      BY <1>1, <1>2
    <3>2. QED
      BY <1>2, <3>1 DEF Range
  <2>3. \A i \in DOMAIN l : l[i] \in Range(k)
    <3>1. \A i \in DOMAIN l : i + 1 \in DOMAIN k /\ k[i + 1] = l[(i + 1) - 1] /\ (i + 1) - 1 = i
      BY <1>1, <1>2
    <3>2. QED
      BY <3>1 DEF Range
  <2>4. QED
    BY <2>1, <2>2, <2>3 DEF Range
<1>9. QED
  BY <1>7, <1>8 DEF k

Removed(l, k) == [i \in 1 .. Len(l) - 1 |-> IF i < k THEN l[i] ELSE l[i + 1]]

LEMMA RemovedIs ==
  ASSUME NEW X, NEW l \in Seq(X), NEW k \in 1 .. Len(l)
  PROVE  /\ Removed(l, k) \in Seq(X) /\ Len(Removed(l, k)) = Len(l) - 1
         /\ \A i \in 1 .. Len(l) - 1 : Removed(l, k)[i] = IF i < k THEN l[i] ELSE l[i + 1]
<1>1. Len(l) \in Nat /\ Len(l) - 1 \in Nat /\ \A i \in 1 .. Len(l) : l[i] \in X
  OBVIOUS
<1>2. \A i \in 1 .. Len(l) - 1 : (IF i < k THEN l[i] ELSE l[i + 1]) \in X
  <2>1. \A i \in 1 .. Len(l) - 1 : i \in 1 .. Len(l) /\ i + 1 \in 1 .. Len(l)
    OBVIOUS
  <2>2. QED
    BY <1>1, <2>1
<1>3. QED
  BY <1>1, <1>2 DEF Removed

LEMMA ListRemoved ==
  ASSUME NEW first, NEW next, NEW l, IsList(first, next, l), NEW k \in 1 .. Len(l),
         NEW first2, first2 = IF k = 1 THEN next[l[1]] ELSE first,
         NEW next2,
         \A i \in 1 .. Len(l) : i # k =>
           l[i] \in DOMAIN next2 /\ next2[l[i]] = IF i = k - 1 THEN next[l[k]] ELSE next[l[i]]
  PROVE  /\ IsList(first2, next2, Removed(l, k))
         /\ Range(Removed(l, k)) = Range(l) \ {l[k]}
<1> DEFINE r == Removed(l, k)
<1>1. l \in Seq(Nat \ {0}) /\ Len(l) \in Nat /\ Len(l) - 1 \in Nat
  BY DEF IsList
<1>2. /\ r \in Seq(Nat \ {0}) /\ Len(r) = Len(l) - 1
      /\ \A i \in 1 .. Len(l) - 1 : r[i] = IF i < k THEN l[i] ELSE l[i + 1]
  BY <1>1, RemovedIs
<1>d. DOMAIN l = 1 .. Len(l) /\ DOMAIN r = 1 .. Len(l) - 1
  <2>1. DOMAIN l = 1 .. Len(l) /\ DOMAIN r = 1 .. Len(r)
    BY <1>1, <1>2
  <2>2. QED
    BY <1>2, <2>1
<1> HIDE DEF r
<1>3. \A i \in 1 .. Len(l) : next[l[i]] = IF i = Len(l) THEN 0 ELSE l[i + 1]
  BY DEF IsList
<1>4. ASSUME NEW i \in 1 .. Len(r)
      PROVE  r[i] \in DOMAIN next2 /\ next2[r[i]] = IF i = Len(r) THEN 0 ELSE r[i + 1]
  <2>1. i \in 1 .. Len(l) /\ i + 1 \in 1 .. Len(l) /\ i \in 1 .. Len(l) - 1
    <3>1. Len(r) = Len(l) - 1
      BY <1>2
    <3>2. Len(l) \in Nat
      BY <1>1
    <3>3. QED
      BY <3>1, <3>2
  <2>2. CASE i < k - 1
    <3>a. Len(r) = Len(l) - 1 /\ k \in Int /\ k <= Len(l) /\ i \in Int
      BY <1>1, <1>2
    <3>1. i # k /\ i # k - 1 /\ i # Len(l) /\ i + 1 < k /\ i < k /\ i # Len(r) /\ i + 1 \in 1 .. Len(l) - 1
      BY <1>1, <2>1, <2>2, <3>a, SMTT(40)
    <3>2. r[i] = l[i] /\ r[i + 1] = l[i + 1]
      BY <1>2, <2>1, <3>1
    <3>3. QED
      BY <1>3, <2>1, <3>1, <3>2
  <2>3. CASE i = k - 1
    <3>1. i # k /\ i < k /\ i + 1 = k
      BY <2>3
    <3>2. r[i] = l[i] /\ next2[l[i]] = next[l[k]] /\ l[i] \in DOMAIN next2
      BY <1>2, <2>1, <2>3, <3>1
    <3>3. i = Len(r) <=> k = Len(l)
      <4>1. Len(r) = Len(l) - 1
        BY <1>2
      <4>2. Len(l) \in Nat /\ k \in Int
        BY <1>1
      <4>3. QED
        BY <2>3, <4>1, <4>2
    <3>4. i # Len(r) => r[i + 1] = l[k + 1]
      <4>1. i # Len(r) => i + 1 \in 1 .. Len(l) - 1 /\ ~(i + 1 < k) /\ (i + 1) + 1 = k + 1
        BY <1>1, <1>2, <2>3, SMTT(40)
      <4>2. QED
        BY <1>2, <4>1
    <3>5. QED
      BY <1>3, <3>2, <3>3, <3>4
  <2>4. CASE ~ (i < k - 1) /\ i # k - 1
    <3>1. ~ (i < k) /\ i + 1 # k /\ i + 1 # k - 1
      BY <2>4
    <3>2. r[i] = l[i + 1] /\ next2[l[i + 1]] = next[l[i + 1]] /\ l[i + 1] \in DOMAIN next2
      BY <1>2, <2>1, <3>1
    <3>3. i = Len(r) <=> i + 1 = Len(l)
      <4>1. Len(r) = Len(l) - 1
        BY <1>2
      <4>2. Len(l) \in Nat /\ i \in Int
        BY <1>1, <2>1
      <4>3. QED
        BY <4>1, <4>2
    <3>4. i # Len(r) => r[i + 1] = l[(i + 1) + 1]
      <4>1. i # Len(r) => i + 1 \in 1 .. Len(l) - 1 /\ ~(i + 1 < k)
        BY <1>1, <1>2, <3>1, SMTT(40)
      <4>2. QED
        BY <1>2, <4>1
    <3>5. QED
      BY <1>3, <2>1, <3>2, <3>3, <3>4
  <2>5. QED
    BY <2>2, <2>3, <2>4
<1>5. \A i, j \in 1 .. Len(l) : l[i] = l[j] => i = j
  BY DEF IsList
<1>6. ASSUME NEW i \in 1 .. Len(r)
      PROVE  \E m \in 1 .. Len(l) : m # k /\ r[i] = l[m] /\ m = IF i < k THEN i ELSE i + 1
  <2>1. i \in 1 .. Len(l) - 1 /\ i \in 1 .. Len(l) /\ i + 1 \in 1 .. Len(l) /\ k \in Int
    BY <1>1, <1>2
  <2>2. r[i] = IF i < k THEN l[i] ELSE l[i + 1]
    BY <1>2, <2>1
  <2>3. QED
    BY <2>1, <2>2
<1>7. ASSUME NEW i \in 1 .. Len(r), NEW j \in 1 .. Len(r), r[i] = r[j] PROVE i = j
  <2>1. (IF i < k THEN i ELSE i + 1) = (IF j < k THEN j ELSE j + 1)
    <3>1. PICK m \in 1 .. Len(l) : m # k /\ r[i] = l[m] /\ m = IF i < k THEN i ELSE i + 1
      BY <1>6
    <3>2. PICK n \in 1 .. Len(l) : n # k /\ r[j] = l[n] /\ n = IF j < k THEN j ELSE j + 1
      BY <1>6
    <3>3. m = n
      BY <1>5, <1>7, <3>1, <3>2, ZenonT(40)
    <3>4. QED
      BY <3>1, <3>2, <3>3
  <2>2. QED
    BY <2>1
<1>8. first2 = IF r = <<>> THEN 0 ELSE r[1]
  <2>a. (r = <<>> <=> Len(r) = 0) /\ (l = <<>> <=> Len(l) = 0)
    <3>1. r \in Seq(Nat \ {0}) /\ l \in Seq(Nat \ {0})
      BY <1>1, <1>2
    <3>2. QED
      BY <3>1, EmptySeq
  <2>1. (r = <<>> <=> Len(l) = 1) /\ (Len(l) # 1 => 1 \in 1 .. Len(l) - 1) /\ l # <<>>
    <3>1. Len(r) = Len(l) - 1
      BY <1>2
    <3>2. Len(l) \in Nat /\ Len(l) # 0
      BY <1>1
    <3>3. QED
      BY <2>a, <3>1, <3>2
  <2>2. CASE k = 1
    <3>1. next[l[1]] = IF Len(l) = 1 THEN 0 ELSE l[2]
      <4>1. 1 \in 1 .. Len(l) /\ 1 + 1 = 2
        BY <2>2
      <4>2. next[l[1]] = IF 1 = Len(l) THEN 0 ELSE l[1 + 1]
        BY <1>3, <4>1
      <4>3. QED
        BY <4>1, <4>2
    <3>2. Len(l) # 1 => r[1] = l[2]
      BY <1>2, <2>1, <2>2
    <3>3. QED
      BY <2>1, <2>2, <3>1, <3>2
  <2>3. CASE k # 1
    <3>1. Len(l) # 1 /\ 1 < k
      BY <2>3
    <3>2. first = l[1]
      BY <2>1 DEF IsList
    <3>3. r[1] = l[1]
      BY <1>2, <2>1, <3>1
    <3>4. QED
      BY <2>1, <2>3, <3>1, <3>2, <3>3
  <2>4. QED
    BY <2>2, <2>3
<1>9. IsList(first2, next2, r)
  BY <1>2, <1>4, <1>7, <1>8 DEF IsList
<1>10. Range(r) = Range(l) \ {l[k]}
  <2>1. \A i \in DOMAIN r : r[i] \in Range(l) \ {l[k]}
    <3>1. \A i \in 1 .. Len(r) : \E m \in 1 .. Len(l) : m # k /\ r[i] = l[m]
      BY <1>6
    <3>2. \A m \in 1 .. Len(l) : m # k => l[m] \in Range(l) \ {l[k]}
      BY <1>5, <1>d DEF Range
    <3>3. \A i \in 1 .. Len(r) : r[i] \in Range(l) \ {l[k]}
      BY <3>1, <3>2
    <3>4. QED
      BY <1>2, <1>d, <3>3
  <2>2. ASSUME NEW m \in 1 .. Len(l), l[m] # l[k] PROVE l[m] \in Range(r)
    <3>1. CASE m < k
      <4>1. m \in 1 .. Len(l) - 1 /\ r[m] = l[m]
        BY <1>1, <1>2, <3>1, SMTT(40)
      <4>2. QED
        BY <4>1, <1>d DEF Range
    <3>2. CASE ~ (m < k)
      <4>1. m # k
        BY <2>2
      <4>2. m - 1 \in 1 .. Len(l) - 1 /\ ~ (m - 1 < k) /\ (m - 1) + 1 = m
        BY <1>1, <3>2, <4>1
      <4>3. r[m - 1] = l[m]
        BY <1>2, <4>2
      <4>4. QED
        BY <4>2, <4>3, <1>d DEF Range
    <3>3. QED
      BY <3>1, <3>2
  <2>3. QED
    BY <2>1, <2>2 DEF Range
<1>11. QED
  BY <1>9, <1>10 DEF r

-----------------------------------------------------------------------------
(* Chains of a hash table                                                  *)

\* Each entry a of the table is on the list of its home, and C are the lists.
Chained(top, next, home, C) ==
  /\ DOMAIN next \subseteq Nat \ {0} /\ IsFiniteSet(DOMAIN next)
  /\ \A b \in DOMAIN top :
       IsList(top[b], next, C[b]) /\ Range(C[b]) = {a \in DOMAIN next : home[a] = b}
  /\ \A a \in DOMAIN next : home[a] \in DOMAIN top

LEMMA ChainIs ==
  ASSUME NEW top, NEW next, NEW home, NEW C, Chained(top, next, home, C), NEW b \in DOMAIN top
  PROVE  Follow(top[b], next) = C[b]
<1>1. 0 \notin DOMAIN next /\ IsFiniteSet(DOMAIN next) /\ IsList(top[b], next, C[b])
  BY DEF Chained
<1>2. QED
  BY <1>1, FollowIs

LEMMA ChainsGrow ==
  ASSUME NEW top, NEW next, NEW home, NEW C, Chained(top, next, home, C),
         NEW a \in Nat \ {0}, a \notin DOMAIN next, NEW b \in DOMAIN top,
         NEW top2, top2 = [top EXCEPT ![b] = a],
         NEW next2, DOMAIN next2 = {a} \cup DOMAIN next, next2[a] = top[b],
         NEW home2, home2[a] = b,
         \A x \in DOMAIN next : next2[x] = next[x] /\ home2[x] = home[x]
  PROVE  \E D : Chained(top2, next2, home2, D)
<1> DEFINE D == [c \in DOMAIN top |-> IF c = b THEN <<a>> \o C[b] ELSE C[c]]
<1>1. DOMAIN next2 \subseteq Nat \ {0} /\ IsFiniteSet(DOMAIN next2)
  BY FS_AddElement DEF Chained
<1>2. DOMAIN top2 = DOMAIN top /\ \A c \in DOMAIN top : top2[c] = IF c = b THEN a ELSE top[c]
  OBVIOUS
<1>3. ASSUME NEW c \in DOMAIN top
      PROVE  IsList(top2[c], next2, D[c]) /\ Range(D[c]) = {x \in DOMAIN next2 : home2[x] = c}
  <2>1. IsList(top[c], next, C[c]) /\ Range(C[c]) = {x \in DOMAIN next : home[x] = c}
    BY DEF Chained
  <2>2. \A x \in Range(C[c]) : x \in DOMAIN next2 /\ next2[x] = next[x]
    BY <2>1
  <2>3. {x \in DOMAIN next2 : home2[x] = c} = Range(C[c]) \cup (IF c = b THEN {a} ELSE {})
    BY <2>1
  <2>4. CASE c = b
    <3>1. a \notin Range(C[c])
      BY <2>1
    <3>2. IsList(a, next2, <<a>> \o C[c]) /\ Range(<<a>> \o C[c]) = Range(C[c]) \cup {a}
      BY <2>1, <2>2, <2>4, <3>1, ListPrepended
    <3>3. QED
      BY <1>2, <2>3, <2>4, <3>2
  <2>5. CASE c # b
    <3>1. IsList(top[c], next2, C[c])
      BY <2>1, <2>2, ListElsewhere
    <3>2. QED
      BY <1>2, <2>3, <2>5, <3>1
  <2>6. QED
    BY <2>4, <2>5
<1>4. \A x \in DOMAIN next2 : home2[x] \in DOMAIN top
  BY DEF Chained
<1> HIDE DEF D
<1>5. Chained(top2, next2, home2, D)
  BY <1>1, <1>2, <1>3, <1>4 DEF Chained
<1>6. QED
  BY <1>5

\* What leads to an entry is the one before it on its list, which it does not top.
LEMMA PlaceBefore ==
  ASSUME NEW top, NEW next, NEW home, NEW C, Chained(top, next, home, C),
         NEW a \in DOMAIN next, NEW x \in DOMAIN next, next[x] = a
  PROVE  /\ home[x] = home[a] /\ x \in Range(C[home[a]]) /\ top[home[a]] # a
         /\ \A k \in 1 .. Len(C[home[a]]) : C[home[a]][k] = a => k # 1 /\ C[home[a]][k - 1] = x
<1> DEFINE b == home[x]
           l == C[b]
<1>1. /\ b \in DOMAIN top /\ IsList(top[b], next, l)
      /\ Range(l) = {y \in DOMAIN next : home[y] = b} /\ a # 0
  BY DEF Chained
<1>2. l \in Seq(Nat \ {0}) /\ Len(l) \in Nat
  BY <1>1 DEF IsList
<1>d. DOMAIN l = 1 .. Len(l)
  BY <1>2
<1> HIDE DEF l, b
<1>3. PICK i \in 1 .. Len(l) : l[i] = x
  BY <1>1, <1>d DEF Range, b
<1>4. i # Len(l) /\ i + 1 \in 1 .. Len(l) /\ l[i + 1] = a
  BY <1>1, <1>2, <1>3 DEF IsList
<1>5. a \in Range(l) /\ x \in Range(l) /\ home[a] = b
  BY <1>1, <1>d, <1>3, <1>4 DEF Range
<1>6. \A k \in 1 .. Len(l) : l[k] = a => k = i + 1
  BY <1>1, <1>4 DEF IsList
<1>7. top[b] # a
  <2>1. top[b] = l[1] /\ 1 \in 1 .. Len(l) /\ 1 # i + 1
    BY <1>1, <1>2, <1>3 DEF IsList
  <2>2. QED
    BY <1>6, <2>1
<1>8. \A k \in 1 .. Len(l) : l[k] = a => k # 1 /\ l[k - 1] = x
  BY <1>3, <1>6
<1>9. QED
  BY <1>5, <1>7, <1>8 DEF b, l

LEMMA ChainsShrink ==
  ASSUME NEW top, NEW next, NEW home, NEW C, Chained(top, next, home, C),
         NEW a \in DOMAIN next, NEW b, b = home[a],
         NEW top2, top2 = IF top[b] = a THEN [top EXCEPT ![b] = next[a]] ELSE top,
         NEW next2, DOMAIN next2 = DOMAIN next \ {a}, NEW home2,
         \A x \in DOMAIN next2 : /\ next2[x] = IF next[x] = a THEN next[a] ELSE next[x]
                                 /\ home2[x] = home[x]
  PROVE  \E D : Chained(top2, next2, home2, D)
<1> DEFINE l == C[b]
<1>1. /\ b \in DOMAIN top /\ IsList(top[b], next, l)
      /\ Range(l) = {y \in DOMAIN next : home[y] = b} /\ a # 0
  BY DEF Chained
<1>2. l \in Seq(Nat \ {0}) /\ Len(l) \in Nat
  BY <1>1 DEF IsList
<1>d. DOMAIN l = 1 .. Len(l)
  BY <1>2
<1> HIDE DEF l
<1>3. PICK k \in 1 .. Len(l) : l[k] = a
  BY <1>1, <1>d DEF Range
<1> DEFINE D == [c \in DOMAIN top |-> IF c = b THEN Removed(l, k) ELSE C[c]]
<1>4. DOMAIN next2 \subseteq Nat \ {0} /\ IsFiniteSet(DOMAIN next2)
  BY FS_RemoveElement DEF Chained
<1>5. DOMAIN top2 = DOMAIN top /\ \A c \in DOMAIN top : c # b => top2[c] = top[c]
  OBVIOUS
<1>6. top2[b] = IF k = 1 THEN next[l[1]] ELSE top[b]
  <2>1. top[b] = l[1] /\ 1 \in 1 .. Len(l)
    BY <1>1, <1>2, <1>3 DEF IsList
  <2>2. top[b] = a <=> k = 1
    BY <1>1, <1>3, <2>1 DEF IsList
  <2>3. QED
    BY <1>1, <1>3, <2>2
<1>7. ASSUME NEW i \in 1 .. Len(l), i # k
      PROVE  l[i] \in DOMAIN next2 /\ next2[l[i]] = IF i = k - 1 THEN next[l[k]] ELSE next[l[i]]
  <2>1. l[i] \in DOMAIN next /\ l[i] # a /\ l[i] \in Range(l)
    BY <1>1, <1>d, <1>3, <1>7 DEF IsList, Range
  <2>2. l[i] \in DOMAIN next2
    BY <2>1
  <2>3. next[l[i]] = a <=> i = k - 1
    <3>1. next[l[i]] = IF i = Len(l) THEN 0 ELSE l[i + 1]
      BY <1>1 DEF IsList
    <3>2. i # Len(l) => i + 1 \in 1 .. Len(l)
      BY <1>2
    <3>3. i # Len(l) => (l[i + 1] = a <=> i + 1 = k)
      BY <1>1, <1>3, <3>2 DEF IsList
    <3>4. (i + 1 = k <=> i = k - 1) /\ (i = Len(l) => i # k - 1)
      BY <1>2
    <3>5. QED
      BY <1>1, <3>1, <3>3, <3>4
  <2>4. QED
    BY <1>3, <2>2, <2>3
<1>8. /\ IsList(top2[b], next2, Removed(l, k))
      /\ Range(Removed(l, k)) = Range(l) \ {a}
  BY <1>1, <1>3, <1>6, <1>7, ListRemoved
<1>9. ASSUME NEW c \in DOMAIN top
      PROVE  IsList(top2[c], next2, D[c]) /\ Range(D[c]) = {x \in DOMAIN next2 : home2[x] = c}
  <2>1. IsList(top[c], next, C[c]) /\ Range(C[c]) = {x \in DOMAIN next : home[x] = c}
    BY DEF Chained
  <2>2. CASE c = b
    <3>1. {x \in DOMAIN next2 : home2[x] = c} = Range(l) \ {a}
      BY <1>1, <2>2
    <3>2. QED
      BY <1>8, <2>2, <3>1
  <2>3. CASE c # b
    <3>1. a \notin Range(C[c])
      BY <2>1, <2>3
    <3>2. \A x \in Range(C[c]) : x \in DOMAIN next2 /\ next2[x] = next[x]
      <4>1. \A x \in Range(C[c]) : x \in DOMAIN next /\ home[x] # home[a]
        BY <2>1, <2>3
      <4>2. QED
        BY <3>1, <4>1, PlaceBefore
    <3>3. IsList(top[c], next2, C[c])
      BY <2>1, <3>2, ListElsewhere
    <3>4. {x \in DOMAIN next2 : home2[x] = c} = Range(C[c])
      BY <2>1, <3>1
    <3>5. QED
      BY <1>5, <2>3, <3>3, <3>4
  <2>4. QED
    BY <2>2, <2>3
<1>10. \A x \in DOMAIN next2 : home2[x] \in DOMAIN top
  BY DEF Chained
<1> HIDE DEF D
<1>11. Chained(top2, next2, home2, D)
  BY <1>4, <1>5, <1>9, <1>10 DEF Chained
<1>12. QED
  BY <1>11

(***************************************************************************)
(* Strings                                                                 *)
(***************************************************************************)

String == [content : Contents, extra : Nat, count : Nat, next : Nat]
Links(s) == [a \in DOMAIN s |-> s[a].next]
Homes(s) == [a \in DOMAIN s |-> Hash(s[a].content)]

\* The strings s are on the chains that bk heads, and no two are equal.
Stored(s, bk) ==
  /\ DOMAIN s \subseteq 1 .. MaxStrings /\ s \in [DOMAIN s -> String]
  /\ DOMAIN bk = 0 .. StrHashSize - 1
  /\ \E C : Chained(bk, Links(s), Homes(s), C)
  /\ \A a1, a2 \in DOMAIN s : s[a1].content = s[a2].content => a1 = a2

Holders(sf, a) == Cardinality({f \in Fields : sf[f] = a})
Users(s, a) == Cardinality({x \in DOMAIN s : s[x].extra = a})

\* The counts are right, but for the string at pin, if any, which is counted
\* once more.
Held(s, sf, pin) ==
  /\ sf \in [Fields -> DOMAIN s \cup {0}]
  /\ \A a \in DOMAIN s : s[a].count = Holders(sf, a) + Users(s, a) + (IF a = pin THEN 1 ELSE 0)
  /\ \A a \in DOMAIN s :
       IF HasLongExtra(s[a].content)
       THEN s[a].extra \in DOMAIN s /\ s[s[a].extra].content = Plain(s[a].content.extra)
       ELSE s[a].extra = 0

\* The state in which a call works has these four components.
IsState(d) == DOMAIN d = {"str", "bucket", "lost", "res"} /\ d = [x \in DOMAIN d |-> d[x]]
Sound(d, sf, pin) ==
  IsState(d) /\ Stored(d.str, d.bucket) /\ Held(d.str, sf, pin) /\ pin \in DOMAIN d.str \cup {0}

LEMMA StringsFinite ==
  ASSUME NEW s, NEW bk, Stored(s, bk)
  PROVE  /\ IsFiniteSet(DOMAIN s) /\ 0 \notin DOMAIN s /\ DOMAIN s \subseteq Nat
         /\ \A a \in DOMAIN s : s[a] \in String
<1>1. IsFiniteSet(1 .. MaxStrings)
  BY StringsAssumption, FS_Interval
<1>2. IsFiniteSet(DOMAIN s)
  BY <1>1, FS_Subset DEF Stored
<1>3. 0 \notin DOMAIN s /\ DOMAIN s \subseteq Nat
  BY StringsAssumption DEF Stored
<1>4. QED
  BY <1>2, <1>3 DEF Stored

LEMMA HoldersCount ==
  ASSUME NEW sf, NEW a
  PROVE  /\ IsFiniteSet({f \in Fields : sf[f] = a}) /\ Holders(sf, a) \in Nat
         /\ (Holders(sf, a) = 0 <=> {f \in Fields : sf[f] = a} = {})
<1>1. IsFiniteSet({f \in Fields : sf[f] = a})
  BY StringsAssumption, FS_Subset
<1>2. QED
  BY <1>1, FS_CardinalityType, FS_EmptySet DEF Holders

LEMMA UsersCount ==
  ASSUME NEW s, NEW a, IsFiniteSet(DOMAIN s)
  PROVE  /\ IsFiniteSet({x \in DOMAIN s : s[x].extra = a}) /\ Users(s, a) \in Nat
         /\ (Users(s, a) = 0 <=> {x \in DOMAIN s : s[x].extra = a} = {})
<1>1. IsFiniteSet({x \in DOMAIN s : s[x].extra = a})
  BY FS_Subset
<1>2. QED
  BY <1>1, FS_CardinalityType, FS_EmptySet DEF Users

LEMMA BucketFound ==
  ASSUME NEW d, Stored(d.str, d.bucket), NEW c \in Contents
  PROVE  IF \E a \in DOMAIN d.str : d.str[a].content = c
         THEN FindBucket(d, c) \in DOMAIN d.str /\ d.str[FindBucket(d, c)].content = c
         ELSE FindBucket(d, c) = 0
<1> DEFINE b == Hash(c)
           l == Chain(d, b)
           same == {n \in DOMAIN l : d.str[l[n]].content = c}
<1>1. b \in DOMAIN d.bucket
  BY StringsAssumption DEF Stored
<1>2. PICK C : Chained(d.bucket, Links(d.str), Homes(d.str), C)
  BY DEF Stored
<1>3. l = C[b]
  BY <1>1, <1>2, ChainIs DEF Chain, Links
<1>4. IsList(d.bucket[b], Links(d.str), l) /\ Range(l) = {a \in DOMAIN d.str : Hash(d.str[a].content) = b}
  <2>1. DOMAIN Links(d.str) = DOMAIN d.str /\ \A a \in DOMAIN d.str : Homes(d.str)[a] = Hash(d.str[a].content)
    BY DEF Links, Homes
  <2>2. IsList(d.bucket[b], Links(d.str), l) /\ Range(l) = {a \in DOMAIN Links(d.str) : Homes(d.str)[a] = b}
    BY <1>1, <1>2, <1>3 DEF Chained
  <2>3. QED
    BY <2>1, <2>2
<1>5. DOMAIN l \subseteq Nat
  BY <1>4 DEF IsList
<1> HIDE DEF l
<1>6. FindBucket(d, c) = IF same = {} THEN 0 ELSE l[Min(same)]
  BY DEF FindBucket, l
<1>7. CASE same = {}
  <2>1. \A a \in Range(l) : d.str[a].content # c
    BY <1>7 DEF Range
  <2>2. QED
    BY <1>4, <1>6, <1>7, <2>1
<1>8. CASE same # {}
  <2>1. Min(same) \in same
    BY <1>5, <1>8, MinIsLeast
  <2>2. l[Min(same)] \in Range(l) /\ d.str[l[Min(same)]].content = c
    BY <2>1 DEF Range
  <2> HIDE DEF same
  <2>3. QED
    BY <1>4, <1>6, <1>8, <2>2
<1>9. QED
  BY <1>7, <1>8

\* The counts are no part of the chains.
LEMMA Recounted ==
  ASSUME NEW s, NEW bk, Stored(s, bk), NEW a \in DOMAIN s, NEW n \in Nat,
         NEW s2, s2 = [s EXCEPT ![a].count = n]
  PROVE  /\ Stored(s2, bk) /\ DOMAIN s2 = DOMAIN s /\ s2[a].count = n
         /\ \A x \in DOMAIN s : /\ s2[x].content = s[x].content /\ s2[x].extra = s[x].extra
                                /\ x # a => s2[x].count = s[x].count
<1>1. \A x \in DOMAIN s : s[x] \in String
  BY StringsFinite
<1>2. DOMAIN s2 = DOMAIN s /\ s2 = [x \in DOMAIN s |-> s2[x]]
  OBVIOUS
<1>3. \A x \in DOMAIN s : x # a => s2[x] = s[x]
  OBVIOUS
<1>4. s2[a] = [s[a] EXCEPT !.count = n]
  OBVIOUS
<1>5. /\ s2[a] \in String /\ s2[a].content = s[a].content /\ s2[a].extra = s[a].extra
      /\ s2[a].next = s[a].next /\ s2[a].count = n
  BY <1>1, <1>4 DEF String
<1>6. Links(s2) = Links(s) /\ Homes(s2) = Homes(s)
  BY <1>2, <1>3, <1>5 DEF Links, Homes
<1>7. s2 \in [DOMAIN s2 -> String]
  BY <1>1, <1>2, <1>3, <1>5
<1>8. \A x \in DOMAIN s : s2[x].content = s[x].content
  BY <1>3, <1>5
<1>9. Stored(s2, bk)
  BY <1>2, <1>6, <1>7, <1>8 DEF Stored
<1>10. QED
  BY <1>2, <1>3, <1>5, <1>8, <1>9

LEMMA PinSet ==
  ASSUME NEW d, NEW sf, Sound(d, sf, 0), NEW a \in DOMAIN d.str \cup {0}
  PROVE  /\ Sound(Retain(d, a), sf, a) /\ DOMAIN Retain(d, a).str = DOMAIN d.str
         /\ \A x \in DOMAIN d.str : Retain(d, a).str[x].content = d.str[x].content
<1>1. CASE a = 0
  <2>1. Retain(d, a) = d
    BY <1>1 DEF Retain
  <2>2. QED
    BY <1>1, <2>1
<1>2. CASE a # 0
  <2> DEFINE e == Retain(d, a)
             s == d.str
  <2>1. IsState(e) /\ e.str = [s EXCEPT ![a].count = @ + 1] /\ e.bucket = d.bucket
    BY <1>2 DEF Retain, IsState, Sound
  <2>2. a \in DOMAIN s /\ Stored(s, d.bucket) /\ Held(s, sf, 0)
    BY <1>2 DEF Sound
  <2>3. s[a].count \in Nat /\ 0 \notin DOMAIN s
    BY <2>2, StringsFinite DEF String
  <2>4. e.str = [s EXCEPT ![a].count = s[a].count + 1] /\ s[a].count + 1 \in Nat
    BY <2>1, <2>3
  <2> HIDE DEF e, s
  <2>5. /\ Stored(e.str, e.bucket) /\ DOMAIN e.str = DOMAIN s /\ e.str[a].count = s[a].count + 1
        /\ \A x \in DOMAIN s : /\ e.str[x].content = s[x].content /\ e.str[x].extra = s[x].extra
                               /\ x # a => e.str[x].count = s[x].count
    BY <2>1, <2>2, <2>4, Recounted
  <2>6. Held(e.str, sf, a)
    <3>1. \A x \in DOMAIN s : Users(e.str, x) = Users(s, x)
      <4>1. \A x : {y \in DOMAIN e.str : e.str[y].extra = x} = {y \in DOMAIN s : s[y].extra = x}
        BY <2>5
      <4>2. QED
        BY <4>1 DEF Users
    <3>2. \A x \in DOMAIN s : Users(s, x) \in Nat /\ Holders(sf, x) \in Nat
      BY <2>2, StringsFinite, UsersCount, HoldersCount
    <3>3. \A x \in DOMAIN s : e.str[x].count = Holders(sf, x) + Users(e.str, x) + (IF x = a THEN 1 ELSE 0)
      BY <2>2, <2>3, <2>5, <3>1, <3>2 DEF Held
    <3>4. QED
      BY <2>2, <2>5, <3>3 DEF Held
  <2>7. QED
    BY <2>1, <2>2, <2>5, <2>6 DEF Sound, e, s
<1>3. QED
  BY <1>1, <1>2

LEMMA PinDropped ==
  ASSUME NEW d, NEW sf, NEW a \in DOMAIN d.str, Sound(d, sf, a), d.str[a].count > 1
  PROVE  Sound([d EXCEPT !.str[a].count = @ - 1], sf, 0)
<1> DEFINE e == [d EXCEPT !.str[a].count = @ - 1]
           s == d.str
<1>1. IsState(e) /\ e.str = [s EXCEPT ![a].count = @ - 1] /\ e.bucket = d.bucket
  BY DEF IsState, Sound
<1>2. Stored(s, d.bucket) /\ Held(s, sf, a)
  BY DEF Sound
<1>3. s[a].count \in Nat /\ 0 \notin DOMAIN s
  BY <1>2, StringsFinite DEF String
<1>4. e.str = [s EXCEPT ![a].count = s[a].count - 1] /\ s[a].count - 1 \in Nat
  BY <1>1, <1>3
<1> HIDE DEF e, s
<1>5. /\ Stored(e.str, e.bucket) /\ DOMAIN e.str = DOMAIN s /\ e.str[a].count = s[a].count - 1
      /\ \A x \in DOMAIN s : /\ e.str[x].content = s[x].content /\ e.str[x].extra = s[x].extra
                             /\ x # a => e.str[x].count = s[x].count
  BY <1>1, <1>2, <1>4, Recounted DEF s
<1>6. Held(e.str, sf, 0)
  <2>1. \A x \in DOMAIN s : Users(e.str, x) = Users(s, x)
    <3>1. \A x : {y \in DOMAIN e.str : e.str[y].extra = x} = {y \in DOMAIN s : s[y].extra = x}
      BY <1>5
    <3>2. QED
      BY <3>1 DEF Users
  <2>2. \A x \in DOMAIN s : Users(s, x) \in Nat /\ Holders(sf, x) \in Nat
    BY <1>2, StringsFinite, UsersCount, HoldersCount
  <2>3. \A x \in DOMAIN s : e.str[x].count = Holders(sf, x) + Users(e.str, x) + (IF x = 0 THEN 1 ELSE 0)
    BY <1>2, <1>3, <1>5, <2>1, <2>2 DEF Held
  <2>4. QED
    BY <1>2, <1>5, <2>3 DEF Held
<1>7. QED
  BY <1>1, <1>5, <1>6 DEF Sound, e

\* A field takes the string at a instead of the one it had.
LEMMA FieldMoved ==
  ASSUME NEW s, NEW sf, NEW a \in DOMAIN s \cup {0}, Held(s, sf, a), 0 \notin DOMAIN s,
         IsFiniteSet(DOMAIN s), NEW f \in Fields, sf[f] # a
  PROVE  Held(s, [sf EXCEPT ![f] = a], sf[f])
<1> DEFINE g == [sf EXCEPT ![f] = a]
<1>1. sf \in [Fields -> DOMAIN s \cup {0}] /\ g \in [Fields -> DOMAIN s \cup {0}]
      /\ g[f] = a /\ \A h \in Fields : h # f => g[h] = sf[h]
  BY DEF Held
<1> HIDE DEF g
<1>2. ASSUME NEW x \in DOMAIN s
      PROVE  Holders(g, x) + (IF x = sf[f] THEN 1 ELSE 0) = Holders(sf, x) + (IF x = a THEN 1 ELSE 0)
  <2> DEFINE S == {h \in Fields : sf[h] = x}
             T == {h \in Fields : g[h] = x}
  <2>1. IsFiniteSet(S) /\ Cardinality(S) \in Nat /\ Cardinality(S) = Holders(sf, x) /\ Cardinality(T) = Holders(g, x)
    BY HoldersCount DEF Holders
  <2>2. CASE x = a
    <3>1. T = S \cup {f} /\ f \notin S /\ x # sf[f]
      BY <1>1, <2>2
    <3> HIDE DEF S, T
    <3>2. Cardinality(S \cup {f}) = Cardinality(S) + 1
      BY <2>1, <3>1, FS_AddElement
    <3>3. QED
      BY <2>1, <2>2, <3>1, <3>2
  <2>3. CASE x = sf[f]
    <3>1. T = S \ {f} /\ f \in S /\ x # a
      BY <1>1, <2>3
    <3> HIDE DEF S, T
    <3>2. Cardinality(S \ {f}) = Cardinality(S) - 1
      BY <2>1, <3>1, FS_RemoveElement
    <3>3. QED
      BY <2>1, <2>3, <3>1, <3>2
  <2>4. CASE x # a /\ x # sf[f]
    <3>1. T = S
      BY <1>1, <2>4
    <3>2. QED
      BY <2>1, <2>4, <3>1
  <2>5. QED
    BY <2>2, <2>3, <2>4
<1>3. ASSUME NEW x \in DOMAIN s
      PROVE  s[x].count = Holders(g, x) + Users(s, x) + (IF x = sf[f] THEN 1 ELSE 0)
  <2>1. s[x].count = Holders(sf, x) + Users(s, x) + (IF x = a THEN 1 ELSE 0)
    BY DEF Held
  <2>2. Holders(sf, x) \in Nat /\ Holders(g, x) \in Nat /\ Users(s, x) \in Nat
    BY HoldersCount, UsersCount
  <2>3. QED
    BY <1>2, <2>1, <2>2
<1>4. QED
  BY <1>1, <1>3 DEF Held, g

\* A new string goes to the front of its chain.
LEMMA Prepended ==
  ASSUME NEW d, IsState(d), Stored(d.str, d.bucket), NEW a \in 1 .. MaxStrings, a \notin DOMAIN d.str,
         NEW c \in Contents, \A x \in DOMAIN d.str : d.str[x].content # c, NEW extra \in Nat,
         NEW e, e = Prepend(d, a, c, extra, d.bucket[Hash(c)])
  PROVE  /\ IsState(e) /\ Stored(e.str, e.bucket) /\ e.res = a /\ e.lost = d.lost
         /\ DOMAIN e.str = {a} \cup DOMAIN d.str
         /\ e.str[a].content = c /\ e.str[a].extra = extra /\ e.str[a].count = 0
         /\ \A x \in DOMAIN d.str : e.str[x] = d.str[x]
         /\ \A b \in DOMAIN d.bucket : b # Hash(c) => e.bucket[b] = d.bucket[b]
<1> DEFINE s == d.str
           b == Hash(c)
           new == [content |-> c, extra |-> extra, count |-> 0, next |-> d.bucket[b]]
<1>1. /\ IsState(e) /\ e.res = a /\ e.lost = d.lost /\ e.bucket = [d.bucket EXCEPT ![b] = a]
      /\ e.str = [x \in {a} \cup DOMAIN s |-> IF x = a THEN new ELSE s[x]]
  BY DEF Prepend, IsState
<1>2. DOMAIN e.str = {a} \cup DOMAIN s /\ e.str[a] = new /\ \A x \in DOMAIN s : e.str[x] = s[x]
  BY <1>1
<1>3. b \in DOMAIN d.bucket /\ DOMAIN d.bucket = 0 .. StrHashSize - 1
  BY StringsAssumption DEF Stored
<1>4. PICK C : Chained(d.bucket, Links(s), Homes(s), C)
  BY DEF Stored
<1> HIDE DEF s
<1>5. d.bucket[b] \in Nat
  <2>1. IsList(d.bucket[b], Links(s), C[b])
    BY <1>3, <1>4 DEF Chained
  <2>2. QED
    BY <2>1 DEF IsList
<1>6. new \in String
  BY <1>5 DEF String
<1>7. e.str \in [DOMAIN e.str -> String] /\ DOMAIN e.str \subseteq 1 .. MaxStrings
  <2>1. \A x \in DOMAIN s : s[x] \in String
    BY StringsFinite DEF s
  <2>2. DOMAIN s \subseteq 1 .. MaxStrings
    BY DEF Stored, s
  <2> HIDE DEF new
  <2>3. QED
    BY <1>1, <1>2, <1>6, <2>1, <2>2
<1>8. \E D : Chained(e.bucket, Links(e.str), Homes(e.str), D)
  <2>1. a \in Nat \ {0} /\ DOMAIN Links(s) = DOMAIN s /\ a \notin DOMAIN Links(s)
    BY StringsAssumption DEF Links, s
  <2>2. DOMAIN Links(e.str) = {a} \cup DOMAIN Links(s) /\ Links(e.str)[a] = d.bucket[b] /\ Homes(e.str)[a] = b
    BY <1>2 DEF Links, Homes
  <2>3. \A x \in DOMAIN Links(s) : Links(e.str)[x] = Links(s)[x] /\ Homes(e.str)[x] = Homes(s)[x]
    BY <1>2 DEF Links, Homes
  <2>4. e.bucket = [d.bucket EXCEPT ![b] = a] /\ b \in DOMAIN d.bucket
    BY <1>1, <1>3
  <2> HIDE DEF b
  <2>5. QED
    BY <1>4, <2>1, <2>2, <2>3, <2>4, ChainsGrow
<1>9. \A x, y \in DOMAIN e.str : e.str[x].content = e.str[y].content => x = y
  <2>1. \A x, y \in DOMAIN s : s[x].content = s[y].content => x = y
    BY DEF Stored, s
  <2>2. \A x \in DOMAIN s : s[x].content # c
    BY DEF s
  <2>3. QED
    BY <1>2, <2>1, <2>2
<1>10. Stored(e.str, e.bucket)
  BY <1>1, <1>3, <1>7, <1>8, <1>9 DEF Stored
<1>11. QED
  BY <1>1, <1>2, <1>10 DEF s

\* An extra string that was counted beforehand is counted for the new string now.
LEMMA AddedHeld ==
  ASSUME NEW s, NEW sf, NEW pin, Held(s, sf, pin), IsFiniteSet(DOMAIN s),
         NEW a, a \notin DOMAIN s, a # 0, 0 \notin DOMAIN s,
         NEW s2, DOMAIN s2 = {a} \cup DOMAIN s, \A x \in DOMAIN s : s2[x] = s[x],
         s2[a].count = 0,
         IF HasLongExtra(s2[a].content)
         THEN /\ s2[a].extra = pin /\ pin \in DOMAIN s
              /\ s[pin].content = Plain(s2[a].content.extra)
         ELSE s2[a].extra = 0 /\ pin = 0
  PROVE  Held(s2, sf, 0)
<1>1. sf \in [Fields -> DOMAIN s2 \cup {0}]
  BY DEF Held
<1>2. IsFiniteSet(DOMAIN s2)
  BY FS_AddElement
<1>3. \A x \in DOMAIN s : s[x].extra \in DOMAIN s \cup {0}
  BY DEF Held
<1>4. ASSUME NEW x \in DOMAIN s2
      PROVE  s2[x].count = Holders(sf, x) + Users(s2, x) + (IF x = 0 THEN 1 ELSE 0)
  <2> DEFINE S == {y \in DOMAIN s : s[y].extra = x}
             T == {y \in DOMAIN s2 : s2[y].extra = x}
  <2>1. /\ IsFiniteSet(S) /\ Cardinality(S) = Users(s, x) /\ Users(s, x) \in Nat
        /\ Cardinality(T) = Users(s2, x) /\ x # 0 /\ Holders(sf, x) \in Nat
    <3>1. Cardinality(S) = Users(s, x) /\ Cardinality(T) = Users(s2, x)
      BY DEF Users
    <3>2. IsFiniteSet(S) /\ Users(s, x) \in Nat
      BY UsersCount
    <3>3. Holders(sf, x) \in Nat
      BY HoldersCount
    <3>4. x # 0
      OBVIOUS
    <3>5. QED
      BY <3>1, <3>2, <3>3, <3>4
  <2>2. CASE x = a
    <3>1. T = {}
      <4>1. s2[a].extra # a
        BY DEF Held
      <4>2. QED
        BY <1>3, <2>2, <4>1
    <3>2. {f \in Fields : sf[f] = x} = {}
      BY <2>2 DEF Held
    <3>3. Holders(sf, x) = 0 /\ Users(s2, x) = 0
      BY <2>1, <3>1, <3>2, HoldersCount, FS_EmptySet
    <3>4. QED
      BY <2>1, <2>2, <3>3
  <2>3. CASE x # a
    <3>1. x \in DOMAIN s /\ s2[x] = s[x]
      BY <2>3
    <3>2. s[x].count = Holders(sf, x) + Users(s, x) + (IF x = pin THEN 1 ELSE 0)
      BY <3>1 DEF Held
    <3>3. CASE x = pin
      <4>1. T = S \cup {a} /\ a \notin S
        BY <3>3, <2>1
      <4> HIDE DEF S, T
      <4>2. Cardinality(T) = Cardinality(S) + 1
        BY <2>1, <4>1, FS_AddElement
      <4>3. QED
        BY <2>1, <3>1, <3>2, <3>3, <4>2
    <3>4. CASE x # pin
      <4>1. T = S
        BY <3>4, <2>1
      <4>2. QED
        BY <2>1, <3>1, <3>2, <3>4, <4>1
    <3>5. QED
      BY <3>3, <3>4
  <2>4. QED
    BY <2>2, <2>3
<1>5. ASSUME NEW x \in DOMAIN s2
      PROVE  IF HasLongExtra(s2[x].content)
             THEN s2[x].extra \in DOMAIN s2 /\ s2[s2[x].extra].content = Plain(s2[x].content.extra)
             ELSE s2[x].extra = 0
  <2>1. CASE x = a
    BY <2>1
  <2>2. CASE x # a
    <3>1. x \in DOMAIN s /\ s2[x] = s[x]
      BY <2>2
    <3>2. QED
      BY <3>1 DEF Held
  <2>3. QED
    BY <2>1, <2>2
<1>6. QED
  BY <1>1, <1>4, <1>5 DEF Held

\* A string leaves its chain and its space.
LEMMA Unlinked ==
  ASSUME NEW d, IsState(d), Stored(d.str, d.bucket), NEW a \in DOMAIN d.str,
         NEW e, e = FreeString(d, a)
  PROVE  /\ IsState(e) /\ Stored(e.str, e.bucket) /\ DOMAIN e.str = DOMAIN d.str \ {a}
         /\ \A x \in DOMAIN e.str : /\ e.str[x].content = d.str[x].content
                                    /\ e.str[x].extra = d.str[x].extra
                                    /\ e.str[x].count = d.str[x].count
<1> DEFINE s == d.str
           b == Hash(s[a].content)
           near == {x \in Range(Chain(d, b)) : s[x].next = a}
           Relinked(x) == IF s[x].next = a THEN [s[x] EXCEPT !.next = s[a].next] ELSE s[x]
<1>1. \A x \in DOMAIN s : s[x] \in String
  BY StringsFinite
<1>2. PICK C : Chained(d.bucket, Links(s), Homes(s), C)
  BY DEF Stored
<1>3. /\ DOMAIN Links(s) = DOMAIN s /\ DOMAIN Homes(s) = DOMAIN s
      /\ \A x \in DOMAIN s : Links(s)[x] = s[x].next /\ Homes(s)[x] = Hash(s[x].content)
  BY DEF Links, Homes
<1>4. b \in DOMAIN d.bucket /\ Homes(s)[a] = b
  BY <1>1, <1>3, StringsAssumption DEF Stored, String
<1>5. Chain(d, b) = C[b]
  BY <1>2, <1>4, ChainIs DEF Chain, Links
<1>6. \A x \in DOMAIN s : s[x].next = a => x \in near /\ d.bucket[b] # a
  <2> HIDE DEF s, b
  <2>1. \A x \in DOMAIN s : Links(s)[x] = a => x \in Range(C[b]) /\ d.bucket[b] # a
    <3>1. a \in DOMAIN Links(s)
      BY <1>3 DEF s
    <3>2. QED
      BY <1>2, <1>3, <1>4, <3>1, PlaceBefore
  <2>2. QED
    BY <1>3, <1>5, <2>1
<1>7. /\ IsState(e) /\ DOMAIN e.str = DOMAIN s \ {a} /\ e.str = [x \in DOMAIN s \ {a} |-> e.str[x]]
      /\ e.bucket = (IF d.bucket[b] = a THEN [d.bucket EXCEPT ![b] = s[a].next] ELSE d.bucket)
      /\ \A x \in DOMAIN s \ {a} : e.str[x] = Relinked(x)
  <2>1. CASE d.bucket[b] = a
    <3> DEFINE g == [d EXCEPT !.bucket[b] = s[a].next]
    <3>1. e = [g EXCEPT !.str = Restrict(@, DOMAIN @ \ {a})]
      BY <2>1 DEF FreeString, RemoveFromHash
    <3>2. IsState(g) /\ g.bucket = [d.bucket EXCEPT ![b] = s[a].next] /\ g.str = s
      BY DEF IsState
    <3> HIDE DEF g
    <3>3. IsState(e) /\ e.bucket = g.bucket /\ e.str = Restrict(g.str, DOMAIN g.str \ {a})
      BY <3>1, <3>2 DEF IsState
    <3>4. /\ IsState(e) /\ e.bucket = [d.bucket EXCEPT ![b] = s[a].next]
          /\ e.str = [x \in DOMAIN s \ {a} |-> s[x]]
      BY <3>2, <3>3 DEF Restrict
    <3>5. QED
      BY <1>6, <2>1, <3>4
  <2>2. CASE d.bucket[b] # a
    <3> DEFINE r == [x \in DOMAIN s |-> IF x \in near THEN [s[x] EXCEPT !.next = s[a].next] ELSE s[x]]
               g == [d EXCEPT !.str = r]
    <3>1. e = [g EXCEPT !.str = Restrict(@, DOMAIN @ \ {a})]
      BY <2>2 DEF FreeString, RemoveFromHash, IsState
    <3>2. DOMAIN r = DOMAIN s
      OBVIOUS
    <3> HIDE DEF r
    <3>3. IsState(g) /\ g.bucket = d.bucket /\ g.str = r
      BY DEF IsState
    <3> HIDE DEF g
    <3>4. IsState(e) /\ e.bucket = g.bucket /\ e.str = Restrict(g.str, DOMAIN g.str \ {a})
      BY <3>1, <3>3 DEF IsState
    <3>5. /\ IsState(e) /\ e.bucket = d.bucket /\ e.str = [x \in DOMAIN s \ {a} |-> r[x]]
      BY <3>2, <3>3, <3>4 DEF Restrict
    <3>6. \A x \in DOMAIN s : x \in near <=> s[x].next = a
      BY <1>6
    <3>7. \A x \in DOMAIN s : r[x] = Relinked(x)
      <4> HIDE DEF near
      <4>1. QED
        BY <3>6 DEF r
    <3>8. QED
      BY <2>2, <3>5, <3>7
  <2>3. QED
    BY <2>1, <2>2
<1>8. ASSUME NEW x \in DOMAIN s
      PROVE  /\ Relinked(x) \in String /\ Relinked(x).content = s[x].content
             /\ Relinked(x).extra = s[x].extra /\ Relinked(x).count = s[x].count
             /\ Relinked(x).next = IF s[x].next = a THEN s[a].next ELSE s[x].next
  BY <1>1 DEF String
<1> HIDE DEF s, b, near, Relinked
<1>9. e.str \in [DOMAIN e.str -> String] /\ DOMAIN e.str \subseteq 1 .. MaxStrings
  <2>1. DOMAIN s \subseteq 1 .. MaxStrings
    BY DEF Stored, s
  <2>2. QED
    BY <1>7, <1>8, <2>1
<1>10. \E D : Chained(e.bucket, Links(e.str), Homes(e.str), D)
  <2>1. a \in DOMAIN Links(s) /\ DOMAIN Links(e.str) = DOMAIN Links(s) \ {a}
    BY <1>3, <1>7 DEF Links, s
  <2>2. ASSUME NEW x \in DOMAIN Links(e.str)
        PROVE  /\ Links(e.str)[x] = IF Links(s)[x] = a THEN Links(s)[a] ELSE Links(s)[x]
               /\ Homes(e.str)[x] = Homes(s)[x]
    <3>0. DOMAIN Links(e.str) = DOMAIN e.str /\ DOMAIN Links(s) = DOMAIN s
      BY DEF Links
    <3>1. x \in DOMAIN e.str /\ x \in DOMAIN s /\ a \in DOMAIN s
      BY <2>1, <3>0
    <3>2. Links(e.str)[x] = e.str[x].next /\ Links(s)[x] = s[x].next /\ Links(s)[a] = s[a].next
      BY <3>1 DEF Links
    <3>3. Homes(e.str)[x] = Hash(e.str[x].content) /\ Homes(s)[x] = Hash(s[x].content)
      BY <3>1 DEF Homes
    <3>4. QED
      BY <1>7, <1>8, <3>1, <3>2, <3>3
  <2>3. e.bucket = IF d.bucket[b] = a THEN [d.bucket EXCEPT ![b] = Links(s)[a]] ELSE d.bucket
    BY <1>3, <1>7 DEF s
  <2>4. b = Homes(s)[a]
    BY <1>4
  <2>5. QED
    BY <1>2, <2>1, <2>2, <2>3, <2>4, ChainsShrink
<1>11. \A x, y \in DOMAIN e.str : e.str[x].content = e.str[y].content => x = y
  <2>1. \A x, y \in DOMAIN s : s[x].content = s[y].content => x = y
    BY DEF Stored, s
  <2>2. QED
    BY <1>7, <1>8, <2>1
<1>12. DOMAIN e.bucket = 0 .. StrHashSize - 1
  <2>1. DOMAIN d.bucket = 0 .. StrHashSize - 1
    BY DEF Stored
  <2>2. QED
    BY <1>7, <2>1
<1>13. Stored(e.str, e.bucket)
  BY <1>9, <1>10, <1>11, <1>12 DEF Stored
<1>14. \A x \in DOMAIN e.str : /\ e.str[x].content = s[x].content
                                /\ e.str[x].extra = s[x].extra /\ e.str[x].count = s[x].count
  <2>1. \A x \in DOMAIN e.str : x \in DOMAIN s /\ e.str[x] = Relinked(x)
    BY <1>7
  <2>2. QED
    BY <1>8, <2>1
<1>15. QED
  BY <1>7, <1>13, <1>14 DEF s

\* The string that goes was counted once, for nobody; its extra string is
\* counted once more now.
LEMMA FreedIsSound ==
  ASSUME NEW d, NEW sf, NEW a \in DOMAIN d.str, Sound(d, sf, a), ~ (d.str[a].count > 1)
  PROVE  /\ Sound(FreeString(d, a), sf, d.str[a].extra)
         /\ d.str[a].extra # 0 =>
              ~ HasLongExtra(FreeString(d, a).str[d.str[a].extra].content)
<1> DEFINE e == FreeString(d, a)
           s == d.str
           p == s[a].extra
<1>1. IsState(d) /\ Stored(s, d.bucket) /\ Held(s, sf, a)
  BY DEF Sound
<1>2. /\ IsState(e) /\ Stored(e.str, e.bucket) /\ DOMAIN e.str = DOMAIN s \ {a}
      /\ \A x \in DOMAIN e.str : /\ e.str[x].content = s[x].content
                                 /\ e.str[x].extra = s[x].extra
                                 /\ e.str[x].count = s[x].count
  BY <1>1, Unlinked
<1>3. IsFiniteSet(DOMAIN s) /\ 0 \notin DOMAIN s
  BY <1>1, StringsFinite
<1>4. Holders(sf, a) = 0 /\ Users(s, a) = 0
  <2>1. s[a].count = Holders(sf, a) + Users(s, a) + 1
    BY <1>1 DEF Held
  <2>2. Holders(sf, a) \in Nat /\ Users(s, a) \in Nat
    BY <1>3, HoldersCount, UsersCount
  <2>3. QED
    BY <2>1, <2>2
<1> HIDE DEF e, s, p
<1>5. /\ \A f \in Fields : sf[f] # a
      /\ \A x \in DOMAIN s : s[x].extra # a
  BY <1>3, <1>4, HoldersCount, UsersCount
<1>6. a \in DOMAIN s /\ p = s[a].extra
  BY DEF s, p
<1>7. \A x \in DOMAIN s :
        IF HasLongExtra(s[x].content)
        THEN s[x].extra \in DOMAIN s /\ s[s[x].extra].content = Plain(s[x].content.extra)
        ELSE s[x].extra = 0
  BY <1>1 DEF Held
<1>8. p # 0 => p \in DOMAIN e.str /\ ~ HasLongExtra(e.str[p].content)
  <2>1. p # 0 => p \in DOMAIN s /\ s[p].content = Plain(s[a].content.extra) /\ p # a
    BY <1>5, <1>6, <1>7
  <2>2. \A t : ~ HasLongExtra(Plain(t))
    BY StringsAssumption DEF HasLongExtra, Plain
  <2>3. QED
    BY <1>2, <2>1, <2>2
<1>9. ASSUME NEW x \in DOMAIN e.str
      PROVE  e.str[x].count = Holders(sf, x) + Users(e.str, x) + (IF x = p THEN 1 ELSE 0)
  <2> DEFINE S == {y \in DOMAIN s : s[y].extra = x}
             T == {y \in DOMAIN e.str : e.str[y].extra = x}
  <2>1. x \in DOMAIN s /\ x # a /\ e.str[x].count = s[x].count
    BY <1>2
  <2>2. s[x].count = Holders(sf, x) + Users(s, x)
    <3>1. s[x].count = Holders(sf, x) + Users(s, x) + 0
      BY <1>1, <2>1 DEF Held
    <3>2. Holders(sf, x) \in Nat
      BY HoldersCount
    <3>3. Users(s, x) \in Nat
      BY <1>3, UsersCount
    <3>4. QED
      BY <3>1, <3>2, <3>3
  <2>3. Cardinality(S) = Users(s, x) /\ Cardinality(T) = Users(e.str, x)
    BY DEF Users
  <2>4. IsFiniteSet(S) /\ Users(s, x) \in Nat
    BY <1>3, UsersCount
  <2>5. Holders(sf, x) \in Nat
    BY HoldersCount
  <2>6. T = S \ {a} /\ (a \in S <=> x = p)
    BY <1>2, <1>6
  <2> HIDE DEF S, T
  <2>7. Cardinality(T) = IF x = p THEN Cardinality(S) - 1 ELSE Cardinality(S)
    BY <2>4, <2>6, FS_RemoveElement
  <2>8. QED
    BY <2>1, <2>2, <2>3, <2>4, <2>5, <2>7
<1>10. Held(e.str, sf, p)
  <2>1. sf \in [Fields -> DOMAIN e.str \cup {0}]
    <3>1. sf \in [Fields -> DOMAIN s \cup {0}]
      BY <1>1 DEF Held
    <3>2. QED
      BY <1>2, <1>5, <3>1
  <2>2. ASSUME NEW x \in DOMAIN e.str
        PROVE  IF HasLongExtra(e.str[x].content)
               THEN e.str[x].extra \in DOMAIN e.str /\ e.str[e.str[x].extra].content = Plain(e.str[x].content.extra)
               ELSE e.str[x].extra = 0
    BY <1>2, <1>5, <1>7
  <2>3. QED
    BY <1>9, <2>1, <2>2 DEF Held
<1>11. QED
  BY <1>2, <1>8, <1>10 DEF Sound, e, s, p

LEMMA PlainReleased ==
  ASSUME NEW d, NEW sf, NEW a, Sound(d, sf, a), a # 0 => ~ HasLongExtra(d.str[a].content)
  PROVE  Sound(ReleasePlain(d, a), sf, 0)
<1>1. CASE a = 0
  BY <1>1 DEF ReleasePlain
<1>2. CASE a # 0 /\ d.str[a].count > 1
  <2>1. a \in DOMAIN d.str
    BY <1>2 DEF Sound
  <2>2. QED
    BY <1>2, <2>1, PinDropped DEF ReleasePlain
<1>3. CASE a # 0 /\ ~ (d.str[a].count > 1)
  <2>1. a \in DOMAIN d.str
    BY <1>3 DEF Sound
  <2>2. d.str[a].extra = 0
    BY <1>3, <2>1 DEF Sound, Held
  <2>3. QED
    BY <1>3, <2>1, <2>2, FreedIsSound DEF ReleasePlain
<1>4. QED
  BY <1>1, <1>2, <1>3

LEMMA Released ==
  ASSUME NEW d, NEW sf, NEW a, Sound(d, sf, a)
  PROVE  Sound(Release(d, a), sf, 0)
<1>1. CASE a = 0
  <2>1. Release(d, a) = d
    BY <1>1 DEF Release, ReleasePlain
  <2>2. QED
    BY <1>1, <2>1
<1>2. CASE a # 0
  <2>1. a \in DOMAIN d.str
    BY <1>2 DEF Sound
  <2>2. CASE d.str[a].count > 1
    <3>1. Release(d, a) = [d EXCEPT !.str[a].count = @ - 1]
      BY <1>2, <2>2 DEF Release, ReleasePlain
    <3>2. QED
      BY <2>1, <2>2, <3>1, PinDropped
  <2>3. CASE ~ (d.str[a].count > 1)
    <3>1. Release(d, a) = ReleasePlain(FreeString(d, a), d.str[a].extra)
      BY <1>2, <2>3 DEF Release
    <3>2. /\ Sound(FreeString(d, a), sf, d.str[a].extra)
          /\ d.str[a].extra # 0 => ~ HasLongExtra(FreeString(d, a).str[d.str[a].extra].content)
      BY <2>1, <2>3, FreedIsSound
    <3>3. QED
      BY <3>1, <3>2, PlainReleased
  <2>4. QED
    BY <2>2, <2>3
<1>3. QED
  BY <1>1, <1>2

LEMMA ResultSet ==
  ASSUME NEW d, NEW sf, NEW pin, Sound(d, sf, pin), NEW r
  PROVE  /\ Sound([d EXCEPT !.res = r], sf, pin)
         /\ [d EXCEPT !.res = r].res = r /\ [d EXCEPT !.res = r].str = d.str
         /\ [d EXCEPT !.res = r].bucket = d.bucket
BY DEF Sound, IsState

LEMMA LostSet ==
  ASSUME NEW d, NEW sf, NEW pin, Sound(d, sf, pin), NEW lo
  PROVE  /\ Sound([d EXCEPT !.lost = lo], sf, pin)
         /\ [d EXCEPT !.lost = lo].lost = lo /\ [d EXCEPT !.lost = lo].str = d.str
         /\ [d EXCEPT !.lost = lo].bucket = d.bucket
BY DEF Sound, IsState

LEMMA AddressIsNew ==
  ASSUME NEW d, StrRoom(d) # {}
  PROVE  NewAddress(d) \in 1 .. MaxStrings /\ NewAddress(d) \notin DOMAIN d.str /\ NewAddress(d) \notin d.lost
BY DEF NewAddress, StrRoom

\* A string that needs no extra string is found or made.
LEMMA Created ==
  ASSUME NEW d, NEW sf, Sound(d, sf, 0), NEW c \in Contents, ~ HasLongExtra(c),
         NEW e, e = Create(d, c)
  PROVE  /\ Sound(e, sf, 0)
         /\ e.res # 0 => e.res \in DOMAIN e.str /\ e.str[e.res].content = c
         /\ \A x \in DOMAIN e.str : x \in DOMAIN d.str \/ x \in StrRoom(d)
         /\ \A x \in DOMAIN e.str : e.str[x].content = c \/ \E y \in DOMAIN d.str : d.str[y].content = e.str[x].content
         /\ \A b \in DOMAIN d.bucket : b # Hash(c) => e.bucket[b] = d.bucket[b]
<1>1. IF \E a \in DOMAIN d.str : d.str[a].content = c
      THEN FindBucket(d, c) \in DOMAIN d.str /\ d.str[FindBucket(d, c)].content = c
      ELSE FindBucket(d, c) = 0
  BY BucketFound DEF Sound
<1>2. CASE FindBucket(d, c) # 0
  <2>1. e = [d EXCEPT !.res = FindBucket(d, c)]
    BY <1>2 DEF Create
  <2>2. Sound(e, sf, 0) /\ e.res = FindBucket(d, c) /\ e.str = d.str /\ e.bucket = d.bucket
    BY <2>1, ResultSet
  <2>3. QED
    BY <1>1, <1>2, <2>2
<1>3. CASE FindBucket(d, c) = 0 /\ StrRoom(d) = {}
  <2>1. e = [d EXCEPT !.res = 0]
    BY <1>3 DEF Create
  <2>2. Sound(e, sf, 0) /\ e.res = 0 /\ e.str = d.str /\ e.bucket = d.bucket
    BY <2>1, ResultSet
  <2>3. QED
    BY <2>2
<1>4. CASE FindBucket(d, c) = 0 /\ StrRoom(d) # {}
  <2> DEFINE a == NewAddress(d)
  <2>1. e = Prepend(d, a, c, 0, d.bucket[Hash(c)])
    BY <1>4 DEF Create
  <2>2. a \in 1 .. MaxStrings /\ a \notin DOMAIN d.str /\ a \in StrRoom(d)
    BY <1>4, AddressIsNew DEF NewAddress
  <2>3. IsFiniteSet(DOMAIN d.str) /\ 0 \notin DOMAIN d.str
    BY StringsFinite DEF Sound
  <2> HIDE DEF a
  <2>4. \A x \in DOMAIN d.str : d.str[x].content # c
    BY <1>1, <1>4, <2>3
  <2>5. /\ IsState(e) /\ Stored(e.str, e.bucket) /\ e.res = a
        /\ DOMAIN e.str = {a} \cup DOMAIN d.str
        /\ e.str[a].content = c /\ e.str[a].extra = 0 /\ e.str[a].count = 0
        /\ \A x \in DOMAIN d.str : e.str[x] = d.str[x]
        /\ \A b \in DOMAIN d.bucket : b # Hash(c) => e.bucket[b] = d.bucket[b]
    BY <2>1, <2>2, <2>4, Prepended DEF Sound
  <2>6. a # 0
    BY <2>2, StringsAssumption
  <2>7. Held(e.str, sf, 0)
    <3>1. Held(d.str, sf, 0)
      BY DEF Sound
    <3>2. QED
      BY <2>2, <2>3, <2>5, <2>6, <3>1, AddedHeld
  <2>8. QED
    BY <2>2, <2>5, <2>7 DEF Sound
<1>5. QED
  BY <1>2, <1>3, <1>4

\* No string is on the chain of its own extra string (see the run strhash_lost).
ExtrasElsewhere == \A c \in Contents : HasLongExtra(c) => Hash(Plain(c.extra)) # Hash(c)

LEMMA FoundOrCreated ==
  ASSUME ExtrasElsewhere, NEW d, NEW sf, Sound(d, sf, 0), NEW c \in Contents
  PROVE  Sound(FindCreate(d, c), sf, 0)
<1>1. CASE ~ HasLongExtra(c)
  BY <1>1, Created DEF FindCreate
<1>2. CASE FindBucket(d, c) # 0 \/ StrRoom(d) = {}
  <2>1. FindCreate(d, c) = Create(d, c)
    BY <1>2 DEF FindCreate
  <2>2. PICK r : Create(d, c) = [d EXCEPT !.res = r]
    BY <1>2 DEF Create
  <2>3. Sound([d EXCEPT !.res = r], sf, 0)
    BY ResultSet
  <2>4. QED
    BY <2>1, <2>2, <2>3
<1>3. CASE HasLongExtra(c) /\ FindBucket(d, c) = 0 /\ StrRoom(d) # {}
  <2> DEFINE a == NewAddress(d)
             p == Plain(c.extra)
             d1 == [d EXCEPT !.lost = @ \cup {a}]
             e == Create(d1, p)
  <2>1. FindCreate(d, c) = IF e.res = 0 THEN e
          ELSE Prepend([Retain(e, e.res) EXCEPT !.lost = @ \ {a}], a, c, e.res, d.bucket[Hash(c)])
    BY <1>3 DEF FindCreate
  <2>2. a \in 1 .. MaxStrings /\ a \notin DOMAIN d.str /\ a # 0
    BY <1>3, AddressIsNew, StringsAssumption
  <2>3. p \in Contents /\ ~ HasLongExtra(p) /\ Hash(p) # Hash(c) /\ p # c
    BY <1>3, StringsAssumption DEF Contents, Plain, HasLongExtra, ExtrasElsewhere
  <2>4. \A x \in DOMAIN d.str : d.str[x].content # c
    <3>1. 0 \notin DOMAIN d.str
      BY StringsFinite DEF Sound
    <3>2. QED
      BY <1>3, <3>1, BucketFound DEF Sound
  <2>5. Sound(d1, sf, 0) /\ d1.str = d.str /\ d1.bucket = d.bucket /\ a \notin StrRoom(d1)
    <3>1. d1.lost = d.lost \cup {a}
      BY LostSet
    <3>2. a \notin StrRoom(d1)
      BY <3>1 DEF StrRoom
    <3>3. QED
      BY <3>2, LostSet
  <2> HIDE DEF a, d1, p
  <2>6. /\ Sound(e, sf, 0)
        /\ e.res # 0 => e.res \in DOMAIN e.str /\ e.str[e.res].content = p
        /\ \A x \in DOMAIN e.str : x \in DOMAIN d.str \/ x \in StrRoom(d1)
        /\ \A x \in DOMAIN e.str : e.str[x].content = p \/ \E y \in DOMAIN d.str : d.str[y].content = e.str[x].content
        /\ \A b \in DOMAIN d.bucket : b # Hash(p) => e.bucket[b] = d.bucket[b]
    BY <2>3, <2>5, Created
  <2>7. a \notin DOMAIN e.str /\ \A x \in DOMAIN e.str : e.str[x].content # c
    BY <2>2, <2>3, <2>4, <2>5, <2>6
  <2>8. Hash(c) \in DOMAIN d.bucket
    BY StringsAssumption DEF Sound, Stored
  <2> HIDE DEF e
  <2>9. CASE e.res = 0
    BY <2>1, <2>6, <2>9
  <2>10. CASE e.res # 0
    <3> DEFINE q == e.res
               f == Retain(e, q)
               g == [f EXCEPT !.lost = @ \ {a}]
               h == Prepend(g, a, c, q, d.bucket[Hash(c)])
    <3>1. q \in DOMAIN e.str /\ e.str[q].content = p
      BY <2>6, <2>10
    <3>2. Sound(f, sf, q) /\ DOMAIN f.str = DOMAIN e.str /\ \A x \in DOMAIN e.str : f.str[x].content = e.str[x].content
      BY <2>6, <3>1, PinSet
    <3>3. f.bucket = e.bucket
      BY <2>6, <2>10 DEF Retain, Sound, IsState
    <3> HIDE DEF q, f
    <3>4. Sound(g, sf, q) /\ g.str = f.str /\ g.bucket = f.bucket
      BY <3>2, LostSet
    <3> HIDE DEF g
    <3>5. g.bucket[Hash(c)] = d.bucket[Hash(c)]
      BY <2>3, <2>6, <2>8, <3>3, <3>4
    <3>6. IsFiniteSet(DOMAIN g.str) /\ 0 \notin DOMAIN g.str /\ q \in Nat
      <4>1. Stored(g.str, g.bucket)
        BY <3>4 DEF Sound
      <4>2. q \in DOMAIN g.str
        BY <3>1, <3>2, <3>4
      <4>3. QED
        BY <4>1, <4>2, StringsFinite
    <3>7. a \notin DOMAIN g.str /\ \A x \in DOMAIN g.str : g.str[x].content # c
      BY <2>7, <3>2, <3>4
    <3>8. h = Prepend(g, a, c, q, g.bucket[Hash(c)])
      BY <3>5
    <3> HIDE DEF h
    <3>9. /\ IsState(h) /\ Stored(h.str, h.bucket)
          /\ DOMAIN h.str = {a} \cup DOMAIN g.str
          /\ h.str[a].content = c /\ h.str[a].extra = q /\ h.str[a].count = 0
          /\ \A x \in DOMAIN g.str : h.str[x] = g.str[x]
      BY <2>2, <3>4, <3>6, <3>7, <3>8, Prepended DEF Sound
    <3>10. Held(h.str, sf, 0)
      <4>1. Held(g.str, sf, q)
        BY <3>4 DEF Sound
      <4>2. q \in DOMAIN g.str /\ g.str[q].content = Plain(c.extra)
        BY <3>1, <3>2, <3>4 DEF p
      <4>3. HasLongExtra(h.str[a].content) /\ h.str[a].extra = q /\ g.str[q].content = Plain(h.str[a].content.extra)
        BY <1>3, <3>9, <4>2
      <4>4. QED
        BY <2>2, <3>6, <3>7, <3>9, <4>1, <4>2, <4>3, AddedHeld
    <3>11. Sound(h, sf, 0)
      BY <3>9, <3>10 DEF Sound
    <3>12. FindCreate(d, c) = h
      BY <2>1, <2>10 DEF h, g, f, q
    <3>13. QED
      BY <3>11, <3>12
  <2>11. QED
    BY <2>9, <2>10
<1>4. QED
  BY <1>1, <1>2, <1>3

-----------------------------------------------------------------------------
StrInv == Sound(StrNow, strfield, 0)

LEMMA StrStart == StrInit => StrInv
<1> SUFFICES ASSUME StrInit PROVE StrInv
  OBVIOUS
<1>1. IsState(StrNow) /\ StrNow.str = <<>> /\ StrNow.bucket = [b \in 0 .. StrHashSize - 1 |-> 0]
  BY DEF StrInit, StrNow, IsState
<1>2. DOMAIN <<>> = {} /\ <<>> \in [{} -> String]
  OBVIOUS
<1>3. Chained(bucket, Links(str), Homes(str), [b \in 0 .. StrHashSize - 1 |-> <<>>])
  <2>1. DOMAIN Links(str) = {} /\ IsFiniteSet({}) /\ str = <<>>
    BY FS_EmptySet DEF Links, StrInit
  <2>2. IsList(0, Links(str), <<>>) /\ Range(<<>>) = {}
    BY DEF IsList, Range
  <2>3. QED
    BY <2>1, <2>2 DEF Chained, StrInit
<1>4. Stored(str, bucket)
  BY <1>2, <1>3 DEF Stored, StrInit
<1>5. Held(str, strfield, 0)
  BY <1>2 DEF Held, StrInit
<1>6. QED
  BY <1>1, <1>4, <1>5 DEF StrInv, Sound, StrNow

LEMMA StrKept ==
  ASSUME NEW d, NEW sf, Sound(d, sf, 0), StrResult(d), strfield' = sf
  PROVE  StrInv'
<1>1. StrNow'.str = d.str /\ StrNow'.bucket = d.bucket /\ IsState(StrNow')
  BY DEF StrNow, StrResult, IsState
<1>2. QED
  BY <1>1 DEF StrInv, Sound

LEMMA NowIs == StrNow.str = str /\ StrNow.bucket = bucket /\ StrNow.lost = lost
BY DEF StrNow

LEMMA EncodeStep ==
  ASSUME ExtrasElsewhere, StrInv, NEW c \in Contents, Encode(c)
  PROVE  StrInv'
<1>1. Sound(FindCreate(StrNow, c), strfield, 0)
  BY FoundOrCreated DEF StrInv
<1>2. QED
  BY <1>1, StrKept DEF Encode

LEMMA SetFieldStep ==
  ASSUME StrInv, NEW f \in Fields, NEW a, SetField(f, a)
  PROVE  StrInv'
<1> DEFINE d == Retain(StrNow, a)
           g == [strfield EXCEPT ![f] = a]
<1>1. a \in DOMAIN str \cup {0} /\ strfield[f] # a
      /\ StrResult(Release(d, strfield[f])) /\ strfield' = g
  BY DEF SetField
<1>2. Sound(d, strfield, a) /\ DOMAIN d.str = DOMAIN str
  BY <1>1, NowIs, PinSet DEF StrInv
<1> HIDE DEF d
<1>3. IsFiniteSet(DOMAIN d.str) /\ 0 \notin DOMAIN d.str
  BY <1>2, StringsFinite DEF Sound
<1>4. Held(d.str, g, strfield[f])
  BY <1>1, <1>2, <1>3, FieldMoved DEF Sound
<1>5. strfield[f] \in DOMAIN d.str \cup {0}
  BY <1>2 DEF Sound, Held
<1>6. Sound(d, g, strfield[f])
  BY <1>2, <1>4, <1>5 DEF Sound
<1>7. Sound(Release(d, strfield[f]), g, 0)
  BY <1>6, Released
<1>8. QED
  BY <1>1, <1>7, StrKept

LEMMA FreeEncodedStep ==
  ASSUME StrInv, NEW a, FreeEncoded(a)
  PROVE  StrInv'
<1>1. a \in DOMAIN str /\ StrResult(Release(Retain(StrNow, a), a)) /\ strfield' = strfield
  BY DEF FreeEncoded
<1>2. Sound(Retain(StrNow, a), strfield, a)
  BY <1>1, NowIs, PinSet DEF StrInv
<1>3. Sound(Release(Retain(StrNow, a), a), strfield, 0)
  BY <1>2, Released
<1>4. QED
  BY <1>1, <1>3, StrKept

LEMMA StrInvShares == StrInv => StringsShared
<1> SUFFICES ASSUME StrInv PROVE StringsShared
  OBVIOUS
<1>1. Stored(str, bucket) /\ Held(str, strfield, 0)
  BY NowIs DEF StrInv, Sound
<1>2. Interned
  <2>1. PICK C : Chained(bucket, Links(str), Homes(str), C)
    BY <1>1 DEF Stored
  <2>2. ASSUME NEW b \in DOMAIN bucket
        PROVE  /\ IsInjective(Chain(StrNow, b))
               /\ Range(Chain(StrNow, b)) = {a \in DOMAIN str : Hash(str[a].content) = b}
    <3>1. Chain(StrNow, b) = C[b]
      BY <2>1, NowIs, ChainIs DEF Chain, Links
    <3>2. IsList(bucket[b], Links(str), C[b]) /\ Range(C[b]) = {a \in DOMAIN Links(str) : Homes(str)[a] = b}
      BY <2>1 DEF Chained
    <3>3. {a \in DOMAIN Links(str) : Homes(str)[a] = b} = {a \in DOMAIN str : Hash(str[a].content) = b}
      BY DEF Links, Homes
    <3>4. IsInjective(C[b])
      <4>1. DOMAIN C[b] = 1 .. Len(C[b])
        BY <3>2 DEF IsList
      <4>2. \A i, j \in 1 .. Len(C[b]) : C[b][i] = C[b][j] => i = j
        BY <3>2 DEF IsList
      <4>3. QED
        BY <4>1, <4>2 DEF IsInjective
    <3>5. QED
      BY <3>1, <3>2, <3>3, <3>4
  <2>3. QED
    BY <1>1, <2>2 DEF Interned, Stored
<1>3. Counted
  <2>1. \A a \in DOMAIN str : str[a].count = Holders(strfield, a) + Users(str, a)
    <3>1. IsFiniteSet(DOMAIN str) /\ 0 \notin DOMAIN str
      BY <1>1, StringsFinite
    <3>2. \A a \in DOMAIN str : Holders(strfield, a) \in Nat /\ Users(str, a) \in Nat
      BY <3>1, HoldersCount, UsersCount
    <3>3. \A a \in DOMAIN str : str[a].count = Holders(strfield, a) + Users(str, a) + 0
      BY <1>1, <3>1 DEF Held
    <3>4. QED
      BY <3>2, <3>3
  <2>2. /\ \A f \in Fields : strfield[f] \in DOMAIN str \cup {0}
        /\ \A a \in DOMAIN str : HasLongExtra(str[a].content) =>
             str[a].extra \in DOMAIN str /\ str[str[a].extra].content = Plain(str[a].content.extra)
    BY <1>1 DEF Held
  <2>3. QED
    BY <2>1, <2>2 DEF Counted, Holders, Users
<1>4. QED
  BY <1>2, <1>3 DEF StringsShared

\* Equal long strings are stored once, each is on its chain and counts those
\* who use it, after any calls, if no string is on the chain of its own extra
\* string.
THEOREM StringsAreShared ==
  ASSUME ExtrasElsewhere
  PROVE  StrSpec => []StringsShared
<1>1. StrInit => StrInv
  BY StrStart
<1>2. StrInv /\ [StrNext]_strVars => StrInv'
  <2> SUFFICES ASSUME StrInv, [StrNext]_strVars PROVE StrInv'
    OBVIOUS
  <2>1. CASE \E c \in Contents : Encode(c)
    BY <2>1, EncodeStep
  <2>2. CASE \E f \in Fields, a \in 0 .. MaxStrings : SetField(f, a)
    BY <2>2, SetFieldStep
  <2>3. CASE \E a \in 1 .. MaxStrings : FreeEncoded(a)
    BY <2>3, FreeEncodedStep
  <2>4. CASE UNCHANGED strVars
    BY <2>4 DEF strVars, StrInv, StrNow
  <2>5. QED
    BY <2>1, <2>2, <2>3, <2>4 DEF StrNext
<1>3. QED
  BY <1>1, <1>2, StrInvShares, PTL DEF StrSpec

(***************************************************************************)
(* How often something occurs                                              *)
(***************************************************************************)

LEMMA SameSize ==
  ASSUME NEW S, NEW T, IsFiniteSet(S), NEW g \in [S -> T],
         \A x, y \in S : g[x] = g[y] => x = y, \A t \in T : \E x \in S : g[x] = t
  PROVE  IsFiniteSet(T) /\ Cardinality(T) = Cardinality(S)
<1>1. g \in Bijection(S, T)
  BY DEF Bijection, Injection, Surjection, IsInjective
<1>2. ExistsBijection(S, T)
  BY <1>1 DEF ExistsBijection
<1>3. QED
  BY <1>2, FS_Bijection

\* How often x is between the places i and j of s.
Places(s, i, j, x) == {m \in i .. j : s[m] = x}
Within(s, i, j, x) == Cardinality(Places(s, i, j, x))

LEMMA WithinIs ==
  ASSUME NEW s, NEW i \in Int, NEW j \in Int, NEW x
  PROVE  /\ Within(s, i, j, x) \in Nat /\ IsFiniteSet(Places(s, i, j, x))
         /\ Within(s, i, j, x) = 0 <=> \A m \in i .. j : s[m] # x
<1>1. IsFiniteSet(i .. j) /\ Places(s, i, j, x) \subseteq i .. j
  BY FS_Interval DEF Places
<1>2. IsFiniteSet(Places(s, i, j, x))
  BY <1>1, FS_Subset
<1>3. Within(s, i, j, x) \in Nat /\ (Within(s, i, j, x) = 0 <=> Places(s, i, j, x) = {})
  BY <1>2, FS_CardinalityType, FS_EmptySet DEF Within
<1>4. QED
  BY <1>2, <1>3 DEF Places

LEMMA WithinLast ==
  ASSUME NEW s, NEW x, NEW i \in Int, NEW j \in Int, NEW h \in Int, i <= j, h = j - 1
  PROVE  Within(s, i, j, x) = Within(s, i, h, x) + IF s[j] = x THEN 1 ELSE 0
<1> DEFINE S == Places(s, i, h, x)
           T == Places(s, i, j, x)
<1>1. i \in Int /\ h \in Int
  OBVIOUS
<1>2. IsFiniteSet(S) /\ Cardinality(S) \in Nat
  BY <1>1, WithinIs DEF Within
<1>3. T = IF s[j] = x THEN S \cup {j} ELSE S
  BY DEF Places
<1>4. j \notin S
  BY DEF Places
<1> HIDE DEF S, T
<1>5. Cardinality(T) = Cardinality(S) + IF s[j] = x THEN 1 ELSE 0
  BY <1>2, <1>3, <1>4, FS_AddElement
<1>6. QED
  BY <1>5 DEF Within, S, T

LEMMA WithinFirst ==
  ASSUME NEW s, NEW i \in Int, NEW j \in Int, i <= j, NEW x
  PROVE  Within(s, i, j, x) = Within(s, i + 1, j, x) + IF s[i] = x THEN 1 ELSE 0
<1> DEFINE S == Places(s, i + 1, j, x)
           T == Places(s, i, j, x)
<1>1. i + 1 \in Int /\ j \in Int
  OBVIOUS
<1>2. IsFiniteSet(S) /\ Cardinality(S) \in Nat
  BY <1>1, WithinIs DEF Within
<1>3. T = IF s[i] = x THEN S \cup {i} ELSE S
  BY DEF Places
<1>4. i \notin S
  BY DEF Places
<1> HIDE DEF S, T
<1>5. Cardinality(T) = Cardinality(S) + IF s[i] = x THEN 1 ELSE 0
  BY <1>2, <1>3, <1>4, FS_AddElement
<1>6. QED
  BY <1>5 DEF Within, S, T

LEMMA TimesIs ==
  ASSUME NEW X, NEW s \in Seq(X), NEW x
  PROVE  /\ Times(x, s) = Within(s, 1, Len(s), x)
         /\ Times(x, s) \in Nat /\ (Times(x, s) = 0 <=> x \notin Range(s))
<1>1. DOMAIN s = 1 .. Len(s) /\ Len(s) \in Nat
  OBVIOUS
<1>2. Times(x, s) = Within(s, 1, Len(s), x)
  BY <1>1 DEF Times, Within, Places
<1>3. 1 \in Int /\ Len(s) \in Int
  BY <1>1
<1>n. Within(s, 1, Len(s), x) \in Nat
  BY <1>3, WithinIs
<1>4. Within(s, 1, Len(s), x) = 0 <=> \A m \in 1 .. Len(s) : s[m] # x
  BY <1>3, WithinIs
<1>5. x \notin Range(s) <=> \A m \in 1 .. Len(s) : s[m] # x
  BY <1>1 DEF Range
<1>6. QED
  BY <1>2, <1>n, <1>4, <1>5

LEMMA TimesPrepended ==
  ASSUME NEW X, NEW s \in Seq(X), NEW y \in X, NEW x
  PROVE  Times(x, <<y>> \o s) = Times(x, s) + IF x = y THEN 1 ELSE 0
<1> DEFINE t == <<y>> \o s
           S == Places(s, 1, Len(s), x)
           T == Places(t, 2, Len(s) + 1, x)
           g == [m \in S |-> m + 1]
<1>1. /\ t \in Seq(X) /\ Len(s) \in Nat /\ Len(t) = Len(s) + 1 /\ t[1] = y
      /\ \A m \in 1 .. Len(s) : t[m + 1] = s[m]
  OBVIOUS
<1> HIDE DEF t
<1>2. IsFiniteSet(S)
  <2>1. 1 \in Int /\ Len(s) \in Int
    BY <1>1
  <2>2. QED
    BY <2>1, WithinIs
<1>3. Cardinality(T) = Cardinality(S)
  <2>1. g \in [S -> T] /\ \A m, n \in S : g[m] = g[n] => m = n
    BY <1>1 DEF Places
  <2>2. ASSUME NEW n \in T PROVE \E m \in S : g[m] = n
    <3>1. n - 1 \in 1 .. Len(s) /\ (n - 1) + 1 = n
      BY <1>1 DEF Places
    <3>2. n - 1 \in S /\ g[n - 1] = n
      BY <1>1, <3>1 DEF Places
    <3>3. QED
      BY <3>2
  <2> HIDE DEF S, T, g
  <2>3. QED
    BY <1>2, <2>1, <2>2, SameSize
<1>4. Within(t, 2, Len(t), x) = Within(s, 1, Len(s), x)
  BY <1>1, <1>3 DEF Within, S, T
<1>5. Within(t, 1, Len(t), x) = Within(t, 2, Len(t), x) + IF t[1] = x THEN 1 ELSE 0
  <2>1. Len(t) \in Int /\ 1 <= Len(t) /\ 1 + 1 = 2
    BY <1>1
  <2>2. Within(t, 1, Len(t), x) = Within(t, 1 + 1, Len(t), x) + IF t[1] = x THEN 1 ELSE 0
    BY <2>1, WithinFirst
  <2>3. QED
    BY <2>1, <2>2
<1>6. Times(x, s) = Within(s, 1, Len(s), x) /\ Times(x, t) = Within(t, 1, Len(t), x)
  BY <1>1, TimesIs
<1>7. QED
  BY <1>1, <1>4, <1>5, <1>6 DEF t

LEMMA TimesRemoved ==
  ASSUME NEW X, NEW s \in Seq(X), NEW k \in 1 .. Len(s), NEW x
  PROVE  Times(x, Removed(s, k)) = Times(x, s) - IF x = s[k] THEN 1 ELSE 0
<1> DEFINE r == Removed(s, k)
           U == Places(s, 1, Len(s), x)
           S == U \ {k}
           T == Places(r, 1, Len(s) - 1, x)
           g == [m \in S |-> IF m < k THEN m ELSE m - 1]
<1>1. /\ r \in Seq(X) /\ Len(r) = Len(s) - 1 /\ Len(s) \in Nat
      /\ \A i \in 1 .. Len(s) - 1 : r[i] = IF i < k THEN s[i] ELSE s[i + 1]
  BY RemovedIs
<1> HIDE DEF r
<1>2. IsFiniteSet(U) /\ Cardinality(U) = Within(s, 1, Len(s), x) /\ Cardinality(U) \in Nat
  <2>1. 1 \in Int /\ Len(s) \in Int
    BY <1>1
  <2>2. QED
    BY <2>1, WithinIs DEF Within
<1>3. IsFiniteSet(S) /\ Cardinality(S) = Cardinality(U) - IF x = s[k] THEN 1 ELSE 0
  <2>1. k \in U <=> x = s[k]
    BY DEF Places
  <2> HIDE DEF U
  <2>2. QED
    BY <1>2, <2>1, FS_RemoveElement
<1>4. Cardinality(T) = Cardinality(S)
  <2>1. ASSUME NEW m \in S PROVE g[m] \in T
    <3>1. CASE m < k
      <4>1. m \in 1 .. Len(s) - 1 /\ g[m] = m /\ s[m] = x
        BY <1>1, <3>1 DEF Places
      <4>2. r[m] = s[m]
        BY <1>1, <3>1, <4>1
      <4>3. QED
        BY <4>1, <4>2 DEF Places
    <3>2. CASE ~ (m < k)
      <4>1. m - 1 \in 1 .. Len(s) - 1 /\ ~ (m - 1 < k) /\ (m - 1) + 1 = m /\ g[m] = m - 1 /\ s[m] = x
        BY <1>1, <3>2 DEF Places
      <4>2. r[m - 1] = s[m]
        BY <1>1, <4>1
      <4>3. QED
        BY <4>1, <4>2 DEF Places
    <3>3. QED
      BY <3>1, <3>2
  <2>2. \A m, n \in S : g[m] = g[n] => m = n
    BY <1>1 DEF Places
  <2>3. ASSUME NEW n \in T PROVE \E m \in S : g[m] = n
    <3>1. CASE n < k
      <4>1. n \in 1 .. Len(s) - 1 /\ n \in 1 .. Len(s) /\ n # k /\ r[n] = x
        BY <1>1, <3>1 DEF Places
      <4>2. s[n] = x
        BY <1>1, <3>1, <4>1
      <4>3. n \in S
        BY <4>1, <4>2 DEF Places
      <4>4. QED
        BY <3>1, <4>3
    <3>2. CASE ~ (n < k)
      <4>1. /\ n \in 1 .. Len(s) - 1 /\ n + 1 \in 1 .. Len(s) /\ n + 1 # k /\ r[n] = x
            /\ ~ (n + 1 < k) /\ (n + 1) - 1 = n
        BY <1>1, <3>2 DEF Places
      <4>2. s[n + 1] = x
        BY <1>1, <3>2, <4>1
      <4>3. n + 1 \in S
        BY <4>1, <4>2 DEF Places
      <4>4. QED
        BY <4>1, <4>3
    <3>3. QED
      BY <3>1, <3>2
  <2>4. g \in [S -> T]
    BY <2>1
  <2> HIDE DEF S, T, g
  <2>5. QED
    BY <1>3, <2>2, <2>3, <2>4, SameSize
<1>5. Times(x, s) = Within(s, 1, Len(s), x) /\ Times(x, r) = Within(r, 1, Len(r), x)
  BY <1>1, TimesIs
<1>6. Within(r, 1, Len(r), x) = Cardinality(T)
  BY <1>1 DEF Within, T
<1>7. QED
  BY <1>2, <1>3, <1>4, <1>5, <1>6 DEF r

LEMMA FirstRemoved ==
  ASSUME NEW X, NEW s \in Seq(X), NEW y, y \in Range(s)
  PROVE  \E k \in 1 .. Len(s) : s[k] = y /\ RemoveFirst(s, y) = Removed(s, k)
<1> DEFINE I == {i \in 1 .. Len(s) : s[i] = y}
           k == Min(I)
<1>1. Len(s) \in Nat /\ \E i \in 1 .. Len(s) : s[i] = y
  BY DEF Range
<1>2. k \in I
  <2>1. I \subseteq Nat /\ I # {}
    BY <1>1
  <2> HIDE DEF I
  <2>2. QED
    BY <2>1, MinIsLeast
<1>3. SelectInSeq(s, LAMBDA v : v = y) = k
  BY <1>1 DEF SelectInSeq
<1>4. RemoveFirst(s, y) = RemoveAt(s, k)
  BY <1>1, <1>3 DEF RemoveFirst
<1>5. k \in 1 .. Len(s) /\ s[k] = y
  BY <1>2
<1> HIDE DEF k, I
<1>6. RemoveAt(s, k) = Removed(s, k)
  <2> DEFINE a == SubSeq(s, 1, k - 1)
             b == SubSeq(s, k + 1, Len(s))
  <2>1. /\ a \in Seq(X) /\ Len(a) = k - 1 /\ \A i \in 1 .. k - 1 : a[i] = s[i]
        /\ b \in Seq(X) /\ Len(b) = Len(s) - k /\ \A i \in 1 .. Len(s) - k : b[i] = s[k + i]
    <3>1. /\ k \in Nat /\ k - 1 \in Nat /\ k + 1 \in Nat /\ Len(s) \in Nat /\ 1 <= k /\ k <= Len(s)
          /\ s \in Seq(X) /\ Len(s) - (k + 1) + 1 = Len(s) - k /\ (k - 1) - 1 + 1 = k - 1
          /\ \A i \in 1 .. k - 1 : 1 + i - 1 = i /\ i \in Nat
          /\ \A i \in 1 .. Len(s) - k : (k + 1) + i - 1 = k + i /\ i \in Nat
      BY <1>1, <1>5
    <3>2. a \in Seq(X) /\ Len(a) = k - 1 /\ \A i \in 1 .. k - 1 : a[i] = s[i]
      <4>1. \A i \in 1 .. k - 1 : s[i] \in X
        BY <3>1
      <4>2. a \in Seq(X) /\ Len(a) = k - 1
        BY <3>1, <4>1, SubSeqProperties
      <4>3. \A i \in 1 .. k - 1 : a[i] = s[i]
        BY <3>1, <4>1, SubSeqProperties
      <4>4. QED
        BY <4>2, <4>3
    <3>3. b \in Seq(X) /\ Len(b) = Len(s) - k /\ \A i \in 1 .. Len(s) - k : b[i] = s[k + i]
      <4>1. \A i \in k + 1 .. Len(s) : s[i] \in X
        BY <3>1
      <4>2. b \in Seq(X) /\ Len(b) = Len(s) - k
        BY <3>1, <4>1, SubSeqProperties
      <4>3. \A i \in 1 .. Len(s) - k : b[i] = s[k + i]
        BY <3>1, <4>1, SubSeqProperties
      <4>4. QED
        BY <4>2, <4>3
    <3>4. QED
      BY <3>2, <3>3
  <2> HIDE DEF a, b
  <2>2. a \o b \in Seq(X) /\ Len(a \o b) = Len(s) - 1 /\ DOMAIN (a \o b) = 1 .. Len(s) - 1
        /\ \A i \in 1 .. Len(a) + Len(b) : (a \o b)[i] = IF i <= Len(a) THEN a[i] ELSE b[i - Len(a)]
    <3>1. k \in Int /\ Len(a) + Len(b) = Len(s) - 1
      BY <1>1, <1>5, <2>1
    <3>2. a \o b \in Seq(X) /\ Len(a \o b) = Len(a) + Len(b)
      BY <2>1, ConcatProperties
    <3>3. \A i \in 1 .. Len(a) + Len(b) : (a \o b)[i] = IF i <= Len(a) THEN a[i] ELSE b[i - Len(a)]
      BY <2>1, ConcatProperties
    <3>4. DOMAIN (a \o b) = 1 .. Len(a \o b)
      BY <3>2
    <3>5. QED
      BY <3>1, <3>2, <3>3, <3>4
  <2>3. ASSUME NEW i \in 1 .. Len(s) - 1
        PROVE  (a \o b)[i] = IF i < k THEN s[i] ELSE s[i + 1]
    <3>0. Len(a) + Len(b) = Len(s) - 1 /\ Len(a) = k - 1
      BY <1>1, <1>5, <2>1
    <3>1. CASE i < k
      <4>1. i \in 1 .. k - 1 /\ i <= Len(a)
        BY <1>1, <1>5, <3>0, <3>1
      <4>2. (a \o b)[i] = a[i]
        BY <2>2, <3>0, <4>1
      <4>3. QED
        BY <2>1, <3>1, <4>1, <4>2
    <3>2. CASE ~ (i < k)
      <4>1. i - (k - 1) \in 1 .. Len(s) - k /\ k + (i - (k - 1)) = i + 1
        BY <1>1, <1>5, <3>2
      <4>2. (a \o b)[i] = b[i - (k - 1)]
        BY <1>5, <2>2, <3>0, <3>2
      <4>3. QED
        BY <2>1, <3>2, <4>1, <4>2
    <3>3. QED
      BY <3>1, <3>2
  <2>4. /\ Removed(s, k) \in Seq(X) /\ Len(Removed(s, k)) = Len(s) - 1
        /\ \A i \in 1 .. Len(s) - 1 : Removed(s, k)[i] = IF i < k THEN s[i] ELSE s[i + 1]
    BY <1>5, RemovedIs
  <2>5. a \o b = Removed(s, k)
    <3> DEFINE c == a \o b
               r == Removed(s, k)
    <3>1. c \in Seq(X) /\ r \in Seq(X) /\ Len(c) = Len(r)
      BY <2>2, <2>4
    <3>2. \A i \in 1 .. Len(c) : c[i] = r[i]
      BY <2>2, <2>3, <2>4
    <3> HIDE DEF c, r
    <3>3. c = r
      BY <3>1, <3>2, SeqEqual
    <3>4. QED
      BY <3>3 DEF c, r
  <2>6. QED
    BY <2>5 DEF RemoveAt, a, b
<1>7. QED
  BY <1>4, <1>5, <1>6

(***************************************************************************)
(* The buckets of a hash index                                             *)
(***************************************************************************)

Cells == [value : Values, rows : Seq(HashRows), next : Nat]
CellLinks(c) == [a \in DOMAIN c |-> c[a].next]
CellHomes(c) == [a \in DOMAIN c |-> BucketOf(c[a].value)]

\* The buckets c are on the chains that hd heads, one for a value.
CellsChained(c, hd) ==
  /\ DOMAIN c \subseteq 1 .. MaxBuckets /\ c \in [DOMAIN c -> Cells]
  /\ hd \in [0 .. IdxHashSize - 1 -> Nat]
  /\ \E C : Chained(hd, CellLinks(c), CellHomes(c), C)
  /\ \A a1, a2 \in DOMAIN c : c[a1].value = c[a2].value => a1 = a2

\* N[r][v] is how often the row r is in the bucket of v.
CellsHold(c, N) ==
  /\ \A a \in DOMAIN c : \A r \in HashRows : Times(r, c[a].rows) = N[r][c[a].value]
  /\ \A v \in Values : (\A a \in DOMAIN c : c[a].value # v) => \A r \in HashRows : N[r][v] = 0

IsIndex(d) == DOMAIN d = {"cell", "head", "ok"} /\ d = [x \in DOMAIN d |-> d[x]] /\ d.ok \in BOOLEAN
TableHolds(d, N) ==
  /\ IsIndex(d) /\ CellsChained(d.cell, d.head) /\ CellsHold(d.cell, N)
  /\ \A a \in DOMAIN d.cell : d.cell[a].rows # <<>>

LEMMA CellsAre ==
  ASSUME NEW c, NEW hd, CellsChained(c, hd)
  PROVE  /\ IsFiniteSet(DOMAIN c) /\ 0 \notin DOMAIN c /\ DOMAIN c \subseteq Nat
         /\ \A a \in DOMAIN c : c[a] \in Cells
<1>1. IsFiniteSet(1 .. MaxBuckets)
  BY RowsAssumption, FS_Interval
<1>2. IsFiniteSet(DOMAIN c)
  BY <1>1, FS_Subset DEF CellsChained
<1>3. 0 \notin DOMAIN c /\ DOMAIN c \subseteq Nat
  BY RowsAssumption DEF CellsChained
<1>4. QED
  BY <1>2, <1>3 DEF CellsChained

LEMMA ValueBucket ==
  ASSUME NEW d, CellsChained(d.cell, d.head), NEW v \in Values
  PROVE  IF \E a \in DOMAIN d.cell : d.cell[a].value = v
         THEN Bucket(d, v) \in DOMAIN d.cell /\ d.cell[Bucket(d, v)].value = v
         ELSE Bucket(d, v) = 0
<1> DEFINE b == BucketOf(v)
           l == BucketChain(d, b)
           same == {n \in DOMAIN l : d.cell[l[n]].value = v}
<1>1. b \in DOMAIN d.head
  BY RowsAssumption DEF CellsChained
<1>2. PICK C : Chained(d.head, CellLinks(d.cell), CellHomes(d.cell), C)
  BY DEF CellsChained
<1>3. l = C[b]
  BY <1>1, <1>2, ChainIs DEF BucketChain, CellLinks
<1>4. IsList(d.head[b], CellLinks(d.cell), l) /\ Range(l) = {a \in DOMAIN d.cell : BucketOf(d.cell[a].value) = b}
  <2>1. DOMAIN CellLinks(d.cell) = DOMAIN d.cell /\ \A a \in DOMAIN d.cell : CellHomes(d.cell)[a] = BucketOf(d.cell[a].value)
    BY DEF CellLinks, CellHomes
  <2>2. IsList(d.head[b], CellLinks(d.cell), l) /\ Range(l) = {a \in DOMAIN CellLinks(d.cell) : CellHomes(d.cell)[a] = b}
    BY <1>1, <1>2, <1>3 DEF Chained
  <2>3. QED
    BY <2>1, <2>2
<1>5. DOMAIN l \subseteq Nat
  BY <1>4 DEF IsList
<1> HIDE DEF l
<1>6. Bucket(d, v) = IF same = {} THEN 0 ELSE l[Min(same)]
  BY DEF Bucket, l
<1>7. CASE same = {}
  <2>1. \A a \in Range(l) : d.cell[a].value # v
    BY <1>7 DEF Range
  <2>2. QED
    BY <1>4, <1>6, <1>7, <2>1
<1>8. CASE same # {}
  <2>1. Min(same) \in same
    BY <1>5, <1>8, MinIsLeast
  <2>2. l[Min(same)] \in Range(l) /\ d.cell[l[Min(same)]].value = v
    BY <2>1 DEF Range
  <2> HIDE DEF same
  <2>3. QED
    BY <1>4, <1>6, <1>8, <2>2
<1>9. QED
  BY <1>7, <1>8

\* The rows of a bucket are no part of the chains.
LEMMA RowsSet ==
  ASSUME NEW c, NEW hd, CellsChained(c, hd), NEW a \in DOMAIN c, NEW rs \in Seq(HashRows),
         NEW c2, c2 = [c EXCEPT ![a].rows = rs]
  PROVE  /\ CellsChained(c2, hd) /\ DOMAIN c2 = DOMAIN c /\ c2[a].rows = rs
         /\ \A x \in DOMAIN c : c2[x].value = c[x].value /\ (x # a => c2[x].rows = c[x].rows)
<1>1. \A x \in DOMAIN c : c[x] \in Cells
  BY CellsAre
<1>2. DOMAIN c2 = DOMAIN c /\ c2 = [x \in DOMAIN c |-> c2[x]]
  OBVIOUS
<1>3. \A x \in DOMAIN c : x # a => c2[x] = c[x]
  OBVIOUS
<1>4. c2[a] = [c[a] EXCEPT !.rows = rs]
  OBVIOUS
<1>5. c2[a] \in Cells /\ c2[a].value = c[a].value /\ c2[a].next = c[a].next /\ c2[a].rows = rs
  BY <1>1, <1>4 DEF Cells
<1>6. CellLinks(c2) = CellLinks(c) /\ CellHomes(c2) = CellHomes(c)
  BY <1>2, <1>3, <1>5 DEF CellLinks, CellHomes
<1>7. c2 \in [DOMAIN c2 -> Cells]
  BY <1>1, <1>2, <1>3, <1>5
<1>8. \A x \in DOMAIN c : c2[x].value = c[x].value
  BY <1>3, <1>5
<1>9. CellsChained(c2, hd)
  BY <1>2, <1>6, <1>7, <1>8 DEF CellsChained
<1>10. QED
  BY <1>2, <1>3, <1>5, <1>8, <1>9

\* A new bucket goes to the front of its chain.
LEMMA BucketAdded ==
  ASSUME NEW d, IsIndex(d), CellsChained(d.cell, d.head), NEW v \in Values,
         \A x \in DOMAIN d.cell : d.cell[x].value # v, BucketRoom(d) # {},
         NEW e, e = AddBucket(d, v)
  PROVE  /\ IsIndex(e) /\ CellsChained(e.cell, e.head) /\ (e.ok <=> d.ok)
         /\ \E a : /\ a \notin DOMAIN d.cell /\ DOMAIN e.cell = {a} \cup DOMAIN d.cell
                   /\ e.cell[a].value = v /\ e.cell[a].rows = <<>>
         /\ \A x \in DOMAIN d.cell : e.cell[x] = d.cell[x]
<1> DEFINE c == d.cell
           b == BucketOf(v)
           a == CHOOSE x \in BucketRoom(d) : TRUE
           new == [value |-> v, rows |-> <<>>, next |-> d.head[b]]
<1>0. a \in 1 .. MaxBuckets /\ a \notin DOMAIN c
  BY DEF BucketRoom
<1> HIDE DEF a
<1>1. /\ IsIndex(e) /\ (e.ok <=> d.ok) /\ e.head = [d.head EXCEPT ![b] = a]
      /\ e.cell = [x \in {a} \cup DOMAIN c |-> IF x = a THEN new ELSE c[x]]
  BY DEF AddBucket, IsIndex, a
<1>2. DOMAIN e.cell = {a} \cup DOMAIN c /\ e.cell[a] = new /\ \A x \in DOMAIN c : e.cell[x] = c[x]
  BY <1>0, <1>1
<1>3. b \in DOMAIN d.head /\ d.head \in [0 .. IdxHashSize - 1 -> Nat]
  BY RowsAssumption DEF CellsChained
<1>4. PICK C : Chained(d.head, CellLinks(c), CellHomes(c), C)
  BY DEF CellsChained
<1> HIDE DEF c
<1>5. new \in Cells
  <2>1. d.head[b] \in Nat
    BY <1>3
  <2>2. <<>> \in Seq(HashRows)
    OBVIOUS
  <2> HIDE DEF b
  <2>3. QED
    BY <2>1, <2>2 DEF Cells
<1>6. e.cell \in [DOMAIN e.cell -> Cells] /\ DOMAIN e.cell \subseteq 1 .. MaxBuckets
  <2>1. \A x \in DOMAIN c : c[x] \in Cells
    BY CellsAre DEF c
  <2>2. DOMAIN c \subseteq 1 .. MaxBuckets
    BY DEF CellsChained, c
  <2> HIDE DEF new
  <2>3. QED
    BY <1>0, <1>1, <1>2, <1>5, <2>1, <2>2
<1>7. a \in Nat \ {0}
  BY <1>0, RowsAssumption
<1>8. \E D : Chained(e.head, CellLinks(e.cell), CellHomes(e.cell), D)
  <2>1. DOMAIN CellLinks(c) = DOMAIN c /\ a \notin DOMAIN CellLinks(c)
    BY <1>0 DEF CellLinks
  <2>2. DOMAIN CellLinks(e.cell) = {a} \cup DOMAIN CellLinks(c) /\ CellLinks(e.cell)[a] = d.head[b] /\ CellHomes(e.cell)[a] = b
    BY <1>2 DEF CellLinks, CellHomes
  <2>3. \A x \in DOMAIN CellLinks(c) : CellLinks(e.cell)[x] = CellLinks(c)[x] /\ CellHomes(e.cell)[x] = CellHomes(c)[x]
    BY <1>2 DEF CellLinks, CellHomes
  <2>4. e.head = [d.head EXCEPT ![b] = a] /\ b \in DOMAIN d.head
    BY <1>1, <1>3
  <2> HIDE DEF b
  <2>5. QED
    BY <1>4, <1>7, <2>1, <2>2, <2>3, <2>4, ChainsGrow
<1>9. \A x, y \in DOMAIN e.cell : e.cell[x].value = e.cell[y].value => x = y
  <2>1. \A x, y \in DOMAIN c : c[x].value = c[y].value => x = y
    BY DEF CellsChained, c
  <2>2. \A x \in DOMAIN c : c[x].value # v
    BY DEF c
  <2>3. QED
    BY <1>2, <2>1, <2>2
<1>10. e.head \in [0 .. IdxHashSize - 1 -> Nat]
  <2>1. e.head = [d.head EXCEPT ![b] = a]
    BY <1>1
  <2>2. QED
    BY <1>3, <1>7, <2>1
<1>11. CellsChained(e.cell, e.head)
  BY <1>6, <1>8, <1>9, <1>10 DEF CellsChained
<1>12. QED
  BY <1>0, <1>1, <1>2, <1>11 DEF c

\* An empty bucket leaves its chain and its space.
LEMMA BucketDropped ==
  ASSUME NEW d, IsIndex(d), CellsChained(d.cell, d.head), NEW a \in DOMAIN d.cell,
         NEW e, e = DropBucket(d, a)
  PROVE  /\ IsIndex(e) /\ CellsChained(e.cell, e.head) /\ DOMAIN e.cell = DOMAIN d.cell \ {a}
         /\ (e.ok <=> d.ok)
         /\ \A x \in DOMAIN e.cell : /\ e.cell[x].value = d.cell[x].value
                                     /\ e.cell[x].rows = d.cell[x].rows
<1> DEFINE s == d.cell
           b == BucketOf(s[a].value)
           Relinked(x) == IF s[x].next = a THEN [s[x] EXCEPT !.next = s[a].next] ELSE s[x]
<1>1. \A x \in DOMAIN s : s[x] \in Cells
  BY CellsAre
<1>2. PICK C : Chained(d.head, CellLinks(s), CellHomes(s), C)
  BY DEF CellsChained
<1>3. /\ DOMAIN CellLinks(s) = DOMAIN s /\ DOMAIN CellHomes(s) = DOMAIN s
      /\ \A x \in DOMAIN s : CellLinks(s)[x] = s[x].next /\ CellHomes(s)[x] = BucketOf(s[x].value)
  BY DEF CellLinks, CellHomes
<1>4. b \in DOMAIN d.head /\ CellHomes(s)[a] = b /\ s[a].next \in Nat
  BY <1>1, <1>3, RowsAssumption DEF CellsChained, Cells
<1>6. \A x \in DOMAIN s : s[x].next = a => d.head[b] # a
  <2> HIDE DEF s, b
  <2>1. \A x \in DOMAIN s : CellLinks(s)[x] = a => d.head[b] # a
    <3>1. a \in DOMAIN CellLinks(s)
      BY <1>3 DEF s
    <3>2. QED
      BY <1>2, <1>3, <1>4, <3>1, PlaceBefore
  <2>2. QED
    BY <1>3, <2>1
<1>7. /\ IsIndex(e) /\ DOMAIN e.cell = DOMAIN s \ {a} /\ e.cell = [x \in DOMAIN s \ {a} |-> e.cell[x]]
      /\ (e.ok <=> d.ok)
      /\ e.head = (IF d.head[b] = a THEN [d.head EXCEPT ![b] = s[a].next] ELSE d.head)
      /\ \A x \in DOMAIN s \ {a} : e.cell[x] = Relinked(x)
  <2>1. CASE d.head[b] = a
    <3> DEFINE g == [d EXCEPT !.head[b] = s[a].next]
    <3>1. e = [g EXCEPT !.cell = Restrict(@, DOMAIN @ \ {a})]
      BY <2>1 DEF DropBucket
    <3>2. IsIndex(g) /\ g.head = [d.head EXCEPT ![b] = s[a].next] /\ g.cell = s /\ (g.ok <=> d.ok)
      BY DEF IsIndex
    <3> HIDE DEF g
    <3>3. IsIndex(e) /\ e.head = g.head /\ e.cell = Restrict(g.cell, DOMAIN g.cell \ {a}) /\ (e.ok <=> g.ok)
      BY <3>1, <3>2 DEF IsIndex
    <3>4. /\ IsIndex(e) /\ e.head = [d.head EXCEPT ![b] = s[a].next] /\ (e.ok <=> d.ok)
          /\ e.cell = [x \in DOMAIN s \ {a} |-> s[x]]
      BY <3>2, <3>3 DEF Restrict
    <3>5. QED
      BY <1>6, <2>1, <3>4
  <2>2. CASE d.head[b] # a
    <3> DEFINE r == [x \in DOMAIN s |-> IF s[x].next = a THEN [s[x] EXCEPT !.next = s[a].next] ELSE s[x]]
               g == [d EXCEPT !.cell = r]
    <3>1. e = [g EXCEPT !.cell = Restrict(@, DOMAIN @ \ {a})]
      BY <2>2 DEF DropBucket, IsIndex
    <3>2. DOMAIN r = DOMAIN s /\ \A x \in DOMAIN s : r[x] = Relinked(x)
      OBVIOUS
    <3> HIDE DEF r
    <3>3. IsIndex(g) /\ g.head = d.head /\ g.cell = r /\ (g.ok <=> d.ok)
      BY DEF IsIndex
    <3> HIDE DEF g
    <3>4. IsIndex(e) /\ e.head = g.head /\ e.cell = Restrict(g.cell, DOMAIN g.cell \ {a}) /\ (e.ok <=> g.ok)
      BY <3>1, <3>3 DEF IsIndex
    <3>5. /\ IsIndex(e) /\ e.head = d.head /\ e.cell = [x \in DOMAIN s \ {a} |-> r[x]] /\ (e.ok <=> d.ok)
      BY <3>2, <3>3, <3>4 DEF Restrict
    <3>8. QED
      BY <2>2, <3>2, <3>5
  <2>3. QED
    BY <2>1, <2>2
<1>8. ASSUME NEW x \in DOMAIN s
      PROVE  /\ Relinked(x) \in Cells /\ Relinked(x).value = s[x].value
             /\ Relinked(x).rows = s[x].rows
             /\ Relinked(x).next = IF s[x].next = a THEN s[a].next ELSE s[x].next
  BY <1>1 DEF Cells
<1> HIDE DEF s, b, Relinked
<1>9. e.cell \in [DOMAIN e.cell -> Cells] /\ DOMAIN e.cell \subseteq 1 .. MaxBuckets
  <2>1. DOMAIN s \subseteq 1 .. MaxBuckets
    BY DEF CellsChained, s
  <2>2. QED
    BY <1>7, <1>8, <2>1
<1>10. \E D : Chained(e.head, CellLinks(e.cell), CellHomes(e.cell), D)
  <2>1. a \in DOMAIN CellLinks(s) /\ DOMAIN CellLinks(e.cell) = DOMAIN CellLinks(s) \ {a}
    BY <1>3, <1>7 DEF CellLinks, s
  <2>2. ASSUME NEW x \in DOMAIN CellLinks(e.cell)
        PROVE  /\ CellLinks(e.cell)[x] = IF CellLinks(s)[x] = a THEN CellLinks(s)[a] ELSE CellLinks(s)[x]
               /\ CellHomes(e.cell)[x] = CellHomes(s)[x]
    <3>0. DOMAIN CellLinks(e.cell) = DOMAIN e.cell /\ DOMAIN CellLinks(s) = DOMAIN s
      BY DEF CellLinks
    <3>1. x \in DOMAIN e.cell /\ x \in DOMAIN s /\ a \in DOMAIN s
      BY <2>1, <3>0
    <3>2. CellLinks(e.cell)[x] = e.cell[x].next /\ CellLinks(s)[x] = s[x].next /\ CellLinks(s)[a] = s[a].next
      BY <3>1 DEF CellLinks
    <3>3. CellHomes(e.cell)[x] = BucketOf(e.cell[x].value) /\ CellHomes(s)[x] = BucketOf(s[x].value)
      BY <3>1 DEF CellHomes
    <3>4. QED
      BY <1>7, <1>8, <3>1, <3>2, <3>3
  <2>3. e.head = IF d.head[b] = a THEN [d.head EXCEPT ![b] = CellLinks(s)[a]] ELSE d.head
    BY <1>3, <1>7 DEF s
  <2>4. b = CellHomes(s)[a]
    BY <1>4
  <2>5. QED
    BY <1>2, <2>1, <2>2, <2>3, <2>4, ChainsShrink
<1>11. \A x, y \in DOMAIN e.cell : e.cell[x].value = e.cell[y].value => x = y
  <2>1. \A x, y \in DOMAIN s : s[x].value = s[y].value => x = y
    BY DEF CellsChained, s
  <2>2. QED
    BY <1>7, <1>8, <2>1
<1>12. e.head \in [0 .. IdxHashSize - 1 -> Nat]
  <2>1. d.head \in [0 .. IdxHashSize - 1 -> Nat]
    BY DEF CellsChained
  <2>2. e.head = (IF d.head[b] = a THEN [d.head EXCEPT ![b] = s[a].next] ELSE d.head)
    BY <1>7
  <2>3. s[a].next \in Nat
    BY <1>4
  <2>4. QED
    BY <2>1, <2>2, <2>3
<1>13. CellsChained(e.cell, e.head)
  BY <1>9, <1>10, <1>11, <1>12 DEF CellsChained
<1>14. \A x \in DOMAIN e.cell : e.cell[x].value = s[x].value /\ e.cell[x].rows = s[x].rows
  <2>1. \A x \in DOMAIN e.cell : x \in DOMAIN s /\ e.cell[x] = Relinked(x)
    BY <1>7
  <2>2. QED
    BY <1>8, <2>1
<1>15. QED
  BY <1>7, <1>13, <1>14 DEF s

LEMMA HoldsOk ==
  ASSUME NEW d, NEW N, TableHolds(d, N), NEW x \in BOOLEAN
  PROVE  TableHolds([d EXCEPT !.ok = x], N) /\ [d EXCEPT !.ok = x].ok = x
BY DEF TableHolds, IsIndex

\* The bucket at a takes other rows.
LEMMA RowsHold ==
  ASSUME NEW c, NEW hd, CellsChained(c, hd), NEW N, CellsHold(c, N), NEW a \in DOMAIN c,
         NEW c2, DOMAIN c2 = DOMAIN c,
         \A x \in DOMAIN c : c2[x].value = c[x].value /\ (x # a => c2[x].rows = c[x].rows),
         NEW M, \A r \in HashRows : M[r][c[a].value] = Times(r, c2[a].rows),
         \A r \in HashRows : \A w \in Values : w # c[a].value => M[r][w] = N[r][w]
  PROVE  CellsHold(c2, M)
<1>1. \A x \in DOMAIN c : c[x].value \in Values /\ (x # a => c[x].value # c[a].value)
  BY CellsAre DEF CellsChained, Cells
<1>2. ASSUME NEW x \in DOMAIN c2, NEW r \in HashRows PROVE Times(r, c2[x].rows) = M[r][c2[x].value]
  <2>1. Times(r, c[x].rows) = N[r][c[x].value]
    BY DEF CellsHold
  <2>2. CASE x = a
    BY <2>2
  <2>3. CASE x # a
    BY <1>1, <2>1, <2>3
  <2>4. QED
    BY <2>2, <2>3
<1>3. ASSUME NEW w \in Values, \A x \in DOMAIN c2 : c2[x].value # w, NEW r \in HashRows PROVE M[r][w] = 0
  <2>1. \A x \in DOMAIN c : c[x].value # w
    BY <1>3
  <2>2. N[r][w] = 0
    BY <2>1 DEF CellsHold
  <2>3. QED
    BY <2>1, <2>2
<1>4. QED
  BY <1>2, <1>3 DEF CellsHold

Counts(N) == \A r \in HashRows : \A w \in Values : N[r][w] \in Nat

\* M counts row in the bucket of v once more than N.
OneMore(N, M, row, v) ==
  \A r \in HashRows : \A w \in Values : M[r][w] = N[r][w] + IF r = row /\ w = v THEN 1 ELSE 0

LEMMA StoreHolds ==
  ASSUME NEW d, NEW N, TableHolds(d, N), d.ok, NEW v \in Values, NEW row \in HashRows,
         NEW M, OneMore(N, M, row, v), Counts(N)
  PROVE  LET e == Store(d, v, row) IN IF e.ok THEN TableHolds(e, M) ELSE TableHolds(e, N)
<1> DEFINE f == IF Bucket(d, v) = 0 THEN AddBucket(d, v) ELSE d
           b == Bucket(f, v)
           rs == <<row>> \o f.cell[b].rows
           e == [f EXCEPT !.cell[b].rows = rs]
<1>0. IsIndex(d) /\ CellsChained(d.cell, d.head) /\ CellsHold(d.cell, N) /\ \A x \in DOMAIN d.cell : d.cell[x].rows # <<>>
  BY DEF TableHolds
<1>1. CASE Bucket(d, v) = 0 /\ BucketRoom(d) = {}
  <2>1. Store(d, v, row) = [d EXCEPT !.ok = FALSE]
    BY <1>1 DEF Store
  <2>2. QED
    BY <2>1, HoldsOk
<1>2. CASE ~ (Bucket(d, v) = 0 /\ BucketRoom(d) = {})
  <2>1. Store(d, v, row) = e
    BY <1>2 DEF Store
  <2>2. /\ IsIndex(f) /\ CellsChained(f.cell, f.head) /\ CellsHold(f.cell, N) /\ f.ok
        /\ \E x \in DOMAIN f.cell : f.cell[x].value = v
        /\ \A x \in DOMAIN f.cell : f.cell[x].value # v => f.cell[x].rows # <<>>
    <3>1. CASE Bucket(d, v) = 0
      <4> HIDE DEF b, rs, e
      <4>1. \A x \in DOMAIN d.cell : d.cell[x].value # v
        <5>1. 0 \notin DOMAIN d.cell
          BY <1>0, CellsAre
        <5>2. QED
          BY <1>0, <3>1, <5>1, ValueBucket
      <4>2. f = AddBucket(d, v)
        BY <3>1
      <4> HIDE DEF f
      <4>r. BucketRoom(d) # {} /\ IsIndex(d) /\ CellsChained(d.cell, d.head)
        BY <1>0, <1>2, <3>1
      <4>3. /\ IsIndex(f) /\ CellsChained(f.cell, f.head) /\ (f.ok <=> d.ok)
            /\ \E a : /\ a \notin DOMAIN d.cell /\ DOMAIN f.cell = {a} \cup DOMAIN d.cell
                      /\ f.cell[a].value = v /\ f.cell[a].rows = <<>>
            /\ \A x \in DOMAIN d.cell : f.cell[x] = d.cell[x]
        BY <4>1, <4>2, <4>r, BucketAdded
      <4>4. PICK a : /\ a \notin DOMAIN d.cell /\ DOMAIN f.cell = {a} \cup DOMAIN d.cell
                     /\ f.cell[a].value = v /\ f.cell[a].rows = <<>>
        BY <4>3
      <4>5. \A r \in HashRows : Times(r, <<>>) = 0 /\ N[r][v] = 0
        <5>1. <<>> \in Seq(HashRows) /\ Range(<<>>) = {}
          BY DEF Range
        <5>2. \A r \in HashRows : Times(r, <<>>) = 0
          BY <5>1, TimesIs
        <5>3. QED
          BY <1>0, <4>1, <5>2 DEF CellsHold
      <4>6. CellsHold(f.cell, N)
        <5>1. ASSUME NEW x \in DOMAIN f.cell, NEW r \in HashRows PROVE Times(r, f.cell[x].rows) = N[r][f.cell[x].value]
          BY <1>0, <4>3, <4>4, <4>5 DEF CellsHold
        <5>2. ASSUME NEW w \in Values, \A x \in DOMAIN f.cell : f.cell[x].value # w, NEW r \in HashRows PROVE N[r][w] = 0
          BY <1>0, <4>3, <4>4, <5>2 DEF CellsHold
        <5>3. QED
          BY <5>1, <5>2 DEF CellsHold
      <4>7. QED
        BY <1>0, <4>3, <4>4, <4>6
    <3>2. CASE Bucket(d, v) # 0
      <4>1. f = d
        BY <3>2
      <4>2. \E x \in DOMAIN d.cell : d.cell[x].value = v
        BY <1>0, <3>2, ValueBucket
      <4>3. QED
        BY <1>0, <4>1, <4>2
    <3>3. QED
      BY <3>1, <3>2
  <2> HIDE DEF f
  <2>3. b \in DOMAIN f.cell /\ f.cell[b].value = v
    BY <2>2, ValueBucket
  <2> HIDE DEF b
  <2>4. f.cell[b].rows \in Seq(HashRows) /\ rs \in Seq(HashRows) /\ rs # <<>>
    <3>1. f.cell[b].rows \in Seq(HashRows)
      BY <2>2, <2>3, CellsAre DEF Cells
    <3>2. QED
      BY <3>1
  <2>5. \A r \in HashRows : M[r][v] = Times(r, rs)
    <3>1. \A r \in HashRows : Times(r, f.cell[b].rows) = N[r][v]
      BY <2>2, <2>3 DEF CellsHold
    <3>2. \A r \in HashRows : Times(r, rs) = Times(r, f.cell[b].rows) + IF r = row THEN 1 ELSE 0
      BY <2>4, TimesPrepended
    <3> HIDE DEF rs
    <3>3. QED
      BY <3>1, <3>2 DEF OneMore, Counts
  <2>6. \A r \in HashRows : \A w \in Values : w # f.cell[b].value => M[r][w] = N[r][w]
    BY <2>3 DEF OneMore, Counts
  <2> HIDE DEF rs
  <2>7. /\ IsIndex(e) /\ CellsChained(e.cell, e.head) /\ CellsHold(e.cell, M) /\ (e.ok <=> f.ok)
        /\ DOMAIN e.cell = DOMAIN f.cell /\ e.cell[b].rows = rs
        /\ \A x \in DOMAIN f.cell : /\ e.cell[x].value = f.cell[x].value
                                    /\ x # b => e.cell[x].rows = f.cell[x].rows
    <3>2. IsIndex(e) /\ e.cell = [f.cell EXCEPT ![b].rows = rs] /\ e.head = f.head
      BY <2>2 DEF IsIndex
    <3>3. e.ok <=> f.ok
      BY <2>2 DEF IsIndex
    <3> HIDE DEF e
    <3>4. /\ CellsChained(e.cell, f.head) /\ DOMAIN e.cell = DOMAIN f.cell /\ e.cell[b].rows = rs
          /\ \A x \in DOMAIN f.cell : e.cell[x].value = f.cell[x].value /\ (x # b => e.cell[x].rows = f.cell[x].rows)
      BY <2>2, <2>3, <2>4, <3>2, RowsSet
    <3>5. \A r \in HashRows : M[r][f.cell[b].value] = Times(r, e.cell[b].rows)
      BY <2>3, <2>5, <3>4
    <3>6. CellsHold(e.cell, M)
      <4>1. CellsChained(f.cell, f.head) /\ CellsHold(f.cell, N)
        BY <2>2
      <4>2. /\ DOMAIN e.cell = DOMAIN f.cell
            /\ \A x \in DOMAIN f.cell : e.cell[x].value = f.cell[x].value /\ (x # b => e.cell[x].rows = f.cell[x].rows)
        BY <3>4
      <4>3. b \in DOMAIN f.cell
        BY <2>3
      <4>4. QED
        BY <2>6, <3>5, <4>1, <4>2, <4>3, RowsHold
    <3>7. QED
      BY <3>2, <3>3, <3>4, <3>6
  <2> HIDE DEF e
  <2>8. \A x \in DOMAIN e.cell : e.cell[x].rows # <<>>
    <3>1. \A x \in DOMAIN f.cell : x # b => f.cell[x].value # v
      BY <2>2, <2>3 DEF CellsChained
    <3>2. QED
      BY <2>2, <2>4, <2>7, <3>1
  <2>9. TableHolds(e, M) /\ e.ok
    BY <2>2, <2>7, <2>8 DEF TableHolds
  <2>10. QED
    BY <2>1, <2>9
<1>3. QED
  BY <1>1, <1>2

LEMMA UnstoreHolds ==
  ASSUME NEW d, NEW N, TableHolds(d, N), d.ok, NEW v \in Values, NEW row \in HashRows,
         NEW M, N[row][v] # 0 => OneMore(M, N, row, v), Counts(N), Counts(M)
  PROVE  LET e == Unstore(d, v, row) IN
           IF N[row][v] = 0 THEN TableHolds(e, N) /\ ~ e.ok ELSE TableHolds(e, M) /\ e.ok
<1> DEFINE a == Bucket(d, v)
           c == d.cell
<1>0. IsIndex(d) /\ CellsChained(c, d.head) /\ CellsHold(c, N) /\ \A x \in DOMAIN c : c[x].rows # <<>>
  BY DEF TableHolds
<1>1. IF \E x \in DOMAIN c : c[x].value = v THEN a \in DOMAIN c /\ c[a].value = v ELSE a = 0
  BY <1>0, ValueBucket
<1>2. 0 \notin DOMAIN c /\ \A x \in DOMAIN c : c[x] \in Cells
  BY <1>0, CellsAre
<1> HIDE DEF a
<1>3. N[row][v] = 0 <=> (a = 0 \/ row \notin Range(c[a].rows))
  <2>1. CASE a = 0
    BY <1>0, <1>1, <1>2, <2>1 DEF CellsHold
  <2>2. CASE a # 0
    <3>1. a \in DOMAIN c /\ c[a].value = v
      BY <1>1, <2>2
    <3>2. Times(row, c[a].rows) = N[row][v] /\ c[a].rows \in Seq(HashRows)
      BY <1>0, <1>2, <3>1 DEF CellsHold, Cells
    <3>3. QED
      BY <2>2, <3>2, TimesIs
  <2>3. QED
    BY <2>1, <2>2
<1>4. CASE N[row][v] = 0
  <2>1. Unstore(d, v, row) = [d EXCEPT !.ok = FALSE]
    BY <1>3, <1>4 DEF Unstore, a
  <2>2. QED
    BY <1>4, <2>1, HoldsOk
<1>5. CASE N[row][v] # 0
  <2> DEFINE rs == RemoveFirst(c[a].rows, row)
             f == [d EXCEPT !.cell[a].rows = rs]
             e == IF f.cell[a].rows = <<>> THEN DropBucket(f, a) ELSE f
  <2>1. Unstore(d, v, row) = e
    BY <1>3, <1>5 DEF Unstore, a
  <2>2. a \in DOMAIN c /\ c[a].value = v /\ row \in Range(c[a].rows) /\ c[a].rows \in Seq(HashRows)
    BY <1>1, <1>2, <1>3, <1>5 DEF Cells
  <2>3. PICK k \in 1 .. Len(c[a].rows) : c[a].rows[k] = row /\ rs = Removed(c[a].rows, k)
    BY <2>2, FirstRemoved
  <2>4. rs \in Seq(HashRows)
    BY <2>2, <2>3, RemovedIs
  <2>5. \A r \in HashRows : M[r][v] = Times(r, rs)
    <3>1. \A r \in HashRows : Times(r, c[a].rows) = N[r][v]
      BY <1>0, <2>2 DEF CellsHold
    <3>2. \A r \in HashRows : Times(r, Removed(c[a].rows, k)) = Times(r, c[a].rows) - IF r = row THEN 1 ELSE 0
      BY <2>2, <2>3, TimesRemoved
    <3>3. \A r \in HashRows : N[r][v] = M[r][v] + IF r = row THEN 1 ELSE 0
      BY <1>5 DEF OneMore, Counts
    <3>4. \A r \in HashRows : N[r][v] \in Nat /\ M[r][v] \in Nat
      BY DEF Counts
    <3> HIDE DEF rs, c
    <3>5. QED
      BY <2>3, <3>1, <3>2, <3>3, <3>4
  <2>6. \A r \in HashRows : \A w \in Values : w # c[a].value => M[r][w] = N[r][w]
    <3>1. \A r \in HashRows : \A w \in Values : w # v => N[r][w] = M[r][w] + 0 /\ M[r][w] \in Nat
      BY <1>5 DEF OneMore, Counts
    <3>2. QED
      BY <2>2, <3>1
  <2> HIDE DEF rs
  <2>7. /\ IsIndex(f) /\ CellsChained(f.cell, f.head) /\ CellsHold(f.cell, M) /\ (f.ok <=> d.ok)
        /\ DOMAIN f.cell = DOMAIN c /\ f.cell[a].rows = rs
        /\ \A x \in DOMAIN c : /\ f.cell[x].value = c[x].value
                               /\ x # a => f.cell[x].rows = c[x].rows
    <3>2. IsIndex(f) /\ f.cell = [c EXCEPT ![a].rows = rs] /\ f.head = d.head
      BY <1>0 DEF IsIndex
    <3>3. f.ok <=> d.ok
      BY <1>0 DEF IsIndex
    <3> HIDE DEF f, c
    <3>4. /\ CellsChained(f.cell, d.head) /\ DOMAIN f.cell = DOMAIN c /\ f.cell[a].rows = rs
          /\ \A x \in DOMAIN c : f.cell[x].value = c[x].value /\ (x # a => f.cell[x].rows = c[x].rows)
      <4>1. CellsChained(c, d.head) /\ a \in DOMAIN c
        BY <1>0, <2>2
      <4>2. f.cell = [c EXCEPT ![a].rows = rs]
        BY <3>2
      <4>3. QED
        BY <2>4, <4>1, <4>2, RowsSet
    <3>5. \A r \in HashRows : M[r][c[a].value] = Times(r, f.cell[a].rows)
      BY <2>2, <2>5, <3>4
    <3>6. CellsHold(f.cell, M)
      BY <1>0, <2>2, <2>6, <3>4, <3>5, RowsHold
    <3>7. QED
      BY <3>2, <3>3, <3>4, <3>6
  <2> HIDE DEF f
  <2>8. CASE rs # <<>>
    <3>1. e = f
      BY <2>7, <2>8
    <3>2. TableHolds(f, M) /\ f.ok
      BY <1>0, <2>7, <2>8 DEF TableHolds
    <3>3. QED
      BY <1>5, <2>1, <3>1, <3>2
  <2>9. CASE rs = <<>>
    <3>1. e = DropBucket(f, a)
      BY <2>7, <2>9
    <3> HIDE DEF e
    <3>a. a \in DOMAIN f.cell
      BY <2>2, <2>7
    <3>2. /\ IsIndex(e) /\ CellsChained(e.cell, e.head) /\ DOMAIN e.cell = DOMAIN f.cell \ {a}
          /\ (e.ok <=> f.ok)
          /\ \A x \in DOMAIN e.cell : e.cell[x].value = f.cell[x].value /\ e.cell[x].rows = f.cell[x].rows
      BY <2>7, <3>1, <3>a, BucketDropped
    <3>3. CellsHold(e.cell, M)
      <4>1. ASSUME NEW x \in DOMAIN e.cell, NEW r \in HashRows PROVE Times(r, e.cell[x].rows) = M[r][e.cell[x].value]
        BY <2>7, <3>2 DEF CellsHold
      <4>2. ASSUME NEW w \in Values, \A x \in DOMAIN e.cell : e.cell[x].value # w, NEW r \in HashRows PROVE M[r][w] = 0
        <5>1. CASE w = v
          <6>1. Range(rs) = {} /\ <<>> \in Seq(HashRows)
            BY <2>9 DEF Range
          <6>2. Times(r, rs) = 0
            BY <2>9, <6>1, TimesIs
          <6>3. QED
            BY <2>5, <5>1, <6>2
        <5>2. CASE w # v
          <6>1. \A x \in DOMAIN f.cell : f.cell[x].value # w
            BY <2>2, <2>7, <3>2, <4>2, <5>2
          <6>2. QED
            BY <2>7, <6>1 DEF CellsHold
        <5>3. QED
          BY <5>1, <5>2
      <4>3. QED
        BY <4>1, <4>2 DEF CellsHold
    <3>4. TableHolds(e, M) /\ e.ok
      BY <1>0, <2>7, <3>2, <3>3 DEF TableHolds
    <3>5. QED
      BY <1>5, <2>1, <3>4
  <2>10. QED
    BY <2>8, <2>9
<1>6. QED
  BY <1>4, <1>5

IndexStates == [cell : UNION {[D -> Cells] : D \in SUBSET (1 .. MaxBuckets)},
                head : [0 .. IdxHashSize - 1 -> Nat], ok : BOOLEAN]

LEMMA HoldsState ==
  ASSUME NEW d, NEW N, TableHolds(d, N)
  PROVE  d \in IndexStates
<1>1. DOMAIN d = {"cell", "head", "ok"} /\ d = [x \in DOMAIN d |-> d[x]] /\ d.ok \in BOOLEAN
  BY DEF TableHolds, IsIndex
<1>2. d.cell \in UNION {[D -> Cells] : D \in SUBSET (1 .. MaxBuckets)} /\ d.head \in [0 .. IdxHashSize - 1 -> Nat]
  <2>1. DOMAIN d.cell \in SUBSET (1 .. MaxBuckets) /\ d.cell \in [DOMAIN d.cell -> Cells]
        /\ d.head \in [0 .. IdxHashSize - 1 -> Nat]
    BY DEF TableHolds, CellsChained
  <2>2. QED
    BY <2>1
<1>3. QED
  BY <1>1, <1>2 DEF IndexStates

\* As N, but for row, which is counted as often as its values have a value
\* from i to j.
Entered(N, row, values, i, j) ==
  [r \in HashRows |-> [w \in Values |-> IF r = row THEN Within(values, i, j, w) ELSE N[r][w]]]

LEMMA EnteredCounts ==
  ASSUME NEW N, Counts(N), NEW row \in HashRows, NEW values, NEW i \in Int, NEW j \in Int
  PROVE  Counts(Entered(N, row, values, i, j))
<1>1. \A w : Within(values, i, j, w) \in Nat
  BY WithinIs
<1>2. QED
  BY <1>1 DEF Counts, Entered

LEMMA HoldsSame ==
  ASSUME NEW d, NEW N, NEW M, TableHolds(d, N), \A r \in HashRows : \A w \in Values : M[r][w] = N[r][w]
  PROVE  TableHolds(d, M)
<1>1. \A a \in DOMAIN d.cell : d.cell[a].value \in Values
  BY CellsAre DEF TableHolds, Cells
<1>2. QED
  BY <1>1 DEF TableHolds, CellsHold

Absent(N, row) == \A w \in Values : N[row][w] = 0

LEMMA AllStored ==
  ASSUME NEW d, NEW N, TableHolds(d, N), d.ok, Counts(N), NEW row \in HashRows, NEW values \in Seq(Values),
         Absent(N, row)
  PROVE  LET e == StoreAll(d, row, values) IN
         \E k \in 0 .. Len(values) : TableHolds(e, Entered(N, row, values, 1, k)) /\ (e.ok => k = Len(values))
<1> DEFINE m == Len(values)
           After(n, e) == IF e.ok THEN Store(e, values[n], row) ELSE e
           Walk(f) == f = [n \in 0 .. m |-> IF n = 0 THEN d ELSE After(n, f[n - 1])]
           done == CHOOSE f : Walk(f)
           Good(n, e) == \E k \in 0 .. n : TableHolds(e, Entered(N, row, values, 1, k)) /\ (e.ok => k = n)
           S == [n \in 0 .. m |-> {e \in IndexStates : Good(n, e)}]
           step == [n \in 1 .. m |-> [e \in IndexStates |-> After(n, e)]]
<1>1. m \in Nat /\ \A n \in 1 .. m : values[n] \in Values
  OBVIOUS
<1> HIDE DEF m
<1>2. d \in S[0]
  <2>1. \A r \in HashRows : \A w \in Values : Entered(N, row, values, 1, 0)[r][w] = N[r][w]
    <3>1. \A w : Within(values, 1, 0, w) = 0
      BY WithinIs
    <3>2. QED
      BY <3>1 DEF Entered, Absent
  <2>2. TableHolds(d, Entered(N, row, values, 1, 0))
    <3> DEFINE M == Entered(N, row, values, 1, 0)
    <3>1. \A r \in HashRows : \A w \in Values : M[r][w] = N[r][w]
      BY <2>1
    <3> HIDE DEF M
    <3>2. TableHolds(d, M)
      BY <3>1, HoldsSame
    <3>3. QED
      BY <3>2 DEF M
  <2>3. d \in IndexStates
    BY HoldsState
  <2>4. 0 \in 0 .. m /\ 0 \in 0 .. 0
    BY <1>1
  <2>5. Good(0, d)
    BY <2>2, <2>4
  <2> HIDE DEF Good
  <2>6. QED
    BY <2>3, <2>4, <2>5
<1>3. ASSUME NEW n \in 1 .. m, NEW e \in IndexStates, Good(n - 1, e)
      PROVE  After(n, e) \in IndexStates /\ Good(n, After(n, e))
  <2>1. PICK k \in 0 .. n - 1 : TableHolds(e, Entered(N, row, values, 1, k)) /\ (e.ok => k = n - 1)
    BY <1>3
  <2>2. n \in Nat /\ n - 1 \in Nat /\ k \in 0 .. n /\ n \in 0 .. n
    BY <1>1
  <2>3. CASE ~ e.ok
    <3>1. After(n, e) = e
      BY <2>3
    <3>2. Good(n, e)
      BY <2>1, <2>2, <2>3
    <3> HIDE DEF After, Good
    <3>3. QED
      BY <3>1, <3>2
  <2>4. CASE e.ok
    <3> DEFINE K == Entered(N, row, values, 1, n - 1)
               M == Entered(N, row, values, 1, n)
               f == Store(e, values[n], row)
    <3>1. After(n, e) = f
      BY <2>4
    <3>2. Counts(K)
      <4>1. 1 \in Int /\ n - 1 \in Int
        BY <2>2
      <4>2. QED
        BY <4>1, EnteredCounts
    <3>3. OneMore(K, M, row, values[n])
      <4>1. \A w : Within(values, 1, n, w) = Within(values, 1, n - 1, w) + IF values[n] = w THEN 1 ELSE 0
        <5> DEFINE h == n - 1
        <5>1. 1 \in Int /\ n \in Int /\ 1 <= n /\ h = n - 1
          BY <2>2
        <5> HIDE DEF h
        <5>2. TAKE w
        <5>3. Within(values, 1, n, w) = Within(values, 1, h, w) + IF values[n] = w THEN 1 ELSE 0
          <6>1. \A i, j, g \in Int : i <= j /\ g = j - 1 =>
                  Within(values, i, j, w) = Within(values, i, g, w) + IF values[j] = w THEN 1 ELSE 0
            BY WithinLast
          <6>2. h \in Int
            BY <5>1
          <6>3. QED
            BY <5>1, <6>1, <6>2
        <5>4. QED
          BY <5>3 DEF h
      <4>2. \A r \in HashRows : \A w \in Values : N[r][w] \in Nat
        BY DEF Counts
      <4>3. QED
        BY <4>1, <4>2 DEF OneMore, Entered
    <3>4. TableHolds(e, K)
      BY <2>1, <2>4
    <3> HIDE DEF K, M, f
    <3>5. IF f.ok THEN TableHolds(f, M) ELSE TableHolds(f, K)
      BY <1>1, <2>4, <3>2, <3>3, <3>4, StoreHolds DEF f
    <3>6. f \in IndexStates
      BY <3>5, HoldsState
    <3>7. Good(n, f)
      <4>1. CASE f.ok
        BY <2>2, <3>5, <4>1 DEF M
      <4>2. CASE ~ f.ok
        <5>1. n - 1 \in 0 .. n
          BY <2>2
        <5>2. QED
          BY <3>5, <4>2, <5>1 DEF K
      <4>3. QED
        BY <4>1, <4>2
    <3>8. QED
      BY <3>1, <3>6, <3>7
  <2>5. QED
    BY <2>3, <2>4
<1> HIDE DEF Good, After
<1>4. \A n \in 1 .. m : \A e \in S[n - 1] : step[n][e] \in S[n]
  <2>1. \A n \in 1 .. m : n - 1 \in 0 .. m /\ n \in 0 .. m
    BY <1>1
  <2>2. QED
    BY <1>3, <2>1
<1>5. PICK f : /\ f = [n \in 0 .. m |-> IF n = 0 THEN d ELSE step[n][f[n - 1]]]
               /\ \A n \in 0 .. m : f[n] \in S[n]
  <2> HIDE DEF S, step
  <2>1. m \in Nat /\ d \in S[0]
    BY <1>1, <1>2
  <2>2. PICK f : Steps(f, m, d, step) /\ \A n \in 0 .. m : f[n] \in S[n]
    BY <1>4, <2>1, Iteration
  <2>3. QED
    BY <2>2 DEF Steps
<1>6. Walk(f)
  <2>1. ASSUME NEW n \in 0 .. m PROVE f[n] = IF n = 0 THEN d ELSE After(n, f[n - 1])
    <3>1. CASE n = 0
      BY <1>5, <3>1
    <3>2. CASE n # 0
      <4>1. n \in 1 .. m /\ n - 1 \in 0 .. m
        BY <1>1, <3>2
      <4>2. f[n - 1] \in IndexStates
        BY <1>5, <4>1
      <4>3. f[n] = step[n][f[n - 1]]
        BY <1>5, <3>2
      <4>4. QED
        BY <3>2, <4>1, <4>2, <4>3
    <3>3. QED
      BY <3>1, <3>2
  <2>2. f = [n \in 0 .. m |-> f[n]]
    BY <1>5
  <2>3. QED
    BY <2>1, <2>2
<1>7. Walk(done)
  <2> HIDE DEF Walk
  <2>1. QED
    BY <1>6
<1> HIDE DEF done
<1>8. \A n \in 0 .. m : done[n] \in IndexStates /\ Good(n, done[n])
  <2> DEFINE T == {n \in 0 .. m : done[n] \in IndexStates /\ Good(n, done[n])}
  <2>1. 0 \in T
    <3>1. 0 \in 0 .. m /\ done[0] = d
      BY <1>1, <1>7
    <3>2. QED
      BY <1>2, <3>1
  <2>2. ASSUME NEW n \in 1 .. m, n - 1 \in T PROVE n \in T
    <3>1. done[n] = After(n, done[n - 1]) /\ n \in 0 .. m
      BY <1>1, <1>7
    <3>2. QED
      BY <1>3, <2>2, <3>1
  <2> HIDE DEF T
  <2>3. 0 .. m \subseteq T
    BY <1>1, <2>1, <2>2, UpTo
  <2>4. QED
    BY <2>3 DEF T
<1>9. StoreAll(d, row, values) = done[m]
  BY DEF StoreAll, done, Walk, After, m
<1>10. Good(m, done[m])
  BY <1>1, <1>8
<1>11. QED
  BY <1>9, <1>10 DEF Good, m

LEMMA AllUnstored ==
  ASSUME NEW d, NEW N, TableHolds(d, N), d.ok, Counts(N), NEW row \in HashRows, NEW values \in Seq(Values),
         NEW k \in 0 .. Len(values), \A w \in Values : N[row][w] = Within(values, 1, k, w)
  PROVE  TableHolds(UnstoreAll(d, row, values), Entered(N, row, values, 1, 0))
<1> DEFINE m == Len(values)
           After(n, e) == IF e.ok THEN Unstore(e, values[n], row) ELSE e
           Walk(f) == f = [n \in 0 .. m |-> IF n = 0 THEN d ELSE After(n, f[n - 1])]
           done == CHOOSE f : Walk(f)
           Good(n, e) == IF n <= k THEN TableHolds(e, Entered(N, row, values, n + 1, k)) /\ e.ok
                         ELSE TableHolds(e, Entered(N, row, values, 1, 0))
           S == [n \in 0 .. m |-> {e \in IndexStates : Good(n, e)}]
           step == [n \in 1 .. m |-> [e \in IndexStates |-> After(n, e)]]
<1>1. m \in Nat /\ k \in 0 .. m /\ \A n \in 1 .. m : values[n] \in Values
  OBVIOUS
<1> HIDE DEF m
<1>0. ASSUME NEW e, NEW i \in Int, NEW j \in Int, i > j
      PROVE  TableHolds(e, Entered(N, row, values, i, j)) <=> TableHolds(e, Entered(N, row, values, 1, 0))
  <2> DEFINE K == Entered(N, row, values, i, j)
             M == Entered(N, row, values, 1, 0)
  <2>1. \A w : Within(values, i, j, w) = 0 /\ Within(values, 1, 0, w) = 0
    BY <1>0, WithinIs
  <2>2. \A r \in HashRows : \A w \in Values : M[r][w] = K[r][w]
    BY <2>1 DEF Entered
  <2> HIDE DEF K, M
  <2>3. TableHolds(e, K) <=> TableHolds(e, M)
    BY <2>2, HoldsSame
  <2>4. QED
    BY <2>3 DEF K, M
<1>2. d \in S[0]
  <2> DEFINE M == Entered(N, row, values, 1, k)
  <2>1. \A r \in HashRows : \A w \in Values : M[r][w] = N[r][w]
    BY DEF Entered
  <2> HIDE DEF M
  <2>2. TableHolds(d, M)
    BY <2>1, HoldsSame
  <2>3. d \in IndexStates
    BY HoldsState
  <2>4. 0 \in 0 .. m /\ 0 <= k /\ 0 + 1 = 1
    BY <1>1
  <2>5. Good(0, d)
    BY <2>2, <2>4 DEF M
  <2> HIDE DEF Good
  <2>6. QED
    BY <2>3, <2>4, <2>5
<1>3. ASSUME NEW n \in 1 .. m, NEW e \in IndexStates, Good(n - 1, e)
      PROVE  After(n, e) \in IndexStates /\ Good(n, After(n, e))
  <2>1. n \in Nat /\ n - 1 \in Nat /\ k \in Nat /\ (n - 1) + 1 = n
    BY <1>1
  <2>2. CASE n <= k
    <3> DEFINE K == Entered(N, row, values, n, k)
               M == Entered(N, row, values, n + 1, k)
               f == Unstore(e, values[n], row)
    <3>1. TableHolds(e, K) /\ e.ok
      <4>1. n - 1 <= k
        BY <2>1, <2>2
      <4>2. QED
        BY <1>3, <2>1, <4>1
    <3>2. After(n, e) = f
      BY <3>1
    <3>3. Counts(K) /\ Counts(M)
      <4>1. n \in Int /\ k \in Int /\ n + 1 \in Int
        BY <2>1
      <4>2. QED
        BY <4>1, EnteredCounts
    <3>4. \A w : Within(values, n, k, w) = Within(values, n + 1, k, w) + IF values[n] = w THEN 1 ELSE 0
      <4>1. n \in Int /\ k \in Int
        BY <2>1
      <4>2. QED
        BY <2>2, <4>1, WithinFirst
    <3>5. OneMore(M, K, row, values[n])
      <4>1. \A r \in HashRows : \A w \in Values : N[r][w] \in Nat
        BY DEF Counts
      <4>2. QED
        BY <3>4, <4>1 DEF OneMore, Entered
    <3>6. K[row][values[n]] # 0
      <4>1. Within(values, n + 1, k, values[n]) \in Nat
        BY <2>1, WithinIs
      <4>2. K[row][values[n]] = Within(values, n, k, values[n])
        BY <1>1 DEF Entered
      <4>3. QED
        BY <3>4, <4>1, <4>2
    <3> HIDE DEF K, M, f
    <3>7. TableHolds(f, M) /\ f.ok
      BY <1>1, <3>1, <3>3, <3>5, <3>6, UnstoreHolds DEF f
    <3>8. f \in IndexStates
      BY <3>7, HoldsState
    <3>9. QED
      BY <2>2, <3>2, <3>7, <3>8 DEF M
  <2>3. CASE ~ (n <= k)
    <3> DEFINE K == Entered(N, row, values, 1, 0)
               f == Unstore(e, values[n], row)
    <3>1. TableHolds(e, K)
      <4>1. CASE n - 1 <= k
        <5>1. n > k /\ n \in Int /\ k \in Int
          BY <2>1, <2>3
        <5>2. TableHolds(e, Entered(N, row, values, n, k))
          BY <1>3, <2>1, <4>1
        <5>3. QED
          BY <1>0, <5>1, <5>2
      <4>2. CASE ~ (n - 1 <= k)
        BY <1>3, <4>2
      <4>3. QED
        BY <4>1, <4>2
    <3>2. Counts(K)
      BY EnteredCounts
    <3>3. K[row][values[n]] = 0
      <4>1. \A w : Within(values, 1, 0, w) = 0
        BY WithinIs
      <4>2. QED
        BY <1>1, <4>1 DEF Entered
    <3> HIDE DEF K, f
    <3>4. TableHolds(After(n, e), K)
      <4>1. CASE e.ok
        <5>1. TableHolds(f, K)
          BY <1>1, <3>1, <3>2, <3>3, <4>1, UnstoreHolds DEF f
        <5>2. QED
          BY <4>1, <5>1 DEF f
      <4>2. CASE ~ e.ok
        BY <3>1, <4>2
      <4>3. QED
        BY <4>1, <4>2
    <3> HIDE DEF After
    <3>5. After(n, e) \in IndexStates
      BY <3>4, HoldsState
    <3>6. QED
      BY <2>3, <3>4, <3>5 DEF K
  <2>4. QED
    BY <2>2, <2>3
<1> HIDE DEF Good, After
<1>4. \A n \in 1 .. m : \A e \in S[n - 1] : step[n][e] \in S[n]
  <2>1. \A n \in 1 .. m : n - 1 \in 0 .. m /\ n \in 0 .. m
    BY <1>1
  <2>2. QED
    BY <1>3, <2>1
<1>5. PICK f : /\ f = [n \in 0 .. m |-> IF n = 0 THEN d ELSE step[n][f[n - 1]]]
               /\ \A n \in 0 .. m : f[n] \in S[n]
  <2> HIDE DEF S, step
  <2>1. m \in Nat /\ d \in S[0]
    BY <1>1, <1>2
  <2>2. PICK f : Steps(f, m, d, step) /\ \A n \in 0 .. m : f[n] \in S[n]
    BY <1>4, <2>1, Iteration
  <2>3. QED
    BY <2>2 DEF Steps
<1>6. Walk(f)
  <2>1. ASSUME NEW n \in 0 .. m PROVE f[n] = IF n = 0 THEN d ELSE After(n, f[n - 1])
    <3>1. CASE n = 0
      BY <1>5, <3>1
    <3>2. CASE n # 0
      <4>1. n \in 1 .. m /\ n - 1 \in 0 .. m
        BY <1>1, <3>2
      <4>2. f[n - 1] \in IndexStates
        BY <1>5, <4>1
      <4>3. f[n] = step[n][f[n - 1]]
        BY <1>5, <3>2
      <4>4. QED
        BY <3>2, <4>1, <4>2, <4>3
    <3>3. QED
      BY <3>1, <3>2
  <2>2. f = [n \in 0 .. m |-> f[n]]
    BY <1>5
  <2>3. QED
    BY <2>1, <2>2
<1>7. Walk(done)
  <2> HIDE DEF Walk
  <2>1. QED
    BY <1>6
<1> HIDE DEF done
<1>8. \A n \in 0 .. m : done[n] \in IndexStates /\ Good(n, done[n])
  <2> DEFINE T == {n \in 0 .. m : done[n] \in IndexStates /\ Good(n, done[n])}
  <2>1. 0 \in T
    <3>1. 0 \in 0 .. m /\ done[0] = d
      BY <1>1, <1>7
    <3>2. QED
      BY <1>2, <3>1
  <2>2. ASSUME NEW n \in 1 .. m, n - 1 \in T PROVE n \in T
    <3>1. done[n] = After(n, done[n - 1]) /\ n \in 0 .. m
      BY <1>1, <1>7
    <3>2. QED
      BY <1>3, <2>2, <3>1
  <2> HIDE DEF T
  <2>3. 0 .. m \subseteq T
    BY <1>1, <2>1, <2>2, UpTo
  <2>4. QED
    BY <2>3 DEF T
<1>9. UnstoreAll(d, row, values) = done[m]
  BY DEF UnstoreAll, done, Walk, After, m
<1>10. Good(m, done[m])
  BY <1>1, <1>8
<1>11. QED
  <2>1. CASE m <= k
    <3>1. TableHolds(done[m], Entered(N, row, values, m + 1, k)) /\ m + 1 > k /\ m + 1 \in Int /\ k \in Int
      BY <1>1, <1>10, <2>1 DEF Good
    <3>2. QED
      BY <1>0, <1>9, <3>1
  <2>2. CASE ~ (m <= k)
    BY <1>9, <1>10, <2>2 DEF Good
  <2>3. QED
    BY <2>1, <2>2

\* What N counts of a row: nothing if it is not there, else the first of its
\* values, and all of them if it was entered.
RowCounted(N, val, ent, row) ==
  IF row \in DOMAIN val
  THEN \E k \in 0 .. Len(val[row]) : /\ \A w \in Values : N[row][w] = Within(val[row], 1, k, w)
                                     /\ row \in ent => k = Len(val[row])
  ELSE Absent(N, row)

HashInv ==
  /\ entered \subseteq DOMAIN value /\ DOMAIN value \subseteq HashRows /\ value \in [DOMAIN value -> RowValues]
  /\ \E N : TableHolds(HashNow, N) /\ Counts(N) /\ \A row \in HashRows : RowCounted(N, value, entered, row)

LEMMA NowHolds ==
  ASSUME NEW d, NEW N, TableHolds(d, N), HashResult(d)
  PROVE  TableHolds(HashNow, N)'
BY DEF TableHolds, IsIndex, HashNow, HashResult

LEMMA HashStart == HashInit => HashInv
<1> SUFFICES ASSUME HashInit PROVE HashInv
  OBVIOUS
<1> DEFINE N == [r \in HashRows |-> [w \in Values |-> 0]]
<1>1. IsIndex(HashNow) /\ HashNow.cell = <<>> /\ HashNow.head = [h \in 0 .. IdxHashSize - 1 |-> 0]
  BY DEF HashInit, HashNow, IsIndex
<1>2. DOMAIN <<>> = {} /\ <<>> \in [{} -> Cells]
  OBVIOUS
<1>3. Chained(head, CellLinks(cell), CellHomes(cell), [h \in 0 .. IdxHashSize - 1 |-> <<>>])
  <2>1. DOMAIN CellLinks(cell) = {} /\ IsFiniteSet({})
    BY FS_EmptySet DEF CellLinks, HashInit
  <2>2. IsList(0, CellLinks(cell), <<>>) /\ Range(<<>>) = {}
    BY DEF IsList, Range
  <2>3. QED
    BY <2>1, <2>2 DEF Chained, HashInit
<1>4. CellsChained(cell, head)
  <2>1. head \in [0 .. IdxHashSize - 1 -> Nat] /\ cell = <<>>
    BY DEF HashInit
  <2>2. QED
    BY <1>2, <1>3, <2>1 DEF CellsChained
<1>5. CellsHold(cell, N) /\ Counts(N)
  BY <1>2 DEF CellsHold, Counts, HashInit
<1>6. TableHolds(HashNow, N)
  BY <1>1, <1>2, <1>4, <1>5 DEF TableHolds, HashNow
<1>7. \A row \in HashRows : Absent(N, row)
  BY DEF Absent
<1> HIDE DEF N
<1>8. DOMAIN value = {} /\ entered = {} /\ value \in [{} -> RowValues]
  BY <1>2 DEF HashInit
<1>9. QED
  BY <1>5, <1>6, <1>7, <1>8 DEF HashInv, RowCounted

\* The row leaves, and no other is concerned.
LEMMA RowUnstored ==
  ASSUME HashInv, NEW row \in DOMAIN value
  PROVE  \E N : /\ TableHolds(UnstoreAll(HashNow, row, value[row]), N) /\ Counts(N) /\ Absent(N, row)
                /\ \A r \in HashRows : r # row => RowCounted(N, value, entered, r)
<1>1. PICK N : TableHolds(HashNow, N) /\ Counts(N) /\ \A r \in HashRows : RowCounted(N, value, entered, r)
  BY DEF HashInv
<1>2. row \in HashRows /\ value[row] \in Seq(Values) /\ HashNow.ok
  BY RowsAssumption DEF HashInv, HashNow
<1>3. PICK k \in 0 .. Len(value[row]) : \A w \in Values : N[row][w] = Within(value[row], 1, k, w)
  BY <1>1, <1>2 DEF RowCounted
<1> DEFINE M == Entered(N, row, value[row], 1, 0)
<1>4. TableHolds(UnstoreAll(HashNow, row, value[row]), M)
  BY <1>1, <1>2, <1>3, AllUnstored
<1>5. Counts(M)
  BY <1>1, <1>2, EnteredCounts
<1>6. Absent(M, row)
  <2>1. \A s, w : Within(s, 1, 0, w) = 0
    BY WithinIs
  <2>2. QED
    BY <1>2, <2>1 DEF Absent, Entered
<1>7. ASSUME NEW r \in HashRows, r # row PROVE RowCounted(M, value, entered, r)
  <2>1. \A w \in Values : M[r][w] = N[r][w]
    BY <1>7 DEF Entered
  <2>2. RowCounted(N, value, entered, r)
    BY <1>1
  <2> HIDE DEF M
  <2>3. QED
    BY <2>1, <2>2 DEF RowCounted, Absent
<1> HIDE DEF M
<1>8. QED
  BY <1>4, <1>5, <1>6, <1>7

\* A row that is in no bucket is entered with values.
LEMMA RowStored ==
  ASSUME NEW d, NEW N, TableHolds(d, N), Counts(N), d.ok
  PROVE  \A row \in HashRows : \A values \in RowValues : Absent(N, row) =>
           LET e == StoreAll(d, row, values) IN
           \E M : /\ TableHolds(e, M) /\ Counts(M)
                  /\ \E k \in 0 .. Len(values) : /\ \A w \in Values : M[row][w] = Within(values, 1, k, w)
                                                 /\ e.ok => k = Len(values)
                  /\ \A r \in HashRows : r # row => \A w \in Values : M[r][w] = N[r][w]
<1> SUFFICES ASSUME NEW row \in HashRows, NEW values \in RowValues, Absent(N, row)
    PROVE  LET e == StoreAll(d, row, values) IN
           \E M : /\ TableHolds(e, M) /\ Counts(M)
                  /\ \E k \in 0 .. Len(values) : /\ \A w \in Values : M[row][w] = Within(values, 1, k, w)
                                                 /\ e.ok => k = Len(values)
                  /\ \A r \in HashRows : r # row => \A w \in Values : M[r][w] = N[r][w]
  OBVIOUS
<1> DEFINE e == StoreAll(d, row, values)
<1>1. values \in Seq(Values)
  BY RowsAssumption
<1>2. PICK k \in 0 .. Len(values) : TableHolds(e, Entered(N, row, values, 1, k)) /\ (e.ok => k = Len(values))
  BY <1>1, AllStored
<1> DEFINE M == Entered(N, row, values, 1, k)
<1>3. Counts(M)
  BY EnteredCounts
<1>4. \A w \in Values : M[row][w] = Within(values, 1, k, w)
  BY DEF Entered
<1>5. \A r \in HashRows : r # row => \A w \in Values : M[r][w] = N[r][w]
  BY DEF Entered
<1> HIDE DEF M, e
<1>6. TableHolds(e, M)
  BY <1>2 DEF M
<1>7. QED
  BY <1>2, <1>3, <1>4, <1>5, <1>6 DEF e

\* The rows other than row, their values and their counts stay.
OthersStay(row, N, M, val, ent, val2, ent2) ==
  \A r \in HashRows : r # row =>
    /\ r \in DOMAIN val2 <=> r \in DOMAIN val
    /\ r \in DOMAIN val => val2[r] = val[r]
    /\ r \in ent2 <=> r \in ent
    /\ RowCounted(N, val, ent, r) /\ \A w \in Values : M[r][w] = N[r][w]

LEMMA RowChanged ==
  ASSUME NEW row, NEW N, NEW M, NEW val, NEW ent, NEW val2, NEW ent2,
         OthersStay(row, N, M, val, ent, val2, ent2), RowCounted(M, val2, ent2, row)
  PROVE  \A r \in HashRows : RowCounted(M, val2, ent2, r)
<1> TAKE r \in HashRows
<1>1. CASE r # row
  <2>1. RowCounted(N, val, ent, r) /\ \A w \in Values : M[r][w] = N[r][w]
    BY <1>1 DEF OthersStay
  <2>2. r \in DOMAIN val2 <=> r \in DOMAIN val
    BY <1>1 DEF OthersStay
  <2>3. r \in ent2 <=> r \in ent
    BY <1>1 DEF OthersStay
  <2>4. CASE r \in DOMAIN val
    <3>1. val2[r] = val[r]
      BY <1>1, <2>4 DEF OthersStay
    <3>2. PICK k \in 0 .. Len(val[r]) : /\ \A w \in Values : N[r][w] = Within(val[r], 1, k, w)
                                        /\ r \in ent => k = Len(val[r])
      BY <2>1, <2>4 DEF RowCounted
    <3>3. \A w \in Values : M[r][w] = Within(val2[r], 1, k, w)
      BY <2>1, <3>1, <3>2
    <3>4. QED
      BY <2>2, <2>3, <2>4, <3>1, <3>2, <3>3 DEF RowCounted
  <2>5. CASE r \notin DOMAIN val
    BY <2>1, <2>2, <2>5 DEF RowCounted, Absent
  <2>6. QED
    BY <2>4, <2>5
<1>2. QED
  BY <1>1

LEMMA EnterStep ==
  ASSUME HashInv, NEW row \in HashRows, NEW values \in RowValues, EnterRow(row, values)
  PROVE  HashInv'
<1> DEFINE e == StoreAll(HashNow, row, values)
<1>1. row \notin DOMAIN value /\ HashResult(e) /\ value' = [r \in DOMAIN value \cup {row} |-> IF r = row THEN values ELSE value[r]]
      /\ entered' = IF e.ok THEN entered \cup {row} ELSE entered
  BY DEF EnterRow, Alive
<1>2. PICK N : TableHolds(HashNow, N) /\ Counts(N) /\ \A r \in HashRows : RowCounted(N, value, entered, r)
  BY DEF HashInv
<1>3. Absent(N, row) /\ HashNow.ok
  BY <1>1, <1>2 DEF RowCounted, HashNow
<1>4. PICK M : /\ TableHolds(e, M) /\ Counts(M)
               /\ \E k \in 0 .. Len(values) : /\ \A w \in Values : M[row][w] = Within(values, 1, k, w)
                                              /\ e.ok => k = Len(values)
               /\ \A r \in HashRows : r # row => \A w \in Values : M[r][w] = N[r][w]
  BY <1>2, <1>3, RowStored
<1> HIDE DEF e
<1>5. row \notin entered /\ entered \subseteq DOMAIN value /\ DOMAIN value \subseteq HashRows /\ value \in [DOMAIN value -> RowValues]
  BY <1>1 DEF HashInv
<1>6. DOMAIN value' = DOMAIN value \cup {row} /\ value'[row] = values
      /\ \A r \in DOMAIN value : r # row => value'[r] = value[r]
  BY <1>1
<1>7. (row \in entered' => e.ok) /\ \A r \in HashRows : r # row => (r \in entered' <=> r \in entered)
  BY <1>1, <1>5
<1>8. \A r \in HashRows : RowCounted(M, value', entered', r)
  <2>1. OthersStay(row, N, M, value, entered, value', entered')
    BY <1>2, <1>4, <1>6, <1>7 DEF OthersStay
  <2>2. RowCounted(M, value', entered', row)
    BY <1>4, <1>6, <1>7 DEF RowCounted
  <2>3. QED
    BY <2>1, <2>2, RowChanged
<1>9. TableHolds(HashNow, M)'
  BY <1>1, <1>4, NowHolds
<1>10. entered' \subseteq DOMAIN value' /\ DOMAIN value' \subseteq HashRows /\ value' \in [DOMAIN value' -> RowValues]
  BY <1>1, <1>5
<1>11. QED
  BY <1>4, <1>8, <1>9, <1>10 DEF HashInv

LEMMA LeaveStep ==
  ASSUME HashInv, NEW row \in HashRows, LeaveRow(row)
  PROVE  HashInv'
<1> DEFINE e == UnstoreAll(HashNow, row, value[row])
<1>1. row \in DOMAIN value /\ HashResult(e) /\ value' = [r \in DOMAIN value \ {row} |-> value[r]]
      /\ entered' = entered \ {row}
  BY DEF LeaveRow, Alive, Restrict
<1>2. PICK N : /\ TableHolds(e, N) /\ Counts(N) /\ Absent(N, row)
               /\ \A r \in HashRows : r # row => RowCounted(N, value, entered, r)
  BY <1>1, RowUnstored
<1> HIDE DEF e
<1>3. \A r \in HashRows : RowCounted(N, value', entered', r)
  <2> TAKE r \in HashRows
  <2>1. CASE r = row
    BY <1>1, <1>2, <2>1 DEF RowCounted
  <2>2. CASE r # row
    <3>1. RowCounted(N, value, entered, r)
      BY <1>2, <2>2
    <3>2. (r \in DOMAIN value' <=> r \in DOMAIN value) /\ (r \in entered' <=> r \in entered)
          /\ (r \in DOMAIN value => value'[r] = value[r])
      BY <1>1, <2>2
    <3>3. QED
      BY <3>1, <3>2 DEF RowCounted
  <2>3. QED
    BY <2>1, <2>2
<1>4. TableHolds(HashNow, N)'
  BY <1>1, <1>2, NowHolds
<1>5. entered' \subseteq DOMAIN value' /\ DOMAIN value' \subseteq HashRows /\ value' \in [DOMAIN value' -> RowValues]
  BY <1>1 DEF HashInv
<1>6. QED
  BY <1>2, <1>3, <1>4, <1>5 DEF HashInv

LEMMA ChangeStep ==
  ASSUME HashInv, NEW row \in HashRows, NEW values \in RowValues, ChangeRow(row, values)
  PROVE  HashInv'
<1> DEFINE d == [UnstoreAll(HashNow, row, value[row]) EXCEPT !.ok = TRUE]
           e == StoreAll(d, row, values)
<1>1. row \in DOMAIN value /\ HashResult(e) /\ value' = [value EXCEPT ![row] = values]
      /\ entered' = IF e.ok THEN entered \cup {row} ELSE entered \ {row}
  BY DEF ChangeRow, Alive
<1>2. PICK N : /\ TableHolds(UnstoreAll(HashNow, row, value[row]), N) /\ Counts(N) /\ Absent(N, row)
               /\ \A r \in HashRows : r # row => RowCounted(N, value, entered, r)
  BY <1>1, RowUnstored
<1>3. TableHolds(d, N) /\ d.ok
  BY <1>2, HoldsOk
<1> HIDE DEF d
<1>4. PICK M : /\ TableHolds(e, M) /\ Counts(M)
               /\ \E k \in 0 .. Len(values) : /\ \A w \in Values : M[row][w] = Within(values, 1, k, w)
                                              /\ e.ok => k = Len(values)
               /\ \A r \in HashRows : r # row => \A w \in Values : M[r][w] = N[r][w]
  BY <1>2, <1>3, RowStored
<1> HIDE DEF e
<1>5. entered \subseteq DOMAIN value /\ DOMAIN value \subseteq HashRows /\ value \in [DOMAIN value -> RowValues]
  BY DEF HashInv
<1>6. DOMAIN value' = DOMAIN value \cup {row} /\ value'[row] = values
      /\ \A r \in DOMAIN value : r # row => value'[r] = value[r]
  BY <1>1
<1>7. (row \in entered' => e.ok) /\ \A r \in HashRows : r # row => (r \in entered' <=> r \in entered)
  BY <1>1
<1>8. \A r \in HashRows : RowCounted(M, value', entered', r)
  <2>1. OthersStay(row, N, M, value, entered, value', entered')
    BY <1>2, <1>4, <1>6, <1>7 DEF OthersStay
  <2>2. RowCounted(M, value', entered', row)
    BY <1>4, <1>6, <1>7 DEF RowCounted
  <2>3. QED
    BY <2>1, <2>2, RowChanged
<1>9. TableHolds(HashNow, M)'
  BY <1>1, <1>4, NowHolds
<1>10. entered' \subseteq DOMAIN value' /\ DOMAIN value' \subseteq HashRows /\ value' \in [DOMAIN value' -> RowValues]
  BY <1>1, <1>5
<1>11. QED
  BY <1>4, <1>8, <1>9, <1>10 DEF HashInv

LEMMA HashInvExact == HashInv => HashIndexExact
<1> SUFFICES ASSUME HashInv PROVE HashIndexExact
  OBVIOUS
<1>1. PICK N : TableHolds(HashNow, N) /\ Counts(N) /\ \A r \in HashRows : RowCounted(N, value, entered, r)
  BY DEF HashInv
<1>2. /\ HashNow.cell = cell /\ HashNow.head = head
      /\ CellsChained(cell, head) /\ CellsHold(cell, N) /\ \A a \in DOMAIN cell : cell[a].rows # <<>>
  <2>1. HashNow.cell = cell /\ HashNow.head = head
    BY DEF HashNow
  <2>2. QED
    BY <1>1, <2>1 DEF TableHolds
<1>3. \A a \in DOMAIN cell : cell[a] \in Cells
  BY <1>2, CellsAre
<1>4. ASSUME NEW v \in Values
      PROVE  IF \E a \in DOMAIN cell : cell[a].value = v
             THEN Bucket(HashNow, v) \in DOMAIN cell /\ cell[Bucket(HashNow, v)].value = v
             ELSE Bucket(HashNow, v) = 0
  <2>1. CellsChained(HashNow.cell, HashNow.head)
    BY <1>2
  <2>2. IF \E a \in DOMAIN HashNow.cell : HashNow.cell[a].value = v
        THEN Bucket(HashNow, v) \in DOMAIN HashNow.cell /\ HashNow.cell[Bucket(HashNow, v)].value = v
        ELSE Bucket(HashNow, v) = 0
    BY <2>1, ValueBucket
  <2>3. QED
    BY <1>2, <2>2
<1>5. 0 \notin DOMAIN cell
  BY <1>2, CellsAre
<1>6. ASSUME NEW v \in Values, NEW row \in HashRows
      PROVE  Hits(v) \in Seq(HashRows) /\ Times(row, Hits(v)) = N[row][v]
  <2>1. CASE \E a \in DOMAIN cell : cell[a].value = v
    <3>1. Bucket(HashNow, v) \in DOMAIN cell /\ cell[Bucket(HashNow, v)].value = v
      BY <1>4, <2>1
    <3>2. Hits(v) = cell[Bucket(HashNow, v)].rows
      BY <1>5, <3>1 DEF Hits
    <3>3. QED
      BY <1>2, <1>3, <3>1, <3>2 DEF CellsHold, Cells
  <2>2. CASE ~ \E a \in DOMAIN cell : cell[a].value = v
    <3>1. Hits(v) = <<>>
      BY <1>4, <2>2 DEF Hits
    <3>2. <<>> \in Seq(HashRows) /\ Range(<<>>) = {}
      BY DEF Range
    <3>3. Times(row, <<>>) = 0
      BY <3>2, TimesIs
    <3>4. N[row][v] = 0
      BY <1>2, <2>2 DEF CellsHold
    <3>5. QED
      BY <3>1, <3>2, <3>3, <3>4
  <2>3. QED
    BY <2>1, <2>2
<1>7. ASSUME NEW v \in Values, NEW row \in HashRows
      PROVE  /\ row \in entered => Times(row, Hits(v)) = Times(v, value[row])
             /\ row \in Alive \ entered => Times(row, Hits(v)) <= Times(v, value[row])
             /\ row \notin Alive => row \notin Range(Hits(v))
  <2>1. Hits(v) \in Seq(HashRows) /\ Times(row, Hits(v)) = N[row][v]
    BY <1>6
  <2>2. CASE row \in DOMAIN value
    <3>1. PICK k \in 0 .. Len(value[row]) : /\ \A w \in Values : N[row][w] = Within(value[row], 1, k, w)
                                            /\ row \in entered => k = Len(value[row])
      BY <1>1, <2>2 DEF RowCounted
    <3>2. value[row] \in Seq(Values)
      BY <2>2, RowsAssumption DEF HashInv
    <3>3. Times(v, value[row]) = Within(value[row], 1, Len(value[row]), v)
      BY <3>2, TimesIs
    <3>4. Within(value[row], 1, k, v) <= Within(value[row], 1, Len(value[row]), v)
      <4> DEFINE S == Places(value[row], 1, k, v)
                 T == Places(value[row], 1, Len(value[row]), v)
      <4>1. Len(value[row]) \in Nat
        BY <3>2
      <4>2. S \subseteq T
        BY <4>1 DEF Places
      <4>3. IsFiniteSet(T)
        BY <4>1, WithinIs
      <4> HIDE DEF S, T
      <4>4. Cardinality(S) <= Cardinality(T)
        BY <4>2, <4>3, FS_Subset
      <4>5. QED
        BY <4>4 DEF Within, S, T
    <3>5. N[row][v] = Within(value[row], 1, k, v)
      BY <3>1
    <3>6. row \in entered => k = Len(value[row])
      BY <3>1
    <3>7. QED
      BY <2>1, <2>2, <3>3, <3>4, <3>5, <3>6 DEF Alive
  <2>3. CASE row \notin DOMAIN value
    <3>1. Times(row, Hits(v)) = 0
      BY <1>1, <2>1, <2>3 DEF RowCounted, Absent
    <3>2. row \notin Range(Hits(v))
      BY <2>1, <3>1, TimesIs
    <3>3. row \notin entered
      BY <2>3 DEF HashInv
    <3>4. QED
      BY <2>3, <3>2, <3>3 DEF Alive
  <2>4. QED
    BY <2>2, <2>3
<1>8. ASSUME NEW a \in DOMAIN cell PROVE cell[a].rows # <<>> /\ a = Bucket(HashNow, cell[a].value)
  <2>1. cell[a].value \in Values
    BY <1>3 DEF Cells
  <2>2. Bucket(HashNow, cell[a].value) \in DOMAIN cell /\ cell[Bucket(HashNow, cell[a].value)].value = cell[a].value
    BY <1>4, <2>1
  <2>3. QED
    BY <1>2, <2>2 DEF CellsChained
<1>9. QED
  BY <1>7, <1>8 DEF HashIndexExact

\* A search of a hash index finds a row once for every time it has the value
\* and none that is gone, after any calls.
THEOREM HashIndexIsExact == HashSpec => []HashIndexExact
<1>1. HashInit => HashInv
  BY HashStart
<1>2. HashInv /\ [HashNext]_hashVars => HashInv'
  <2> SUFFICES ASSUME HashInv, [HashNext]_hashVars PROVE HashInv'
    OBVIOUS
  <2>1. CASE HashNext
    <3>1. PICK row \in HashRows : LeaveRow(row) \/ \E values \in RowValues : EnterRow(row, values) \/ ChangeRow(row, values)
      BY <2>1 DEF HashNext
    <3>2. QED
      BY <3>1, LeaveStep, EnterStep, ChangeStep
  <2>2. CASE UNCHANGED hashVars
    <3>1. HashNow' = HashNow /\ value' = value /\ entered' = entered
      BY <2>2 DEF hashVars, HashNow
    <3>2. QED
      BY <3>1 DEF HashInv
  <2>3. QED
    BY <2>1, <2>2
<1>3. QED
  BY <1>1, <1>2, HashInvExact, PTL DEF HashSpec

-----------------------------------------------------------------------------
(* What Keep keeps                                                         *)

\* How many of the first n members of s are in T.
Hitting(s, n, T) == {i \in 1 .. n : s[i] \in T}
Among(s, n, T) == Cardinality(Hitting(s, n, T))

LEMMA AmongIs ==
  ASSUME NEW s, NEW n \in Nat, NEW T
  PROVE  /\ Among(s, n, T) \in Nat /\ IsFiniteSet(Hitting(s, n, T)) /\ Among(s, n, T) <= n
         /\ Among(s, n, T) = 0 <=> \A i \in 1 .. n : s[i] \notin T
<1>1. IsFiniteSet(1 .. n) /\ Cardinality(1 .. n) = n /\ Hitting(s, n, T) \subseteq 1 .. n
  <2>1. Cardinality(1 .. n) = n /\ IsFiniteSet(1 .. n)
    BY FS_Interval
  <2>2. QED
    BY <2>1 DEF Hitting
<1>2. IsFiniteSet(Hitting(s, n, T)) /\ Cardinality(Hitting(s, n, T)) <= n
  BY <1>1, FS_Subset
<1>3. Among(s, n, T) \in Nat /\ (Among(s, n, T) = 0 <=> Hitting(s, n, T) = {})
  BY <1>2, FS_CardinalityType, FS_EmptySet DEF Among
<1>4. QED
  BY <1>2, <1>3 DEF Hitting, Among

LEMMA AmongNext ==
  ASSUME NEW s, NEW n \in Nat, NEW m \in Nat, n = m + 1, NEW T
  PROVE  Among(s, n, T) = Among(s, m, T) + IF s[n] \in T THEN 1 ELSE 0
<1> DEFINE H == Hitting(s, m, T)
<1>1. IsFiniteSet(H) /\ n \notin H
  <2>1. IsFiniteSet(H)
    BY AmongIs
  <2>2. QED
    BY <2>1 DEF Hitting
<1>2. s[n] \in T => Hitting(s, n, T) = H \cup {n}
  BY DEF Hitting
<1>3. s[n] \notin T => Hitting(s, n, T) = H
  BY DEF Hitting
<1> HIDE DEF H
<1>4. Cardinality(H \cup {n}) = Cardinality(H) + 1
  BY <1>1, FS_AddElement
<1>5. Among(s, m, T) = Cardinality(H) /\ Among(s, m, T) \in Nat
  BY AmongIs DEF Among, H
<1>6. QED
  BY <1>2, <1>3, <1>4, <1>5 DEF Among

\* What is among the members depends on the members only.
LEMMA AmongSame ==
  ASSUME NEW s, NEW t, NEW n \in Nat, NEW S, NEW T,
         \A i \in 1 .. n : s[i] \in S <=> t[i] \in T
  PROVE  Among(s, n, S) = Among(t, n, T)
<1>1. Hitting(s, n, S) = Hitting(t, n, T)
  BY DEF Hitting
<1>2. QED
  BY <1>1 DEF Among

LEMMA AmongAppended ==
  ASSUME NEW X, NEW s \in Seq(X), NEW x \in X, NEW T
  PROVE  Among(Append(s, x), Len(Append(s, x)), T) = Among(s, Len(s), T) + IF x \in T THEN 1 ELSE 0
<1> DEFINE t == Append(s, x)
<1>1. /\ Len(s) \in Nat /\ Len(t) = Len(s) + 1 /\ Len(t) \in Nat
      /\ t[Len(t)] = x /\ \A i \in 1 .. Len(s) : t[i] = s[i]
  OBVIOUS
<1> HIDE DEF t
<1>2. Among(t, Len(s), T) = Among(s, Len(s), T)
  BY <1>1, AmongSame
<1>3. Among(t, Len(t), T) = Among(t, Len(s), T) + IF t[Len(t)] \in T THEN 1 ELSE 0
  BY <1>1, AmongNext
<1>4. QED
  BY <1>1, <1>2, <1>3 DEF t

\* k has what the first n members of s have that is in S.
Keeps(k, s, n, S) == \A T : Among(k, Len(k), T) = Among(s, n, T \cap S)

LEMMA KeepIs ==
  ASSUME NEW X, NEW s \in Seq(X), NEW S
  PROVE  Keep(s, S) \in Seq(X) /\ Keeps(Keep(s, S), s, Len(s), S)
<1> DEFINE m == Len(s)
           After(n, k) == IF s[n] \in S THEN Append(k, s[n]) ELSE k
           Walk(f) == f = [n \in 0 .. m |-> IF n = 0 THEN <<>> ELSE After(n, f[n - 1])]
           kept == CHOOSE f : Walk(f)
           Good == [n \in 0 .. m |-> {k \in Seq(X) : Keeps(k, s, n, S)}]
           step == [n \in 1 .. m |-> [k \in Seq(X) |-> After(n, k)]]
<1>1. m \in Nat /\ \A n \in 1 .. m : s[n] \in X
  OBVIOUS
<1> HIDE DEF m
<1>2. <<>> \in Good[0]
  <2>1. ASSUME NEW T PROVE Among(<<>>, Len(<<>>), T) = Among(s, 0, T \cap S)
    <3>1. Len(<<>>) = 0 /\ \A i \in 1 .. 0 : FALSE
      OBVIOUS
    <3>2. Among(<<>>, 0, T) = 0 /\ Among(s, 0, T \cap S) = 0
      BY <3>1, AmongIs
    <3>3. QED
      BY <3>1, <3>2
  <2>2. Keeps(<<>>, s, 0, S) /\ 0 \in 0 .. m /\ <<>> \in Seq(X)
    BY <1>1, <2>1 DEF Keeps
  <2>3. QED
    BY <2>2
<1>3. ASSUME NEW n \in 1 .. m, NEW k \in Seq(X), Keeps(k, s, n - 1, S)
      PROVE  After(n, k) \in Seq(X) /\ Keeps(After(n, k), s, n, S)
  <2>1. n \in Nat /\ n - 1 \in Nat /\ n = (n - 1) + 1 /\ s[n] \in X
    BY <1>1
  <2>2. ASSUME NEW T PROVE Among(s, n, T \cap S) = Among(k, Len(k), T) + IF s[n] \in T \cap S THEN 1 ELSE 0
    <3>1. Among(s, n, T \cap S) = Among(s, n - 1, T \cap S) + IF s[n] \in T \cap S THEN 1 ELSE 0
      BY <2>1, AmongNext
    <3>2. QED
      BY <1>3, <3>1 DEF Keeps
  <2>3. CASE s[n] \in S
    <3>1. ASSUME NEW T
          PROVE  Among(Append(k, s[n]), Len(Append(k, s[n])), T) = Among(k, Len(k), T) + IF s[n] \in T THEN 1 ELSE 0
      BY <2>1, AmongAppended
    <3>2. After(n, k) = Append(k, s[n]) /\ Append(k, s[n]) \in Seq(X)
      BY <2>1, <2>3
    <3>3. ASSUME NEW T PROVE Among(Append(k, s[n]), Len(Append(k, s[n])), T) = Among(s, n, T \cap S)
      <4>1. s[n] \in T <=> s[n] \in T \cap S
        BY <2>3
      <4>2. QED
        BY <2>2, <3>1, <4>1
    <3>4. QED
      BY <3>2, <3>3 DEF Keeps
  <2>4. CASE s[n] \notin S
    <3>1. After(n, k) = k
      BY <2>4
    <3>2. \A T : Among(k, Len(k), T) \in Nat
      BY AmongIs
    <3>3. ASSUME NEW T PROVE Among(k, Len(k), T) = Among(s, n, T \cap S)
      <4>1. s[n] \notin T \cap S
        BY <2>4
      <4>2. QED
        BY <2>2, <3>2, <4>1
    <3>4. QED
      BY <3>1, <3>3 DEF Keeps
  <2>5. QED
    BY <2>3, <2>4
<1> HIDE DEF After
<1>4. \A n \in 1 .. m : \A k \in Good[n - 1] : step[n][k] \in Good[n]
  <2>1. \A n \in 1 .. m : n - 1 \in 0 .. m /\ n \in 0 .. m
    BY <1>1
  <2>2. QED
    BY <1>3, <2>1
<1>5. PICK f : /\ f = [n \in 0 .. m |-> IF n = 0 THEN <<>> ELSE step[n][f[n - 1]]]
               /\ \A n \in 0 .. m : f[n] \in Good[n]
  <2> HIDE DEF Good, step
  <2>1. PICK f : Steps(f, m, <<>>, step) /\ \A n \in 0 .. m : f[n] \in Good[n]
    BY <1>1, <1>2, <1>4, Iteration
  <2>2. QED
    BY <2>1 DEF Steps
<1>6. Walk(f)
  <2>1. ASSUME NEW n \in 0 .. m PROVE f[n] = IF n = 0 THEN <<>> ELSE After(n, f[n - 1])
    <3>1. CASE n = 0
      BY <1>5, <3>1
    <3>2. CASE n # 0
      <4>1. n \in 1 .. m /\ n - 1 \in 0 .. m
        BY <1>1, <3>2
      <4>2. f[n - 1] \in Seq(X)
        BY <1>5, <4>1
      <4>3. f[n] = step[n][f[n - 1]]
        BY <1>5, <3>2
      <4>4. QED
        BY <3>2, <4>1, <4>2, <4>3
    <3>3. QED
      BY <3>1, <3>2
  <2>2. f = [n \in 0 .. m |-> f[n]]
    BY <1>5
  <2>3. QED
    BY <2>1, <2>2
<1>7. Walk(kept)
  <2> HIDE DEF Walk
  <2>1. QED
    BY <1>6
<1> HIDE DEF kept
<1>8. \A n \in 0 .. m : kept[n] \in Seq(X) /\ Keeps(kept[n], s, n, S)
  <2> DEFINE T == {n \in 0 .. m : kept[n] \in Seq(X) /\ Keeps(kept[n], s, n, S)}
  <2>1. 0 \in T
    <3>1. 0 \in 0 .. m /\ kept[0] = <<>>
      BY <1>1, <1>7
    <3>2. QED
      BY <1>2, <3>1
  <2>2. ASSUME NEW n \in 1 .. m, n - 1 \in T PROVE n \in T
    <3>1. kept[n] = After(n, kept[n - 1]) /\ n \in 0 .. m
      BY <1>1, <1>7
    <3>2. QED
      BY <1>3, <2>2, <3>1
  <2> HIDE DEF T
  <2>3. 0 .. m \subseteq T
    BY <1>1, <2>1, <2>2, UpTo
  <2>4. QED
    BY <2>3 DEF T
<1>9. Keep(s, S) = kept[m]
  BY DEF Keep, kept, Walk, After, m
<1>10. m \in 0 .. m
  BY <1>1
<1>11. QED
  BY <1>8, <1>9, <1>10 DEF m

\* All members are among the members.
LEMMA AmongAll ==
  ASSUME NEW X, NEW s \in Seq(X)
  PROVE  Among(s, Len(s), X) = Len(s) /\ Among(s, Len(s), Range(s)) = Len(s)
<1>1. Len(s) \in Nat /\ \A i \in 1 .. Len(s) : s[i] \in X /\ s[i] \in Range(s)
  BY DEF Range
<1>2. Hitting(s, Len(s), X) = 1 .. Len(s) /\ Hitting(s, Len(s), Range(s)) = 1 .. Len(s)
  BY <1>1 DEF Hitting
<1>3. Cardinality(1 .. Len(s)) = Len(s)
  BY <1>1, FS_Interval
<1>4. QED
  BY <1>2, <1>3 DEF Among

LEMMA KeepRange ==
  ASSUME NEW X, NEW s \in Seq(X), NEW S
  PROVE  /\ Range(Keep(s, S)) = Range(s) \cap S
         /\ Len(Keep(s, S)) = Among(s, Len(s), S) /\ Len(Keep(s, S)) <= Len(s)
<1> DEFINE k == Keep(s, S)
<1>1. k \in Seq(X) /\ Keeps(k, s, Len(s), S)
  BY KeepIs
<1> HIDE DEF k
<1>2. Len(s) \in Nat /\ Len(k) \in Nat /\ DOMAIN s = 1 .. Len(s) /\ DOMAIN k = 1 .. Len(k)
  BY <1>1
<1>3. ASSUME NEW x PROVE x \in Range(k) <=> x \in Range(s) \cap S
  <2>1. Among(k, Len(k), {x}) = Among(s, Len(s), {x} \cap S)
    BY <1>1 DEF Keeps
  <2>2. x \in Range(k) <=> Among(k, Len(k), {x}) # 0
    <3>1. Among(k, Len(k), {x}) = 0 <=> \A i \in 1 .. Len(k) : k[i] \notin {x}
      BY <1>2, AmongIs
    <3>2. QED
      BY <1>2, <3>1 DEF Range
  <2>3. x \in Range(s) \cap S <=> Among(s, Len(s), {x} \cap S) # 0
    <3>1. Among(s, Len(s), {x} \cap S) = 0 <=> \A i \in 1 .. Len(s) : s[i] \notin {x} \cap S
      BY <1>2, AmongIs
    <3>2. QED
      BY <1>2, <3>1 DEF Range
  <2>4. QED
    BY <2>1, <2>2, <2>3
<1>4. Len(k) = Among(s, Len(s), S)
  <2>1. Among(k, Len(k), X) = Len(k)
    BY <1>1, AmongAll
  <2>2. Among(k, Len(k), X) = Among(s, Len(s), X \cap S)
    BY <1>1 DEF Keeps
  <2>3. \A i \in 1 .. Len(s) : s[i] \in X \cap S <=> s[i] \in S
    OBVIOUS
  <2>4. Among(s, Len(s), X \cap S) = Among(s, Len(s), S)
    BY <1>2, <2>3, AmongSame
  <2>5. QED
    BY <2>1, <2>2, <2>4
<1>5. Among(s, Len(s), S) <= Len(s)
  BY <1>2, AmongIs
<1>6. QED
  BY <1>3, <1>4, <1>5 DEF k

\* What is appended is added to the range.
LEMMA AppendedRange ==
  ASSUME NEW X, NEW s \in Seq(X), NEW x \in X
  PROVE  Append(s, x) \in Seq(X) /\ Range(Append(s, x)) = Range(s) \cup {x}
<1> DEFINE t == Append(s, x)
<1>1. /\ t \in Seq(X) /\ Len(s) \in Nat /\ DOMAIN s = 1 .. Len(s) /\ DOMAIN t = 1 .. Len(s) + 1
      /\ t[Len(s) + 1] = x /\ \A i \in 1 .. Len(s) : t[i] = s[i]
  OBVIOUS
<1> HIDE DEF t
<1>2. 1 .. Len(s) + 1 = (1 .. Len(s)) \cup {Len(s) + 1}
  BY <1>1
<1>3. Range(t) = Range(s) \cup {x}
  BY <1>1, <1>2 DEF Range
<1>4. QED
  BY <1>1, <1>3 DEF t

-----------------------------------------------------------------------------
(* The lowest bits of a hash                                               *)

LEMMA PowerIs ==
  /\ Power[0] = 1
  /\ \A n \in 0 .. MaxLevel : Power[n] \in Nat \ {0}
  /\ \A n \in 1 .. MaxLevel : Power[n] = 2 * Power[n - 1]
<1> DEFINE Walk(f) == f = [n \in 0 .. MaxLevel |-> IF n = 0 THEN 1 ELSE 2 * f[n - 1]]
           S == [n \in 0 .. MaxLevel |-> Nat \ {0}]
           step == [n \in 1 .. MaxLevel |-> [x \in Nat \ {0} |-> 2 * x]]
<1>1. MaxLevel \in Nat
  BY GintAssumption
<1>2. 1 \in S[0] /\ \A n \in 1 .. MaxLevel : \A x \in S[n - 1] : step[n][x] \in S[n]
  <2>1. 0 \in 0 .. MaxLevel /\ \A n \in 1 .. MaxLevel : n - 1 \in 0 .. MaxLevel /\ n \in 0 .. MaxLevel
    BY <1>1
  <2>2. \A x \in Nat \ {0} : 2 * x \in Nat \ {0}
    OBVIOUS
  <2>3. S[0] = Nat \ {0} /\ \A n \in 1 .. MaxLevel : S[n - 1] = Nat \ {0} /\ S[n] = Nat \ {0}
    BY <2>1
  <2>4. ASSUME NEW n \in 1 .. MaxLevel, NEW x \in S[n - 1] PROVE step[n][x] \in S[n]
    <3>1. x \in Nat \ {0} /\ step[n][x] = 2 * x
      BY <2>3
    <3>2. QED
      BY <2>2, <2>3, <3>1
  <2>7. 1 \in Nat \ {0}
    OBVIOUS
  <2>5. 1 \in S[0]
    BY <2>3, <2>7, Zenon
  <2>6. QED
    BY <2>4, <2>5
<1>3. PICK f : /\ f = [n \in 0 .. MaxLevel |-> IF n = 0 THEN 1 ELSE step[n][f[n - 1]]]
               /\ \A n \in 0 .. MaxLevel : f[n] \in S[n]
  <2> HIDE DEF S, step
  <2>1. PICK f : Steps(f, MaxLevel, 1, step) /\ \A n \in 0 .. MaxLevel : f[n] \in S[n]
    BY <1>1, <1>2, Iteration
  <2>2. QED
    BY <2>1 DEF Steps
<1>4. Walk(f)
  <2>1. ASSUME NEW n \in 0 .. MaxLevel PROVE f[n] = IF n = 0 THEN 1 ELSE 2 * f[n - 1]
    <3>1. CASE n = 0
      BY <1>3, <3>1
    <3>2. CASE n # 0
      <4>1. n \in 1 .. MaxLevel /\ n - 1 \in 0 .. MaxLevel
        BY <1>1, <3>2
      <4>2. f[n - 1] \in Nat \ {0}
        BY <1>3, <4>1
      <4>3. f[n] = step[n][f[n - 1]]
        BY <1>3, <3>2
      <4>4. QED
        BY <3>2, <4>1, <4>2, <4>3
    <3>3. QED
      BY <3>1, <3>2
  <2>2. f = [n \in 0 .. MaxLevel |-> f[n]]
    BY <1>3
  <2>3. QED
    BY <2>1, <2>2
<1>5. Walk(Power)
  <2> HIDE DEF Walk
  <2>1. Power = CHOOSE g : Walk(g)
    BY DEF Power, Walk
  <2>2. QED
    BY <1>4, <2>1
<1>6. Power[0] = 1 /\ \A n \in 1 .. MaxLevel : Power[n] = 2 * Power[n - 1]
  <2>1. 0 \in 0 .. MaxLevel /\ \A n \in 1 .. MaxLevel : n \in 0 .. MaxLevel /\ n # 0
    BY <1>1
  <2>2. QED
    BY <1>5, <2>1
<1>7. \A n \in 0 .. MaxLevel : Power[n] \in Nat \ {0}
  <2> DEFINE T == {n \in 0 .. MaxLevel : Power[n] \in Nat \ {0}}
  <2>1. 0 \in T
    BY <1>1, <1>6
  <2>2. \A n \in 1 .. MaxLevel : n - 1 \in T => n \in T
    <3>1. \A n \in 1 .. MaxLevel : n \in 0 .. MaxLevel
      BY <1>1
    <3>2. QED
      BY <1>6, <3>1
  <2> HIDE DEF T
  <2>3. 0 .. MaxLevel \subseteq T
    BY <1>1, <2>1, <2>2, UpTo
  <2>4. QED
    BY <2>3 DEF T
<1>8. QED
  BY <1>6, <1>7

LEMMA Divided ==
  ASSUME NEW h \in Int, NEW p \in Nat \ {0}
  PROVE  \E d \in Int : \E r \in 0 .. p - 1 : d = h \div p /\ r = h % p /\ h = p * d + r
<1>1. h \div p \in Int /\ h % p \in 0 .. p - 1
  OBVIOUS
<1>2. h % p = h - p * (h \div p)
  OBVIOUS
<1>3. PICK d \in Int, r \in 0 .. p - 1 : d = h \div p /\ r = h % p
  BY <1>1
<1>4. r = h - p * d
  BY <1>2, <1>3
<1>5. h = p * d + r
  BY <1>4
<1>6. QED
  BY <1>3, <1>5

LEMMA RemainderIs ==
  ASSUME NEW h \in Int, NEW p \in Nat \ {0}, NEW q \in Int, NEW r \in 0 .. p - 1, h = p * q + r
  PROVE  h % p = r /\ h \div p = q
<1>0. PICK d \in Int : \E n \in 0 .. p - 1 : d = h \div p /\ n = h % p /\ h = p * d + n
  BY Divided
<1>1. PICK m \in 0 .. p - 1 : d = h \div p /\ m = h % p /\ h = p * d + m
  BY <1>0
<1>2. p * (q - d) = m - r
  BY <1>1
<1>3. CASE q > d
  <2>1. q - d >= 1
    BY <1>1, <1>3
  <2>2. p * (q - d) >= p
    BY <1>1, <2>1
  <2>3. QED
    BY <1>1, <1>2, <2>2
<1>4. CASE q < d
  <2>1. d - q >= 1
    BY <1>1, <1>4
  <2>2. p * (d - q) >= p /\ p * (q - d) = 0 - p * (d - q)
    BY <1>1, <2>1
  <2>3. QED
    BY <1>1, <1>2, <2>2
<1>5. CASE q = d
  BY <1>1, <1>5
<1>6. QED
  BY <1>1, <1>3, <1>4, <1>5

LEMMA LowIs ==
  ASSUME NEW h \in Nat, NEW n \in 0 .. MaxLevel
  PROVE  Low(h, n) \in Entries(n) /\ Low(h, n) \in Nat /\ Bit(h, n) \in {0, 1}
<1>1. Power[n] \in Nat \ {0}
  BY PowerIs
<1> DEFINE p == Power[n]
<1>2. h % p \in 0 .. p - 1 /\ h \div p \in Int
  BY <1>1
<1>3. (h \div p) % 2 \in 0 .. 2 - 1
  BY <1>2
<1> HIDE DEF p
<1>4. h % p \in Nat
  BY <1>1, <1>2
<1>5. QED
  BY <1>2, <1>3, <1>4 DEF Low, Entries, Bit, p

LEMMA LowOwn ==
  ASSUME NEW n \in 0 .. MaxLevel, NEW k \in Entries(n)
  PROVE  k \in Nat /\ Low(k, n) = k
<1> DEFINE p == Power[n]
<1>1. p \in Nat \ {0} /\ k \in 0 .. p - 1
  BY PowerIs DEF Entries
<1> HIDE DEF p
<1>2. k \in Int /\ 0 \in Int /\ k = p * 0 + k
  BY <1>1
<1>3. k % p = k
  BY <1>1, <1>2, RemainderIs
<1>4. QED
  BY <1>1, <1>3 DEF Low, p

\* One bit more.
LEMMA LowNext ==
  ASSUME NEW h \in Nat, NEW n \in 0 .. MaxLevel, n + 1 \in 0 .. MaxLevel
  PROVE  Low(h, n + 1) = Low(h, n) + IF Bit(h, n) = 1 THEN Power[n] ELSE 0
<1> DEFINE p == Power[n]
<1>1. p \in Nat \ {0} /\ Power[n + 1] = 2 * p
  <2>1. n + 1 \in 1 .. MaxLevel /\ (n + 1) - 1 = n
    OBVIOUS
  <2>2. QED
    BY <2>1, PowerIs
<1> HIDE DEF p
<1>0. PICK q \in Int : \E r \in 0 .. p - 1 : q = h \div p /\ r = h % p /\ h = p * q + r
  BY <1>1, Divided
<1>2. PICK r \in 0 .. p - 1 : q = h \div p /\ r = h % p /\ h = p * q + r
  BY <1>0
<1>a. PICK u \in Int : \E v \in 0 .. 2 - 1 : u = q \div 2 /\ v = q % 2 /\ q = 2 * u + v
  <2>1. 2 \in Nat \ {0}
    OBVIOUS
  <2>2. QED
    BY <2>1, Divided
<1>3. PICK v \in 0 .. 2 - 1 : u = q \div 2 /\ v = q % 2 /\ q = 2 * u + v
  BY <1>a
<1>b. Low(h, n + 1) = h % (2 * p)
  BY <1>1 DEF Low
<1>c. Low(h, n) = r /\ Bit(h, n) = v
  BY <1>2, <1>3 DEF Low, Bit, p
<1>4. CASE v = 0
  <2>1. p * q = (2 * p) * u
    BY <1>1, <1>3, <1>4
  <2>2. h = (2 * p) * u + r /\ r \in 0 .. (2 * p) - 1 /\ 2 * p \in Nat \ {0}
    BY <1>1, <1>2, <2>1
  <2>3. h % (2 * p) = r
    BY <1>3, <2>2, RemainderIs
  <2>4. QED
    BY <1>b, <1>c, <1>4, <2>3
<1>5. CASE v = 1
  <2>1. p * q = (2 * p) * u + p
    BY <1>1, <1>3, <1>5
  <2>2. h = (2 * p) * u + (p + r) /\ p + r \in 0 .. (2 * p) - 1 /\ 2 * p \in Nat \ {0}
    BY <1>1, <1>2, <2>1, <1>3
  <2>3. h % (2 * p) = p + r
    BY <1>3, <2>2, RemainderIs
  <2>4. p + r = r + p
    BY <1>1, <1>2
  <2>5. QED
    BY <1>b, <1>c, <1>5, <2>3, <2>4 DEF p
<1>6. QED
  BY <1>3, <1>4, <1>5

LEMMA SameNext ==
  ASSUME NEW a \in Nat, NEW b \in Nat, NEW n \in 0 .. MaxLevel, n + 1 \in 0 .. MaxLevel
  PROVE  Low(a, n + 1) = Low(b, n + 1) <=> Low(a, n) = Low(b, n) /\ Bit(a, n) = Bit(b, n)
<1>1. /\ Low(a, n + 1) = Low(a, n) + IF Bit(a, n) = 1 THEN Power[n] ELSE 0
      /\ Low(b, n + 1) = Low(b, n) + IF Bit(b, n) = 1 THEN Power[n] ELSE 0
  BY LowNext
<1>2. Low(a, n) \in 0 .. Power[n] - 1 /\ Low(b, n) \in 0 .. Power[n] - 1 /\ Power[n] \in Nat \ {0}
  BY LowIs, PowerIs DEF Entries
<1>3. Bit(a, n) \in {0, 1} /\ Bit(b, n) \in {0, 1}
  BY LowIs
<1>4. QED
  BY <1>1, <1>2, <1>3

\* What agrees in some bits agrees in fewer, and the lowest bits of the
\* lowest bits are the lowest bits.
LEMMA LowLow ==
  ASSUME NEW m \in 0 .. MaxLevel, NEW n \in 0 .. m, NEW h \in Nat
  PROVE  Low(Low(h, m), n) = Low(h, n)
<1> DEFINE a == Low(h, m)
           T == {d \in 0 .. m : m - d \in 0 .. m /\ Low(a, m - d) = Low(h, m - d)}
<1>1. m \in Nat /\ MaxLevel \in Nat
  BY GintAssumption
<1>2. a \in Nat /\ a \in Entries(m)
  BY LowIs
<1>3. Low(a, m) = Low(h, m)
  BY <1>2, LowOwn
<1> HIDE DEF a
<1>4. 0 \in T
  <2>1. m - 0 = m /\ m \in 0 .. m /\ 0 \in 0 .. m
    BY <1>1
  <2>2. QED
    BY <1>3, <2>1
<1>5. ASSUME NEW d \in 1 .. m, d - 1 \in T PROVE d \in T
  <2> DEFINE i == m - d
  <2>1. i \in 0 .. MaxLevel /\ i + 1 \in 0 .. MaxLevel /\ i \in 0 .. m /\ m - (d - 1) = i + 1 /\ d \in 0 .. m
    BY <1>1
  <2>2. Low(a, i + 1) = Low(h, i + 1)
    BY <1>5, <2>1
  <2> HIDE DEF i
  <2>3. Low(a, i) = Low(h, i)
    BY <1>2, <2>1, <2>2, SameNext
  <2>4. QED
    BY <2>1, <2>3 DEF i
<1> HIDE DEF T
<1>6. 0 .. m \subseteq T
  BY <1>1, <1>4, <1>5, UpTo
<1>7. m - n \in 0 .. m /\ m - (m - n) = n
  BY <1>1
<1>8. Low(a, m - (m - n)) = Low(h, m - (m - n))
  BY <1>6, <1>7 DEF T
<1>9. QED
  BY <1>7, <1>8 DEF a

LEMMA BitLow ==
  ASSUME NEW m \in 0 .. MaxLevel, NEW n \in 0 .. MaxLevel, n < m, NEW h \in Nat
  PROVE  Bit(Low(h, m), n) = Bit(h, n)
<1>1. n + 1 \in 0 .. MaxLevel /\ n + 1 \in 0 .. m
  BY GintAssumption
<1>2. Low(Low(h, m), n + 1) = Low(h, n + 1) /\ Low(h, m) \in Nat
  BY <1>1, LowLow, LowIs
<1>3. QED
  BY <1>1, <1>2, SameNext

-----------------------------------------------------------------------------
(* The entries of a bucket, and their split                                *)

Pairs == Keys \X Vals
HashOf(e) == Scrambled(e[1])

LEMMA HashesAre == \A e \in Pairs : HashOf(e) \in Nat
BY GintAssumption DEF Pairs, HashOf

LEMMA AmongReversed ==
  ASSUME NEW X, NEW s \in Seq(X), NEW T
  PROVE  /\ Reverse(s) \in Seq(X) /\ Len(Reverse(s)) = Len(s)
         /\ Among(Reverse(s), Len(s), T) = Among(s, Len(s), T)
<1> DEFINE n == Len(s)
           r == Reverse(s)
           S == Hitting(s, n, T)
           U == Hitting(r, n, T)
           g == [i \in S |-> (n - i) + 1]
<1>1. n \in Nat /\ \A i \in 1 .. n : s[i] \in X
  OBVIOUS
<1>2. r = [i \in 1 .. n |-> s[(n - i) + 1]]
  BY DEF Reverse
<1> HIDE DEF n, r
<1>3. \A i \in 1 .. n : (n - i) + 1 \in 1 .. n /\ n - ((n - i) + 1) + 1 = i
  BY <1>1
<1>4. r \in Seq(X) /\ Len(r) = n /\ \A i \in 1 .. n : r[i] = s[(n - i) + 1]
  <2>1. \A i \in 1 .. n : s[(n - i) + 1] \in X
    BY <1>1, <1>3
  <2>2. QED
    BY <1>1, <1>2, <2>1
<1>5. IsFiniteSet(S)
  BY <1>1, AmongIs
<1>6. S = {i \in 1 .. n : s[i] \in T} /\ U = {i \in 1 .. n : s[(n - i) + 1] \in T}
  BY <1>4 DEF Hitting
<1> HIDE DEF S, U
<1>7. g \in [S -> U]
  BY <1>3, <1>6
<1>8. \A x, y \in S : g[x] = g[y] => x = y
  BY <1>1, <1>6
<1>9. ASSUME NEW u \in U PROVE \E x \in S : g[x] = u
  <2>1. (n - u) + 1 \in S /\ (n - ((n - u) + 1)) + 1 = u
    BY <1>3, <1>6
  <2>2. QED
    BY <2>1
<1> HIDE DEF g
<1>10. Cardinality(U) = Cardinality(S)
  BY <1>5, <1>7, <1>8, <1>9, SameSize
<1>11. QED
  BY <1>4, <1>10 DEF Among, S, U, n, r

\* What is among the members on one side or the other.
LEMMA AmongBoth ==
  ASSUME NEW s, NEW n \in Nat, NEW S, NEW T, \A i \in 1 .. n : s[i] \in S <=> s[i] \notin T
  PROVE  Among(s, n, S) + Among(s, n, T) = n
<1> DEFINE A == Hitting(s, n, S)
           B == Hitting(s, n, T)
<1>1. IsFiniteSet(A) /\ IsFiniteSet(B)
  BY AmongIs
<1>2. A \cup B = 1 .. n /\ A \cap B = {}
  BY DEF Hitting
<1>3. Cardinality(1 .. n) = n
  BY FS_Interval
<1>4. Cardinality({}) = 0
  BY FS_EmptySet
<1>5. Cardinality(A) \in Nat /\ Cardinality(B) \in Nat
  BY <1>1, FS_CardinalityType
<1> HIDE DEF A, B
<1>6. Cardinality(A \cup B) = Cardinality(A) + Cardinality(B) - Cardinality(A \cap B)
  BY <1>1, FS_Union
<1>7. Cardinality(A) + Cardinality(B) = n
  <2>1. Cardinality(A \cup B) = n /\ Cardinality(A \cap B) = 0
    BY <1>2, <1>3, <1>4
  <2>2. QED
    BY <1>5, <1>6, <2>1
<1>8. QED
  BY <1>7 DEF Among, A, B

LEMMA SplitItems ==
  ASSUME NEW items \in Seq(Pairs), NEW level \in 0 .. MaxLevel
  PROVE  /\ Stay(items, level) \in Seq(Pairs) /\ Moved(items, level) \in Seq(Pairs)
         /\ Len(Stay(items, level)) + Len(Moved(items, level)) = Len(items)
         /\ Len(Stay(items, level)) \in Nat /\ Len(Moved(items, level)) \in Nat
         /\ Range(Stay(items, level)) = {e \in Range(items) : Bit(HashOf(e), level) = 0}
         /\ Range(Moved(items, level)) = {e \in Range(items) : Bit(HashOf(e), level) = 1}
<1> DEFINE Zero == WithBit(items, level, 0)
           One == WithBit(items, level, 1)
           r == Reverse(items)
           n == Len(items)
<1>1. n \in Nat /\ \A i \in 1 .. n : items[i] \in Pairs /\ items[i] \in Range(items)
  BY DEF Range
<1>2. \A i \in 1 .. n : Bit(HashOf(items[i]), level) \in {0, 1}
  BY <1>1, HashesAre, LowIs
<1>3. Zero = {e \in Range(items) : Bit(HashOf(e), level) = 0} /\ One = {e \in Range(items) : Bit(HashOf(e), level) = 1}
  BY DEF WithBit, HashOf
<1>4. Stay(items, level) = Keep(items, Zero) /\ Moved(items, level) = Keep(r, One)
  BY DEF Stay, Moved
<1>5. \A i \in 1 .. n : items[i] \in Zero <=> items[i] \notin One
  BY <1>1, <1>2, <1>3
<1>6. /\ r \in Seq(Pairs) /\ Len(r) = n
      /\ Among(r, n, One) = Among(items, n, One)
  BY AmongReversed
<1>7. Range(r) = Range(items)
  <2>1. r = [i \in 1 .. n |-> items[(n - i) + 1]] /\ DOMAIN items = 1 .. n
    BY DEF Reverse
  <2>2. \A i \in 1 .. n : (n - i) + 1 \in 1 .. n /\ (n - ((n - i) + 1)) + 1 = i
    BY <1>1
  <2> HIDE DEF n, r
  <2>3. \A i \in 1 .. n : r[i] \in {items[j] : j \in 1 .. n} /\ items[i] \in {r[j] : j \in 1 .. n}
    <3>1. TAKE i \in 1 .. n
    <3>2. r[i] = items[(n - i) + 1] /\ r[(n - i) + 1] = items[i] /\ (n - i) + 1 \in 1 .. n
      BY <2>1, <2>2
    <3>3. QED
      BY <3>2
  <2>4. DOMAIN r = 1 .. n
    BY <2>1
  <2>5. QED
    BY <2>1, <2>3, <2>4 DEF Range
<1> HIDE DEF Zero, One, r, n
<1>8. Keep(items, Zero) \in Seq(Pairs) /\ Keep(r, One) \in Seq(Pairs)
  BY <1>6, KeepIs
<1>9. Range(Keep(items, Zero)) = Range(items) \cap Zero /\ Len(Keep(items, Zero)) = Among(items, n, Zero)
  BY KeepRange DEF n
<1>10. Range(Keep(r, One)) = Range(r) \cap One /\ Len(Keep(r, One)) = Among(r, n, One)
  BY <1>6, KeepRange
<1>11. Among(items, n, Zero) + Among(items, n, One) = n
  BY <1>1, <1>5, AmongBoth
<1>12. Among(items, n, Zero) \in Nat /\ Among(items, n, One) \in Nat
  BY <1>1, AmongIs
<1>13. Len(Stay(items, level)) + Len(Moved(items, level)) = Len(items)
  BY <1>4, <1>6, <1>9, <1>10, <1>11 DEF n
<1>14. QED
  BY <1>3, <1>4, <1>6, <1>7, <1>8, <1>9, <1>10, <1>12, <1>13

-----------------------------------------------------------------------------
(* The table                                                               *)

Boxes == [level : 1 .. MaxLevel - 1, items : Seq(Pairs)]
IsTable(t) ==
  /\ DOMAIN t = {"level", "directory", "bucket", "res"}
  /\ t.level \in 1 .. MaxLevel - 1
  /\ t.bucket \in Seq(Boxes)
  /\ t.directory \in [Entries(t.level) -> 0 .. Len(t.bucket)]

Box(t) == 1 .. Len(t.bucket)

\* An entry is in the bucket that its hash leads to, and the places of the
\* directory that lead to a bucket are those that agree in its lowest bits.
Leads(t) ==
  /\ \A b \in Box(t) :
       /\ t.bucket[b].level <= t.level
       /\ \A e \in Range(t.bucket[b].items) : t.directory[Low(HashOf(e), t.level)] = b
  /\ \A k, j \in Entries(t.level) :
       t.directory[k] # 0 =>
         (t.directory[j] = t.directory[k]
            <=> Low(j, t.bucket[t.directory[k]].level) = Low(k, t.bucket[t.directory[k]].level))

\* No bucket but x has more entries than it should, unless it cannot split.
Fits(t, x) ==
  \A b \in Box(t) :
    /\ Len(t.bucket[b].items) <= Cap + 1
    /\ Overfull(t, b) => b = x \/ t.bucket[b].level = MaxLevel - 1

Stuck(t) == \E b \in Box(t) : Overfull(t, b) /\ t.bucket[b].level = MaxLevel - 1
Kept(t) == UNION {Range(t.bucket[b].items) : b \in Box(t)}

LEMMA BoxIs ==
  ASSUME NEW t, IsTable(t), NEW b \in Box(t)
  PROVE  /\ Len(t.bucket) \in Nat /\ DOMAIN t.bucket = Box(t)
         /\ t.bucket[b] \in Boxes /\ t.bucket[b].level \in 1 .. MaxLevel - 1
         /\ t.bucket[b].items \in Seq(Pairs) /\ Len(t.bucket[b].items) \in Nat
         /\ \A e \in Range(t.bucket[b].items) : e \in Pairs /\ HashOf(e) \in Nat
<1>1. t.bucket \in Seq(Boxes)
  BY DEF IsTable
<1>2. Len(t.bucket) \in Nat /\ DOMAIN t.bucket = Box(t) /\ t.bucket[b] \in Boxes
  BY <1>1 DEF Box
<1>3. t.bucket[b].level \in 1 .. MaxLevel - 1 /\ t.bucket[b].items \in Seq(Pairs)
  BY <1>2 DEF Boxes
<1>4. Len(t.bucket[b].items) \in Nat
  BY <1>3
<1>5. \A e \in Range(t.bucket[b].items) : e \in Pairs
  BY <1>3 DEF Range
<1>6. QED
  BY <1>2, <1>3, <1>4, <1>5, HashesAre

LEMMA LevelIs ==
  ASSUME NEW t, IsTable(t)
  PROVE  /\ t.level \in 0 .. MaxLevel /\ t.level + 1 \in 0 .. MaxLevel /\ t.level \in Nat
         /\ \A k \in Entries(t.level) : k \in Nat /\ t.directory[k] \in 0 .. Len(t.bucket)
         /\ \A h \in Nat : Low(h, t.level) \in Entries(t.level)
<1>1. t.level \in 0 .. MaxLevel /\ t.level + 1 \in 0 .. MaxLevel /\ t.level \in Nat
  BY GintAssumption DEF IsTable
<1>2. \A k \in Entries(t.level) : k \in Nat
  BY <1>1, LowOwn
<1>3. \A h \in Nat : Low(h, t.level) \in Entries(t.level)
  BY <1>1, LowIs
<1>4. QED
  BY <1>1, <1>2, <1>3 DEF IsTable

\* A table that only grew its directory.
LEMMA GrowIs ==
  ASSUME NEW t, IsTable(t), Leads(t), t.level + 1 < MaxLevel
  PROVE  /\ IsTable(Grow(t)) /\ Leads(Grow(t))
         /\ Grow(t).bucket = t.bucket /\ Grow(t).level = t.level + 1
<1> DEFINE L == t.level
           M == t.level + 1
           u == Grow(t)
           dir == [k \in Entries(M) |-> t.directory[Low(k, L)]]
<1>1. /\ DOMAIN u = {"level", "directory", "bucket", "res"} /\ u.level = M
      /\ u.bucket = t.bucket /\ u.directory = dir
  BY DEF Grow, IsTable
<1> HIDE DEF u
<1>2. L \in 0 .. MaxLevel /\ M \in 0 .. MaxLevel /\ L \in 0 .. M /\ M \in 1 .. MaxLevel - 1 /\ L \in Nat
  <2>1. L \in Nat /\ L \in 1 .. MaxLevel - 1 /\ MaxLevel \in Nat
    BY GintAssumption, LevelIs DEF IsTable
  <2>2. QED
    BY <2>1
<1>3. \A k \in Entries(M) : k \in Nat /\ Low(k, L) \in Entries(L)
  BY <1>2, LowOwn, LowIs
<1>4. \A k \in Entries(M) : dir[k] = t.directory[Low(k, L)] /\ dir[k] \in 0 .. Len(t.bucket)
  BY <1>3 DEF IsTable
<1>5. dir \in [Entries(M) -> 0 .. Len(t.bucket)]
  BY <1>4
<1>6. IsTable(u)
  BY <1>1, <1>2, <1>5 DEF IsTable
<1> HIDE DEF dir
<1>7. ASSUME NEW b \in Box(u)
      PROVE  /\ u.bucket[b].level <= u.level
             /\ \A e \in Range(u.bucket[b].items) : u.directory[Low(HashOf(e), u.level)] = b
  <2>1. b \in Box(t) /\ u.bucket[b] = t.bucket[b]
    BY <1>1 DEF Box
  <2>2. t.bucket[b].level <= L /\ t.bucket[b].level \in 1 .. MaxLevel - 1
    BY <2>1, BoxIs DEF Leads
  <2>3. u.bucket[b].level <= u.level
    BY <1>1, <1>2, <2>1, <2>2
  <2>4. ASSUME NEW e \in Range(t.bucket[b].items) PROVE u.directory[Low(HashOf(e), M)] = b
    <3>1. HashOf(e) \in Nat
      BY <2>1, BoxIs
    <3>2. Low(HashOf(e), M) \in Entries(M) /\ Low(Low(HashOf(e), M), L) = Low(HashOf(e), L)
      BY <1>2, <3>1, LowIs, LowLow
    <3>3. t.directory[Low(HashOf(e), L)] = b
      BY <2>1 DEF Leads
    <3>4. QED
      BY <1>1, <1>4, <3>2, <3>3
  <2>5. QED
    BY <1>1, <2>1, <2>3, <2>4
<1>8. ASSUME NEW k \in Entries(M), NEW j \in Entries(M), u.directory[k] # 0
      PROVE  u.directory[j] = u.directory[k]
               <=> Low(j, u.bucket[u.directory[k]].level) = Low(k, u.bucket[u.directory[k]].level)
  <2> DEFINE kk == Low(k, L)
             jj == Low(j, L)
             c == t.directory[kk]
  <2>1. u.directory[k] = c /\ u.directory[j] = t.directory[jj] /\ kk \in Entries(L) /\ jj \in Entries(L)
    BY <1>1, <1>3, <1>4
  <2>2. c # 0 /\ c \in 0 .. Len(t.bucket)
    BY <1>8, <2>1 DEF IsTable
  <2>3. c \in Box(t)
    <3> HIDE DEF c
    <3>1. Len(t.bucket) \in Nat
      BY DEF IsTable
    <3>2. QED
      BY <2>2, <3>1 DEF Box
  <2>4. t.directory[jj] = c <=> Low(jj, t.bucket[c].level) = Low(kk, t.bucket[c].level)
    <3> HIDE DEF jj, kk
    <3>1. QED
      BY <2>1, <2>2 DEF Leads
  <2> HIDE DEF c
  <2>5. t.bucket[c].level \in 0 .. L
    <3>1. t.bucket[c].level \in 1 .. MaxLevel - 1 /\ t.bucket[c].level <= L
      BY <2>3, BoxIs DEF Leads
    <3>2. QED
      BY <1>2, <3>1
  <2>6. Low(jj, t.bucket[c].level) = Low(j, t.bucket[c].level) /\ Low(kk, t.bucket[c].level) = Low(k, t.bucket[c].level)
    BY <1>2, <1>3, <2>5, LowLow
  <2>7. QED
    BY <1>1, <2>1, <2>4, <2>6
<1>9. Leads(u)
  BY <1>1, <1>7, <1>8 DEF Leads
<1>10. QED
  BY <1>1, <1>6, <1>9 DEF u

\* The bucket b splits in a directory that other entries lead to it from.
Divide(t, b) ==
  LET level == t.bucket[b].level
      new == Len(t.bucket) + 1
      items == t.bucket[b].items
      redirected == Redirected(t, level, Low(Scrambled(items[1][1]), level))
      buckets == Append([t.bucket EXCEPT ![b] = [level |-> level + 1, items |-> Stay(items, level)]],
                        [level |-> level + 1, items |-> Moved(items, level)])
  IN [t EXCEPT !.bucket = buckets, !.res = new,
               !.directory = [k \in Entries(t.level) |-> IF k \in redirected THEN new ELSE @[k]]]

\* The directory entries that are redirected led to the bucket.
LEMMA RedirectedIs ==
  ASSUME NEW t, IsTable(t), Leads(t), NEW b \in Box(t), t.bucket[b].items # <<>>
  PROVE  LET level == t.bucket[b].level
             low == Low(Scrambled(t.bucket[b].items[1][1]), level)
         IN /\ \A k \in Entries(t.level) : t.directory[k] = b <=> Low(k, level) = low
            /\ Redirected(t, level, low) = {k \in Entries(t.level) : t.directory[k] = b /\ Bit(k, level) = 1}
<1> DEFINE level == t.bucket[b].level
           e == t.bucket[b].items[1]
           h == HashOf(e)
           p == Low(h, t.level)
<1>1. e \in Range(t.bucket[b].items) /\ h \in Nat
  <2>1. t.bucket[b].items \in Seq(Pairs)
    BY BoxIs
  <2>2. 1 \in DOMAIN t.bucket[b].items
    BY <2>1
  <2>3. e \in Range(t.bucket[b].items)
    BY <2>2 DEF Range
  <2>4. QED
    BY <2>3, BoxIs
<1>2. p \in Entries(t.level) /\ t.directory[p] = b /\ b # 0
  <2>1. \A x \in Nat : Low(x, t.level) \in Entries(t.level)
    BY LevelIs
  <2>2. QED
    BY <1>1, <2>1 DEF Leads, Box
<1>3. Low(p, level) = Low(h, level)
  <2>1. level \in 0 .. t.level /\ t.level \in 0 .. MaxLevel
    <3>1. level \in 1 .. MaxLevel - 1 /\ level <= t.level /\ t.level \in 0 .. MaxLevel
      BY BoxIs, LevelIs DEF Leads
    <3>2. QED
      BY <3>1
  <2>2. QED
    BY <1>1, <2>1, LowLow
<1>4. ASSUME NEW k \in Entries(t.level) PROVE t.directory[k] = b <=> Low(k, level) = Low(p, level)
  BY <1>2 DEF Leads
<1> HIDE DEF p, level
<1>5. \A k \in Entries(t.level) : t.directory[k] = b <=> Low(k, level) = Low(h, level)
  BY <1>3, <1>4
<1>6. Low(Scrambled(t.bucket[b].items[1][1]), level) = Low(h, level)
  BY DEF HashOf
<1>7. Redirected(t, level, Low(h, level)) = {k \in Entries(t.level) : t.directory[k] = b /\ Bit(k, level) = 1}
  BY <1>5 DEF Redirected
<1>8. QED
  BY <1>5, <1>6, <1>7 DEF level

\* The parts of a divided table.
Parted(t, b, u) ==
  LET l == t.bucket[b].level
      new == Len(t.bucket) + 1
      items == t.bucket[b].items
  IN /\ DOMAIN u = {"level", "directory", "bucket", "res"} /\ u.level = t.level /\ u.res = new
     /\ u.bucket \in Seq(Boxes) /\ Len(u.bucket) = new
     /\ u.bucket[b].level = l + 1 /\ u.bucket[b].items = Stay(items, l)
     /\ u.bucket[new].level = l + 1 /\ u.bucket[new].items = Moved(items, l)
     /\ \A c \in Box(t) \ {b} : u.bucket[c] = t.bucket[c]
     /\ u.directory \in [Entries(t.level) -> 0 .. new]
     /\ \A k \in Entries(t.level) :
          u.directory[k] = IF t.directory[k] = b /\ Bit(k, l) = 1 THEN new ELSE t.directory[k]

LEMMA DivideParts ==
  ASSUME NEW t, IsTable(t), Leads(t), NEW b \in Box(t), t.bucket[b].items # <<>>,
         t.bucket[b].level < MaxLevel - 1
  PROVE  Parted(t, b, Divide(t, b))
<1> DEFINE l == t.bucket[b].level
           new == Len(t.bucket) + 1
           items == t.bucket[b].items
           red == Redirected(t, l, Low(Scrambled(items[1][1]), l))
           box0 == [level |-> l + 1, items |-> Stay(items, l)]
           box1 == [level |-> l + 1, items |-> Moved(items, l)]
           old == [t.bucket EXCEPT ![b] = box0]
           buckets == Append(old, box1)
           dir == [k \in Entries(t.level) |-> IF k \in red THEN new ELSE t.directory[k]]
           u == Divide(t, b)
<1>1. Divide(t, b) = [t EXCEPT !.bucket = buckets, !.res = new, !.directory = dir]
  BY DEF Divide
<1>2. l \in 1 .. MaxLevel - 1 /\ items \in Seq(Pairs) /\ l + 1 \in 1 .. MaxLevel - 1 /\ l \in 0 .. MaxLevel
  <2>1. l \in 1 .. MaxLevel - 1 /\ items \in Seq(Pairs)
    BY BoxIs
  <2>2. QED
    BY <2>1, GintAssumption
<1>3. box0 \in Boxes /\ box1 \in Boxes
  <2>1. Stay(items, l) \in Seq(Pairs) /\ Moved(items, l) \in Seq(Pairs)
    BY <1>2, SplitItems
  <2>2. QED
    BY <1>2, <2>1 DEF Boxes
<1>4. red = {k \in Entries(t.level) : t.directory[k] = b /\ Bit(k, l) = 1}
  BY RedirectedIs
<1>5. t.bucket \in Seq(Boxes) /\ Len(t.bucket) \in Nat /\ b \in 1 .. Len(t.bucket)
  BY DEF IsTable, Box
<1> HIDE DEF box0, box1, red
<1>6. /\ old \in Seq(Boxes) /\ Len(old) = Len(t.bucket) /\ old[b] = box0
      /\ \A c \in 1 .. Len(t.bucket) : c # b => old[c] = t.bucket[c]
  BY <1>3, <1>5
<1> HIDE DEF old
<1>7. /\ buckets \in Seq(Boxes) /\ Len(buckets) = new /\ buckets[new] = box1 /\ buckets[b] = box0
      /\ \A c \in 1 .. Len(t.bucket) : c # b => buckets[c] = t.bucket[c]
  <2>1. /\ buckets \in Seq(Boxes) /\ Len(buckets) = Len(old) + 1 /\ buckets[Len(old) + 1] = box1
        /\ \A c \in 1 .. Len(old) : buckets[c] = old[c]
    BY <1>3, <1>6
  <2> HIDE DEF buckets
  <2>2. QED
    BY <1>5, <1>6, <2>1
<1> HIDE DEF buckets, dir
<1>8. /\ DOMAIN u = {"level", "directory", "bucket", "res"} /\ u.level = t.level /\ u.res = new
      /\ u.bucket = buckets /\ u.directory = dir
  BY <1>1 DEF IsTable
<1> HIDE DEF u
<1>9. /\ dir \in [Entries(t.level) -> 0 .. new]
      /\ \A k \in Entries(t.level) : dir[k] = IF t.directory[k] = b /\ Bit(k, l) = 1 THEN new ELSE t.directory[k]
  <2>1. \A k \in Entries(t.level) : t.directory[k] \in 0 .. new /\ new \in 0 .. new
    BY <1>5 DEF IsTable
  <2>2. QED
    BY <1>4, <2>1 DEF dir
<1>10. box0.level = l + 1 /\ box0.items = Stay(items, l) /\ box1.level = l + 1 /\ box1.items = Moved(items, l)
  BY DEF box0, box1
<1>11. QED
  BY <1>7, <1>8, <1>9, <1>10 DEF Parted, u, Box

LEMMA DividedTable ==
  ASSUME NEW t, IsTable(t), Leads(t), NEW b \in Box(t),
         t.bucket[b].level < t.level, NEW u, Parted(t, b, u)
  PROVE  IsTable(u) /\ Leads(u)
<1> DEFINE l == t.bucket[b].level
           L == t.level
           new == Len(t.bucket) + 1
<1>1. /\ DOMAIN u = {"level", "directory", "bucket", "res"} /\ u.level = L
      /\ u.bucket \in Seq(Boxes) /\ Len(u.bucket) = new /\ u.directory \in [Entries(L) -> 0 .. new]
      /\ u.bucket[b].level = l + 1 /\ u.bucket[new].level = l + 1
      /\ u.bucket[b].items = Stay(t.bucket[b].items, l) /\ u.bucket[new].items = Moved(t.bucket[b].items, l)
      /\ \A c \in Box(t) \ {b} : u.bucket[c] = t.bucket[c]
  BY DEF Parted
<1>2. \A k \in Entries(L) :
        u.directory[k] = IF t.directory[k] = b /\ Bit(k, l) = 1 THEN new ELSE t.directory[k]
  BY DEF Parted
<1>3. /\ l \in 1 .. MaxLevel - 1 /\ l \in 0 .. MaxLevel /\ l + 1 \in 0 .. MaxLevel /\ l < L /\ L \in 0 .. MaxLevel
      /\ L \in 1 .. MaxLevel - 1
  <2>1. l \in 1 .. MaxLevel - 1 /\ L \in 1 .. MaxLevel - 1 /\ MaxLevel \in Nat
    BY BoxIs, GintAssumption DEF IsTable
  <2> HIDE DEF l, L
  <2>2. l < L
    BY DEF l, L
  <2>3. QED
    BY <2>1, <2>2
<1>4. Len(t.bucket) \in Nat /\ new \notin Box(t) /\ Box(u) = Box(t) \cup {new} /\ b # 0 /\ new # 0 /\ b # new
  <2>1. Len(t.bucket) \in Nat
    BY DEF IsTable
  <2>2. QED
    BY <1>1, <2>1 DEF Box
<1>5. \A k \in Entries(L) : k \in Nat /\ t.directory[k] \in 0 .. Len(t.bucket) /\ Bit(k, l) \in {0, 1}
  BY <1>3, LevelIs, LowIs
<1>6. /\ \A c \in Box(t) : t.bucket[c].level <= L /\ t.bucket[c].level \in 1 .. MaxLevel - 1 /\ t.bucket[c].items \in Seq(Pairs)
      /\ \A c \in Box(t) : \A e \in Range(t.bucket[c].items) :
           HashOf(e) \in Nat /\ t.directory[Low(HashOf(e), L)] = c /\ Low(HashOf(e), L) \in Entries(L)
  BY BoxIs, LevelIs DEF Leads
<1>7. \A k, j \in Entries(L) :
        t.directory[k] # 0 =>
          (t.directory[j] = t.directory[k]
             <=> Low(j, t.bucket[t.directory[k]].level) = Low(k, t.bucket[t.directory[k]].level))
  BY DEF Leads
<1> HIDE DEF L, new
<1>8. \A k \in Entries(L) : t.directory[k] # new
  BY <1>4, <1>5 DEF new
<1>9. IsTable(u)
  BY <1>1, <1>3 DEF IsTable
<1>10. ASSUME NEW c \in Box(u)
       PROVE  /\ u.bucket[c].level <= u.level
              /\ \A e \in Range(u.bucket[c].items) : u.directory[Low(HashOf(e), u.level)] = c
  <2>1. /\ Range(Stay(t.bucket[b].items, l)) = {e \in Range(t.bucket[b].items) : Bit(HashOf(e), l) = 0}
        /\ Range(Moved(t.bucket[b].items, l)) = {e \in Range(t.bucket[b].items) : Bit(HashOf(e), l) = 1}
    BY <1>3, <1>6, SplitItems
  <2>2. \A h \in Nat : Bit(Low(h, L), l) = Bit(h, l)
    BY <1>3, BitLow
  <2> HIDE DEF l
  <2>3. CASE c = b
    <3>1. u.bucket[c].level <= u.level
      BY <1>1, <1>3, <2>3
    <3>2. ASSUME NEW e \in Range(u.bucket[c].items) PROVE u.directory[Low(HashOf(e), L)] = c
      <4>1. e \in Range(t.bucket[b].items) /\ Bit(HashOf(e), l) = 0
        BY <1>1, <2>1, <2>3, <3>2
      <4>2. HashOf(e) \in Nat /\ t.directory[Low(HashOf(e), L)] = b /\ Low(HashOf(e), L) \in Entries(L)
        BY <1>6, <4>1
      <4>3. Bit(Low(HashOf(e), L), l) # 1
        BY <2>2, <4>1, <4>2
      <4>4. QED
        BY <1>2, <2>3, <4>2, <4>3
    <3>3. QED
      BY <1>1, <3>1, <3>2
  <2>4. CASE c = new
    <3>1. u.bucket[c].level <= u.level
      BY <1>1, <1>3, <2>4
    <3>2. ASSUME NEW e \in Range(u.bucket[c].items) PROVE u.directory[Low(HashOf(e), L)] = c
      <4>1. e \in Range(t.bucket[b].items) /\ Bit(HashOf(e), l) = 1
        BY <1>1, <2>1, <2>4, <3>2
      <4>2. HashOf(e) \in Nat /\ t.directory[Low(HashOf(e), L)] = b /\ Low(HashOf(e), L) \in Entries(L)
        BY <1>6, <4>1
      <4>3. Bit(Low(HashOf(e), L), l) = 1
        BY <2>2, <4>1, <4>2
      <4>4. QED
        BY <1>2, <2>4, <4>2, <4>3
    <3>3. QED
      BY <1>1, <3>1, <3>2
  <2>5. CASE c \in Box(t) \ {b}
    <3>1. u.bucket[c] = t.bucket[c]
      BY <1>1, <2>5
    <3>2. ASSUME NEW e \in Range(t.bucket[c].items) PROVE u.directory[Low(HashOf(e), L)] = c
      <4>1. t.directory[Low(HashOf(e), L)] = c /\ Low(HashOf(e), L) \in Entries(L) /\ c # b
        BY <1>6, <2>5
      <4>2. QED
        BY <1>2, <4>1
    <3>3. QED
      BY <1>1, <1>6, <2>5, <3>1, <3>2
  <2>6. QED
    BY <1>4, <2>3, <2>4, <2>5
<1>11. ASSUME NEW k \in Entries(L), NEW j \in Entries(L), u.directory[k] # 0
       PROVE  u.directory[j] = u.directory[k]
                <=> Low(j, u.bucket[u.directory[k]].level) = Low(k, u.bucket[u.directory[k]].level)
  <2>1. k \in Nat /\ j \in Nat /\ Bit(k, l) \in {0, 1} /\ Bit(j, l) \in {0, 1}
    BY <1>5
  <2>2. Low(j, l + 1) = Low(k, l + 1) <=> Low(j, l) = Low(k, l) /\ Bit(j, l) = Bit(k, l)
    BY <1>3, <2>1, SameNext
  <2>3. t.directory[k] = b => (t.directory[j] = b <=> Low(j, l) = Low(k, l))
    BY <1>4, <1>7
  <2> HIDE DEF l
  <2>4. CASE t.directory[k] = b /\ Bit(k, l) = 1
    <3>1. u.directory[k] = new /\ (u.directory[j] = new <=> t.directory[j] = b /\ Bit(j, l) = 1)
      BY <1>2, <1>8, <2>4
    <3>2. QED
      BY <1>1, <2>1, <2>2, <2>3, <2>4, <3>1
  <2>5. CASE t.directory[k] = b /\ Bit(k, l) # 1
    <3>1. u.directory[k] = b /\ (u.directory[j] = b <=> t.directory[j] = b /\ Bit(j, l) # 1)
      BY <1>2, <1>4, <2>5
    <3>2. QED
      BY <1>1, <2>1, <2>2, <2>3, <2>5, <3>1
  <2>6. CASE t.directory[k] # b
    <3> DEFINE c == t.directory[k]
    <3>1. u.directory[k] = c /\ c # 0 /\ c \in 0 .. Len(t.bucket) /\ c # new
      BY <1>2, <1>5, <1>8, <1>11, <2>6
    <3>2. c \in Box(t) \ {b}
      <4>1. c # b /\ c \in 0 .. Len(t.bucket) /\ c # 0
        BY <2>6, <3>1
      <4> HIDE DEF c
      <4>2. QED
        BY <1>4, <4>1 DEF Box
    <3>3. u.directory[j] = c <=> t.directory[j] = c
      BY <1>2, <2>6, <3>1
    <3>4. t.directory[j] = c <=> Low(j, t.bucket[c].level) = Low(k, t.bucket[c].level)
      BY <1>7, <3>1
    <3> HIDE DEF c
    <3>5. QED
      BY <1>1, <3>1, <3>2, <3>3, <3>4
  <2>7. QED
    BY <2>4, <2>5, <2>6
<1>12. Leads(u)
  BY <1>1, <1>10, <1>11 DEF Leads
<1>13. QED
  BY <1>9, <1>12

LEMMA DividedFits ==
  ASSUME NEW t, IsTable(t), NEW b \in Box(t), Fits(t, b), Overfull(t, b),
         t.bucket[b].level < MaxLevel - 1, NEW u, Parted(t, b, u), IsTable(u)
  PROVE  /\ Fits(u, IF Overfull(u, u.res) THEN u.res ELSE b)
         /\ u.res \in Box(u) /\ b \in Box(u) /\ u.res # 0
         /\ u.bucket[u.res].level = t.bucket[b].level + 1 /\ u.bucket[b].level = t.bucket[b].level + 1
         /\ Kept(u) = Kept(t)
         /\ Stuck(t) => Stuck(u)
<1> DEFINE l == t.bucket[b].level
           items == t.bucket[b].items
           new == Len(t.bucket) + 1
<1>1. /\ u.res = new /\ Len(u.bucket) = new
      /\ u.bucket[b].level = l + 1 /\ u.bucket[new].level = l + 1
      /\ u.bucket[b].items = Stay(items, l) /\ u.bucket[new].items = Moved(items, l)
      /\ \A c \in Box(t) \ {b} : u.bucket[c] = t.bucket[c]
  BY DEF Parted
<1>2. l \in 0 .. MaxLevel /\ items \in Seq(Pairs) /\ Len(items) \in Nat /\ Len(t.bucket) \in Nat /\ l < MaxLevel - 1 /\ l \in Nat
  <2>1. l \in 1 .. MaxLevel - 1 /\ items \in Seq(Pairs) /\ Len(items) \in Nat /\ Len(t.bucket) \in Nat
    BY BoxIs
  <2>2. QED
    BY <2>1, GintAssumption
<1>3. /\ Len(Stay(items, l)) + Len(Moved(items, l)) = Len(items)
      /\ Len(Stay(items, l)) \in Nat /\ Len(Moved(items, l)) \in Nat
      /\ Range(Stay(items, l)) = {e \in Range(items) : Bit(HashOf(e), l) = 0}
      /\ Range(Moved(items, l)) = {e \in Range(items) : Bit(HashOf(e), l) = 1}
  <2> HIDE DEF l, items
  <2>1. QED
    BY <1>2, SplitItems
<1>4. Len(items) = Cap + 1 /\ Cap \in Nat /\ Cap >= 1
  <2>1. Len(items) <= Cap + 1 /\ Len(items) > Cap
    BY DEF Fits, Overfull
  <2>2. Cap \in Nat /\ Cap >= 1
    BY GintAssumption
  <2> HIDE DEF items
  <2>3. QED
    BY <1>2, <2>1, <2>2
<1>5. Box(u) = Box(t) \cup {new} /\ new \notin Box(t) /\ new # 0
  BY <1>1, <1>2 DEF Box
<1>6. \A e \in Range(items) : Bit(HashOf(e), l) \in {0, 1}
  BY <1>2, BoxIs, LowIs
<1> HIDE DEF l, items, new
<1>7. Fits(u, IF Overfull(u, u.res) THEN u.res ELSE b)
  <2> DEFINE x == IF Overfull(u, u.res) THEN u.res ELSE b
  <2>1. ASSUME NEW c \in Box(u)
        PROVE  /\ Len(u.bucket[c].items) <= Cap + 1
               /\ Overfull(u, c) => c = x \/ u.bucket[c].level = MaxLevel - 1
    <3>1. CASE c = new
      <4>1. Len(u.bucket[c].items) <= Cap + 1
        BY <1>1, <1>3, <1>4, <3>1
      <4>2. Overfull(u, c) => c = x
        BY <1>1, <3>1
      <4>3. QED
        BY <4>1, <4>2
    <3>2. CASE c = b
      <4>1. Len(u.bucket[c].items) <= Cap + 1
        BY <1>1, <1>3, <1>4, <3>2
      <4>2. Overfull(u, c) => ~ Overfull(u, new)
        BY <1>1, <1>3, <1>4, <3>2 DEF Overfull
      <4>3. QED
        BY <1>1, <3>2, <4>1, <4>2
    <3>3. CASE c \in Box(t) \ {b}
      <4>1. u.bucket[c] = t.bucket[c]
        BY <1>1, <3>3
      <4>2. /\ Len(t.bucket[c].items) <= Cap + 1
            /\ Overfull(t, c) => t.bucket[c].level = MaxLevel - 1
        BY <3>3 DEF Fits
      <4>3. QED
        BY <4>1, <4>2 DEF Overfull
    <3>4. QED
      BY <1>5, <3>1, <3>2, <3>3
  <2> HIDE DEF x
  <2>2. Fits(u, x)
    BY <2>1 DEF Fits
  <2>3. QED
    BY <2>2 DEF x
<1>8. Kept(u) = Kept(t)
  <2>1. Range(u.bucket[b].items) \cup Range(u.bucket[new].items) = Range(t.bucket[b].items)
    BY <1>1, <1>3, <1>6 DEF items
  <2>2. ASSUME NEW e PROVE e \in Kept(u) <=> e \in Kept(t)
    <3>1. e \in Kept(u) <=> \E c \in Box(t) \cup {new} : e \in Range(u.bucket[c].items)
      BY <1>5 DEF Kept
    <3>2. e \in Kept(t) <=> \E c \in Box(t) : e \in Range(t.bucket[c].items)
      BY DEF Kept
    <3>3. QED
      BY <1>1, <2>1, <3>1, <3>2
  <2>3. QED
    BY <2>2
<1>9. Stuck(t) => Stuck(u)
  <2>1. ASSUME NEW c \in Box(t), Overfull(t, c), t.bucket[c].level = MaxLevel - 1 PROVE Stuck(u)
    <3>1. c # b
      BY <1>2, <2>1 DEF l
    <3>2. u.bucket[c] = t.bucket[c] /\ c \in Box(u)
      BY <1>1, <1>5, <3>1
    <3>3. QED
      BY <2>1, <3>2 DEF Stuck, Overfull
  <2>2. QED
    BY <2>1 DEF Stuck
<1>10. QED
  BY <1>1, <1>5, <1>7, <1>8, <1>9 DEF l

LEMMA SameBuckets ==
  ASSUME NEW t, NEW u, u.bucket = t.bucket
  PROVE  /\ Box(u) = Box(t) /\ Kept(u) = Kept(t) /\ (Stuck(u) <=> Stuck(t))
         /\ \A x : Fits(u, x) <=> Fits(t, x)
         /\ \A b : Overfull(u, b) <=> Overfull(t, b)
<1>1. Box(u) = Box(t)
  BY DEF Box
<1>2. \A b : Overfull(u, b) <=> Overfull(t, b)
  BY DEF Overfull
<1>3. Kept(u) = Kept(t)
  BY <1>1 DEF Kept
<1>4. Stuck(u) <=> Stuck(t)
  BY <1>1, <1>2 DEF Stuck
<1>5. \A x : Fits(u, x) <=> Fits(t, x)
  BY <1>1, <1>2 DEF Fits
<1>6. QED
  BY <1>1, <1>2, <1>3, <1>4, <1>5

\* A table in which no bucket but x may be too full.
Roomy(t, x) == IsTable(t) /\ Leads(t) /\ Fits(t, x)

\* The bucket that a split leaves too full, if any.
NextBox(u, b) == IF Overfull(u, u.res) THEN u.res ELSE b

\* What a split makes of a table with the bucket b.
Splits(t, b, u) ==
  /\ Kept(u) = Kept(t) /\ (Stuck(t) => Stuck(u))
  /\ u.res = 0 => Roomy(u, 0) /\ Stuck(u)
  /\ u.res # 0 => /\ Roomy(u, NextBox(u, b)) /\ NextBox(u, b) \in Box(u)
                  /\ u.bucket[NextBox(u, b)].level = t.bucket[b].level + 1

LEMMA DivideSplits ==
  ASSUME NEW t, IsTable(t), Leads(t), NEW b \in Box(t), Fits(t, b), Overfull(t, b),
         t.bucket[b].level < t.level
  PROVE  Splits(t, b, Divide(t, b))
<1> DEFINE u == Divide(t, b)
<1>1. t.bucket[b].level < MaxLevel - 1
  <2>1. t.bucket[b].level \in 1 .. MaxLevel - 1 /\ t.level \in 1 .. MaxLevel - 1 /\ MaxLevel \in Nat
    BY BoxIs, GintAssumption DEF IsTable
  <2>2. QED
    BY <2>1
<1>2. t.bucket[b].items # <<>>
  <2>1. Len(t.bucket[b].items) > Cap /\ Cap \in Nat /\ Len(<<>>) = 0
    BY GintAssumption DEF Overfull
  <2>2. QED
    BY <2>1
<1>3. Parted(t, b, u)
  BY <1>1, <1>2, DivideParts
<1> HIDE DEF u
<1>4. IsTable(u) /\ Leads(u)
  BY <1>3, DividedTable
<1>5. /\ Fits(u, IF Overfull(u, u.res) THEN u.res ELSE b)
      /\ u.res \in Box(u) /\ b \in Box(u) /\ u.res # 0
      /\ u.bucket[u.res].level = t.bucket[b].level + 1 /\ u.bucket[b].level = t.bucket[b].level + 1
      /\ Kept(u) = Kept(t)
      /\ Stuck(t) => Stuck(u)
  BY <1>1, <1>3, <1>4, DividedFits
<1>6. Fits(u, NextBox(u, b))
  BY <1>5 DEF NextBox
<1>7. NextBox(u, b) \in Box(u) /\ u.bucket[NextBox(u, b)].level = t.bucket[b].level + 1
  BY <1>5 DEF NextBox
<1>8. QED
  BY <1>4, <1>5, <1>6, <1>7 DEF Splits, Roomy, u

LEMMA SplitIs ==
  ASSUME NEW t, NEW b \in Box(t), Roomy(t, b), Overfull(t, b)
  PROVE  Splits(t, b, Split(t, b))
<1> DEFINE l == t.bucket[b].level
<1>1. IsTable(t) /\ Leads(t) /\ Fits(t, b)
  BY DEF Roomy
<1>2. l \in 1 .. MaxLevel - 1 /\ l <= t.level /\ t.level \in 1 .. MaxLevel - 1 /\ MaxLevel \in Nat
  BY <1>1, BoxIs, GintAssumption DEF IsTable, Leads
<1>3. CASE l = t.level /\ t.level + 1 >= MaxLevel
  <2> DEFINE u == [t EXCEPT !.res = 0]
  <2>1. Split(t, b) = u
    BY <1>3 DEF Split
  <2>2. /\ DOMAIN u = {"level", "directory", "bucket", "res"} /\ u.res = 0
        /\ u.level = t.level /\ u.bucket = t.bucket /\ u.directory = t.directory
    BY <1>1 DEF IsTable
  <2> HIDE DEF u
  <2>3. IsTable(u) /\ Leads(u)
    <3>1. IsTable(u)
      BY <1>1, <2>2 DEF IsTable
    <3>2. Leads(u)
      BY <1>1, <2>2 DEF Leads, Box
    <3>3. QED
      BY <3>1, <3>2
  <2>4. Stuck(t)
    <3>1. l = MaxLevel - 1
      BY <1>2, <1>3
    <3>2. QED
      BY <3>1 DEF Stuck
  <2>5. Fits(t, 0)
    <3>1. l = MaxLevel - 1
      BY <1>2, <1>3
    <3>2. QED
      BY <1>1, <3>1 DEF Fits
  <2>6. Kept(u) = Kept(t) /\ Stuck(u) /\ Fits(u, 0)
    BY <2>2, <2>4, <2>5, SameBuckets
  <2>7. QED
    BY <2>1, <2>2, <2>3, <2>6 DEF Splits, Roomy
<1>4. CASE l = t.level /\ ~ (t.level + 1 >= MaxLevel)
  <2> DEFINE g == Grow(t)
  <2>1. t.level + 1 < MaxLevel
    BY <1>2, <1>4
  <2>2. IsTable(g) /\ Leads(g) /\ g.bucket = t.bucket /\ g.level = t.level + 1
    BY <1>1, <2>1, GrowIs
  <2>3. Split(t, b) = Divide(g, b)
    <3>1. g.bucket[b].level = t.bucket[b].level /\ Len(g.bucket) = Len(t.bucket) /\ g.bucket = t.bucket
      BY <2>2
    <3> DEFINE red == Redirected(g, l, Low(Scrambled(g.bucket[b].items[1][1]), l))
    <3>2. Split(t, b) = LET new == Len(g.bucket) + 1
                            buckets == Append([g.bucket EXCEPT ![b] = [level |-> l + 1, items |-> Stay(g.bucket[b].items, l)]],
                                              [level |-> l + 1, items |-> Moved(g.bucket[b].items, l)])
                        IN [g EXCEPT !.bucket = buckets, !.res = new,
                              !.directory = [k \in Entries(g.level) |-> IF k \in red THEN new ELSE @[k]]]
      BY <1>4 DEF Split
    <3> HIDE DEF g
    <3>3. g.bucket[b].level = l
      BY <3>1
    <3>4. QED
      BY <3>2, <3>3 DEF Divide
  <2> HIDE DEF g
  <2>4. /\ Box(g) = Box(t) /\ Kept(g) = Kept(t) /\ (Stuck(g) <=> Stuck(t))
        /\ Fits(g, b) /\ Overfull(g, b)
    BY <1>1, <2>2, SameBuckets
  <2>5. g.bucket[b].level < g.level
    BY <1>2, <1>4, <2>2
  <2>6. Splits(g, b, Divide(g, b))
    BY <2>2, <2>4, <2>5, DivideSplits
  <2>7. QED
    BY <2>2, <2>3, <2>4, <2>6 DEF Splits
<1>5. CASE l # t.level
  <2>1. l < t.level
    BY <1>2, <1>5
  <2>2. t.bucket[b].items # <<>>
    <3>1. Len(t.bucket[b].items) > Cap /\ Cap \in Nat /\ Len(<<>>) = 0
      BY GintAssumption DEF Overfull
    <3>2. QED
      BY <3>1
  <2>3. \A k \in Redirected(t, l, Low(Scrambled(t.bucket[b].items[1][1]), l)) : t.directory[k] = b
    BY <1>1, <2>2, RedirectedIs
  <2>4. Split(t, b) = Divide(t, b)
    BY <1>5, <2>3 DEF Split, Divide
  <2>5. QED
    BY <1>1, <2>1, <2>4, DivideSplits
<1>6. QED
  BY <1>3, <1>4, <1>5

-----------------------------------------------------------------------------
(* Splits until there is room                                              *)

\* One round of SplitAll, and all of its rounds.
OneSplit(s) ==
  LET u == Split(s.tbl, s.b)
      next == IF u.res # 0 /\ Overfull(u, u.res) THEN u.res ELSE s.b
  IN IF s.going THEN [tbl |-> u, b |-> next, going |-> u.res # 0 /\ Overfull(u, next)] ELSE s

Rounds(t, b, k, f) ==
  f = [n \in 0 .. k |-> IF n = 0 THEN [tbl |-> t, b |-> b, going |-> Overfull(t, b)] ELSE OneSplit(f[n - 1])]

LEMMA RoundsExist ==
  ASSUME NEW t, NEW b
  PROVE  \E f : Rounds(t, b, MaxLevel, f)
<1> DEFINE T == {k \in 0 .. MaxLevel : \E f : Rounds(t, b, k, f)}
           start == [tbl |-> t, b |-> b, going |-> Overfull(t, b)]
<1>1. MaxLevel \in Nat
  BY GintAssumption
<1>2. 0 \in T
  <2>1. Rounds(t, b, 0, [n \in 0 .. 0 |-> start])
    BY DEF Rounds
  <2>2. QED
    BY <1>1, <2>1
<1>3. ASSUME NEW k \in 1 .. MaxLevel, k - 1 \in T PROVE k \in T
  <2>1. PICK f : Rounds(t, b, k - 1, f)
    BY <1>3
  <2> DEFINE g == [n \in 0 .. k |-> IF n = k THEN OneSplit(f[k - 1]) ELSE f[n]]
  <2>2. k \in Nat /\ k # 0 /\ k - 1 \in 0 .. k - 1
    BY <1>1
  <2>3. f = [n \in 0 .. k - 1 |-> IF n = 0 THEN start ELSE OneSplit(f[n - 1])]
    BY <2>1 DEF Rounds
  <2> HIDE DEF start
  <2>4. ASSUME NEW n \in 0 .. k PROVE g[n] = IF n = 0 THEN start ELSE OneSplit(g[n - 1])
    <3>1. CASE n = k
      <4>1. k - 1 \in 0 .. k /\ k - 1 # k
        BY <2>2
      <4>2. g[k - 1] = f[k - 1]
        BY <4>1
      <4>3. g[k] = OneSplit(f[k - 1])
        BY <2>2
      <4>4. QED
        BY <2>2, <3>1, <4>2, <4>3
    <3>2. CASE n # k
      <4>1. n \in 0 .. k - 1 /\ g[n] = f[n]
        BY <2>2, <3>2
      <4>2. n # 0 => n - 1 \in 0 .. k /\ n - 1 # k
        BY <2>2, <4>1
      <4>3. n # 0 => g[n - 1] = f[n - 1]
        BY <4>2
      <4> HIDE DEF g
      <4>4. f[n] = IF n = 0 THEN start ELSE OneSplit(f[n - 1])
        BY <2>3, <4>1
      <4>5. QED
        BY <4>1, <4>3, <4>4
    <3>3. QED
      BY <3>1, <3>2
  <2>5. g = [n \in 0 .. k |-> g[n]]
    OBVIOUS
  <2> HIDE DEF g
  <2>6. g = [n \in 0 .. k |-> IF n = 0 THEN start ELSE OneSplit(g[n - 1])]
    BY <2>4, <2>5
  <2>7. Rounds(t, b, k, g)
    BY <2>6 DEF Rounds, start
  <2>8. k \in 0 .. MaxLevel
    BY <1>1
  <2>9. QED
    BY <2>7, <2>8
<1> HIDE DEF T
<1>4. 0 .. MaxLevel \subseteq T
  BY <1>1, <1>2, <1>3, UpTo
<1>5. MaxLevel \in 0 .. MaxLevel
  BY <1>1
<1>6. QED
  BY <1>4, <1>5 DEF T

LEMMA Settles ==
  ASSUME NEW t, NEW x, Roomy(t, x), ~ Overfull(t, x)
  PROVE  Roomy(t, 0)
BY DEF Roomy, Fits

\* What the rounds make of the table t.
Good(t, n, s) ==
  /\ Kept(s.tbl) = Kept(t) /\ (Stuck(t) => Stuck(s.tbl)) /\ (s.tbl.res = 0 => Stuck(s.tbl))
  /\ s.going => /\ s.b \in Box(s.tbl) /\ Roomy(s.tbl, s.b) /\ Overfull(s.tbl, s.b)
                /\ n + 1 <= s.tbl.bucket[s.b].level
  /\ ~ s.going => Roomy(s.tbl, 0)

LEMMA RoundGood ==
  ASSUME NEW t, NEW n \in Nat, NEW s, Good(t, n, s)
  PROVE  Good(t, n + 1, OneSplit(s))
<1>1. CASE ~ s.going
  <2>1. OneSplit(s) = s
    BY <1>1 DEF OneSplit
  <2>2. Good(t, n + 1, s)
    BY <1>1 DEF Good
  <2>3. QED
    BY <2>1, <2>2
<1>2. CASE s.going
  <2> DEFINE v == s.tbl
             b == s.b
             u == Split(v, b)
             next == IF u.res # 0 /\ Overfull(u, u.res) THEN u.res ELSE b
             more == u.res # 0 /\ Overfull(u, next)
             r == OneSplit(s)
  <2>1. /\ Kept(v) = Kept(t) /\ (Stuck(t) => Stuck(v))
        /\ b \in Box(v) /\ Roomy(v, b) /\ Overfull(v, b) /\ n + 1 <= v.bucket[b].level
    BY <1>2 DEF Good
  <2>2. r = [tbl |-> u, b |-> next, going |-> more]
    BY <1>2 DEF OneSplit
  <2>3. v.bucket[b].level \in Nat
    BY <2>1, BoxIs DEF Roomy
  <2> HIDE DEF v, b
  <2>4. Splits(v, b, u)
    BY <2>1, SplitIs
  <2> HIDE DEF u, next
  <2> HIDE DEF more
  <2>0. r.tbl = u /\ r.b = next /\ r.going = more
    BY <2>2
  <2>5. r.tbl = u /\ r.b = next /\ (r.going <=> u.res # 0 /\ Overfull(u, next))
    BY <2>0, Zenon DEF more
  <2> HIDE DEF r
  <2>6. Kept(u) = Kept(t) /\ (Stuck(t) => Stuck(u)) /\ (u.res = 0 => Roomy(u, 0) /\ Stuck(u))
    BY <2>1, <2>4 DEF Splits
  <2>7. CASE u.res = 0
    <3>1. ~ r.going
      BY <2>5, <2>7
    <3>2. QED
      BY <2>5, <2>6, <2>7, <3>1 DEF Good, r
  <2>8. CASE u.res # 0
    <3>1. next = NextBox(u, b)
      BY <2>8 DEF next, NextBox
    <3>2. Roomy(u, next) /\ next \in Box(u) /\ u.bucket[next].level = v.bucket[b].level + 1
      BY <2>4, <2>8, <3>1 DEF Splits
    <3>3. (n + 1) + 1 <= u.bucket[next].level
      BY <2>1, <2>3, <3>2
    <3>4. r.going <=> Overfull(u, next)
      BY <2>5, <2>8
    <3>5. ~ Overfull(u, next) => Roomy(u, 0)
      BY <3>2, Settles
    <3>6. Good(t, n + 1, r)
      BY <2>5, <2>6, <2>8, <3>2, <3>3, <3>4, <3>5 DEF Good
    <3>7. QED
      BY <3>6 DEF r
  <2>9. QED
    BY <2>7, <2>8
<1>3. QED
  BY <1>1, <1>2

LEMMA SplitAllIs ==
  ASSUME NEW t, NEW b \in Box(t), Roomy(t, b), t.res = 0 => Stuck(t)
  PROVE  /\ Roomy(SplitAll(t, b), 0) /\ Kept(SplitAll(t, b)) = Kept(t)
         /\ SplitAll(t, b).res = 0 => Stuck(SplitAll(t, b))
         /\ Stuck(t) => Stuck(SplitAll(t, b))
<1> DEFINE f == CHOOSE f : Rounds(t, b, MaxLevel, f)
           T == {n \in 0 .. MaxLevel : Good(t, n, f[n])}
           s == f[MaxLevel]
           start == [tbl |-> t, b |-> b, going |-> Overfull(t, b)]
<1>1. MaxLevel \in Nat /\ MaxLevel \in 0 .. MaxLevel
  BY GintAssumption
<1>2. Rounds(t, b, MaxLevel, f)
  BY RoundsExist
<1>3. SplitAll(t, b) = s.tbl
  BY DEF SplitAll, Rounds, OneSplit
<1> HIDE DEF f
<1>4. /\ f[0] = start
      /\ \A n \in 1 .. MaxLevel : f[n] = OneSplit(f[n - 1])
  BY <1>1, <1>2 DEF Rounds
<1>5. 0 \in T
  <2>1. Good(t, 0, start)
    <3>1. start.tbl = t /\ start.b = b /\ (start.going <=> Overfull(t, b))
      OBVIOUS
    <3> HIDE DEF start
    <3>2. t.bucket[b].level \in Nat /\ 0 + 1 <= t.bucket[b].level
      <4>1. t.bucket[b].level \in 1 .. MaxLevel - 1
        BY BoxIs DEF Roomy
      <4>2. QED
        BY <1>1, <4>1
    <3>3. ~ Overfull(t, b) => Roomy(t, 0)
      BY Settles
    <3>4. QED
      BY <3>1, <3>2, <3>3 DEF Good
  <2>2. 0 \in 0 .. MaxLevel
    BY <1>1
  <2> HIDE DEF start
  <2>3. QED
    BY <1>4, <2>1, <2>2
<1>6. ASSUME NEW n \in 1 .. MaxLevel, n - 1 \in T PROVE n \in T
  <2>1. n - 1 \in Nat /\ (n - 1) + 1 = n /\ n \in 0 .. MaxLevel
    BY <1>1
  <2>2. Good(t, n - 1, f[n - 1])
    BY <1>6
  <2>3. Good(t, (n - 1) + 1, OneSplit(f[n - 1]))
    BY <2>1, <2>2, RoundGood
  <2>4. QED
    BY <1>4, <2>1, <2>3
<1>7. Good(t, MaxLevel, s)
  <2> HIDE DEF T
  <2>1. 0 .. MaxLevel \subseteq T
    BY <1>1, <1>5, <1>6, UpTo
  <2>2. MaxLevel \in T
    BY <1>1, <2>1
  <2>3. QED
    BY <2>2 DEF T
<1> HIDE DEF s
<1>8. ~ s.going
  <2> SUFFICES ASSUME s.going PROVE FALSE
    OBVIOUS
  <2>1. s.b \in Box(s.tbl) /\ Roomy(s.tbl, s.b) /\ MaxLevel + 1 <= s.tbl.bucket[s.b].level
    BY <1>7 DEF Good
  <2>2. s.tbl.bucket[s.b].level \in 1 .. MaxLevel - 1
    BY <2>1, BoxIs DEF Roomy
  <2>3. QED
    BY <1>1, <2>1, <2>2
<1>9. QED
  BY <1>3, <1>7, <1>8 DEF Good

-----------------------------------------------------------------------------
(* Calls of addkey                                                         *)

\* A bucket of the last level that is too full makes the call fail.
LEMMA SplitAllFails ==
  ASSUME NEW t, NEW b \in Box(t), Roomy(t, b), Overfull(t, b), t.bucket[b].level = MaxLevel - 1
  PROVE  SplitAll(t, b).res = 0
<1> DEFINE f == CHOOSE f : Rounds(t, b, MaxLevel, f)
           T == {n \in 0 .. MaxLevel : n # 0 => f[n].tbl.res = 0 /\ ~ f[n].going}
           start == [tbl |-> t, b |-> b, going |-> Overfull(t, b)]
<1>1. MaxLevel \in Nat /\ MaxLevel >= 2
  BY GintAssumption
<1>2. Rounds(t, b, MaxLevel, f)
  BY RoundsExist
<1>3. SplitAll(t, b) = f[MaxLevel].tbl
  BY DEF SplitAll, Rounds, OneSplit
<1> HIDE DEF f
<1>0. f = [n \in 0 .. MaxLevel |-> IF n = 0 THEN start ELSE OneSplit(f[n - 1])]
  BY <1>2, Zenon DEF Rounds
<1> HIDE DEF start
<1>4. /\ f[0] = start
      /\ \A n \in 1 .. MaxLevel : f[n] = OneSplit(f[n - 1])
  BY <1>1, <1>0
<1>5. 0 \in T
  BY <1>1
<1>6. OneSplit(start).tbl.res = 0 /\ ~ OneSplit(start).going
  <2> DEFINE u == Split(t, b)
             next == IF u.res # 0 /\ Overfull(u, u.res) THEN u.res ELSE b
             more == u.res # 0 /\ Overfull(u, next)
  <2>1. OneSplit(start) = [tbl |-> u, b |-> next, going |-> more]
    BY DEF OneSplit, start
  <2>2. u.res = 0
    <3>1. DOMAIN t = {"level", "directory", "bucket", "res"} /\ t.level \in 1 .. MaxLevel - 1
          /\ t.bucket[b].level <= t.level
      BY DEF Roomy, IsTable, Leads
    <3>2. t.bucket[b].level = t.level /\ t.level + 1 >= MaxLevel
      BY <1>1, <3>1
    <3>3. u = [t EXCEPT !.res = 0]
      BY <3>2 DEF Split
    <3>4. QED
      BY <3>1, <3>3
  <2>3. ~ more
    BY <2>2
  <2> HIDE DEF u, next, more
  <2>4. OneSplit(start).tbl = u /\ OneSplit(start).going = more
    BY <2>1
  <2>5. QED
    BY <2>2, <2>3, <2>4, Zenon
<1>7. ASSUME NEW n \in 1 .. MaxLevel, n - 1 \in T PROVE n \in T
  <2>1. n \in 0 .. MaxLevel /\ f[n] = OneSplit(f[n - 1])
    BY <1>1, <1>4
  <2>2. CASE n - 1 = 0
    BY <1>4, <1>6, <2>1, <2>2
  <2>3. CASE n - 1 # 0
    <3>1. f[n - 1].tbl.res = 0 /\ ~ f[n - 1].going
      BY <1>7, <2>3
    <3>2. f[n] = f[n - 1]
      BY <2>1, <3>1 DEF OneSplit
    <3>3. QED
      BY <2>1, <3>1, <3>2
  <2>4. QED
    BY <2>2, <2>3
<1>8. MaxLevel \in T
  <2> HIDE DEF T
  <2>1. 0 .. MaxLevel \subseteq T
    BY <1>1, <1>5, <1>7, UpTo
  <2>2. QED
    BY <1>1, <2>1
<1>9. QED
  BY <1>1, <1>3, <1>8

\* What a call makes of a table.
Takes(t, e, u) == Kept(u) = Kept(t) \cup {e} /\ (Stuck(t) => Stuck(u)) /\ u.res = 1

LEMMA NewBucketTakes ==
  ASSUME NEW t, Roomy(t, 0), NEW key \in Keys, NEW val \in Vals, t.directory[Place(t, key)] = 0
  PROVE  Roomy(AddToNewBucket(t, key, val), 0) /\ Takes(t, <<key, val>>, AddToNewBucket(t, key, val))
<1> DEFINE e == <<key, val>>
           L == t.level
           p == Place(t, key)
           new == Len(t.bucket) + 1
           box == [level |-> L, items |-> <<e>>]
           buckets == Append(t.bucket, box)
           dir == [t.directory EXCEPT ![p] = new]
           u == AddToNewBucket(t, key, val)
<1>1. IsTable(t) /\ Leads(t) /\ Fits(t, 0)
  BY DEF Roomy
<1>2. e \in Pairs /\ HashOf(e) = Scrambled(key) /\ Scrambled(key) \in Nat
  BY GintAssumption DEF Pairs, HashOf
<1>3. /\ L \in 0 .. MaxLevel /\ L \in Nat /\ L \in 1 .. MaxLevel - 1
      /\ p \in Entries(L) /\ p = Low(HashOf(e), L)
  BY <1>1, <1>2, LevelIs DEF Place, IsTable
<1>4. /\ DOMAIN u = {"level", "directory", "bucket", "res"} /\ u.level = L /\ u.res = 1
      /\ u.bucket = buckets /\ u.directory = dir
  BY <1>1 DEF AddToNewBucket, IsTable
<1> HIDE DEF u
<1>5. /\ Len(t.bucket) \in Nat /\ new \in Nat /\ t.bucket \in Seq(Boxes)
      /\ t.directory \in [Entries(L) -> 0 .. Len(t.bucket)]
  BY <1>1 DEF IsTable
<1>6. box \in Boxes /\ box.level = L /\ box.items = <<e>> /\ Len(<<e>>) = 1 /\ Range(<<e>>) = {e}
  <2>1. <<e>> \in Seq(Pairs) /\ Len(<<e>>) = 1 /\ Range(<<e>>) = {e}
    BY <1>2 DEF Range
  <2> HIDE DEF e
  <2>2. QED
    BY <1>3, <2>1 DEF Boxes
<1> HIDE DEF box, e
<1>7. /\ buckets \in Seq(Boxes) /\ Len(buckets) = new /\ buckets[new] = box
      /\ \A c \in Box(t) : buckets[c] = t.bucket[c]
  BY <1>5, <1>6 DEF Box
<1>8. /\ dir \in [Entries(L) -> 0 .. new] /\ dir[p] = new
      /\ \A k \in Entries(L) : k # p => dir[k] = t.directory[k]
  BY <1>3, <1>5
<1> HIDE DEF buckets, dir
<1>9. Box(u) = Box(t) \cup {new} /\ new \notin Box(t)
  BY <1>4, <1>5, <1>7 DEF Box
<1>10. \A c \in Box(t) : u.bucket[c] = t.bucket[c]
  BY <1>4, <1>7
<1>11. u.bucket[new].level = L /\ u.bucket[new].items = <<e>>
  BY <1>4, <1>6, <1>7
<1>12. IsTable(u)
  BY <1>3, <1>4, <1>7, <1>8 DEF IsTable
<1>13. ASSUME NEW c \in Box(u)
       PROVE  u.bucket[c].level <= u.level /\ \A x \in Range(u.bucket[c].items) : u.directory[Low(HashOf(x), u.level)] = c
  <2>1. CASE c = new
    <3>1. \A x \in Range(u.bucket[c].items) : x = e
      BY <1>6, <1>11, <2>1
    <3>2. QED
      BY <1>3, <1>4, <1>8, <1>11, <2>1, <3>1
  <2>2. CASE c \in Box(t)
    <3>1. u.bucket[c] = t.bucket[c] /\ c # 0
      BY <1>10, <2>2 DEF Box
    <3>2. t.bucket[c].level <= L /\ \A x \in Range(t.bucket[c].items) : t.directory[Low(HashOf(x), L)] = c
      BY <1>1, <2>2 DEF Leads
    <3>3. ASSUME NEW x \in Range(t.bucket[c].items) PROVE u.directory[Low(HashOf(x), L)] = c
      <4>1. HashOf(x) \in Nat
        BY <1>1, <2>2, BoxIs
      <4>2. Low(HashOf(x), L) \in Entries(L) /\ Low(HashOf(x), L) # p
        BY <1>1, <3>1, <3>2, <4>1, LevelIs
      <4>3. QED
        BY <1>4, <1>8, <3>2, <4>2
    <3>4. QED
      BY <1>4, <3>1, <3>2, <3>3
  <2>3. QED
    BY <1>9, <2>1, <2>2
<1>14. ASSUME NEW k \in Entries(u.level), NEW j \in Entries(u.level), u.directory[k] # 0
       PROVE  u.directory[j] = u.directory[k]
                <=> Low(j, u.bucket[u.directory[k]].level) = Low(k, u.bucket[u.directory[k]].level)
  <2>1. k \in Entries(L) /\ j \in Entries(L)
    BY <1>4
  <2>2. t.directory[k] \in 0 .. Len(t.bucket) /\ t.directory[j] \in 0 .. Len(t.bucket)
    BY <1>5, <2>1
  <2>3. CASE k = p
    <3>1. u.directory[k] = new /\ u.bucket[u.directory[k]].level = L
      BY <1>4, <1>8, <1>11, <2>3
    <3>2. u.directory[j] = new <=> j = p
      BY <1>4, <1>5, <1>8, <2>1, <2>2
    <3>3. Low(j, L) = j /\ Low(k, L) = k
      BY <1>3, <2>1, LowOwn
    <3>4. QED
      BY <2>3, <3>1, <3>2, <3>3
  <2>4. CASE k # p
    <3> DEFINE c == t.directory[k]
    <3>1. u.directory[k] = c /\ c \in Box(t) /\ c # 0
      BY <1>4, <1>5, <1>8, <1>14, <2>1, <2>2, <2>4 DEF Box
    <3>2. u.bucket[c] = t.bucket[c] /\ c # new
      BY <1>9, <1>10, <3>1
    <3>3. t.directory[j] = c <=> Low(j, t.bucket[c].level) = Low(k, t.bucket[c].level)
      BY <1>1, <2>1, <3>1 DEF Leads
    <3>4. u.directory[j] = c <=> t.directory[j] = c
      BY <1>4, <1>8, <2>1, <3>1, <3>2
    <3> HIDE DEF c
    <3>5. QED
      BY <3>1, <3>2, <3>3, <3>4
  <2>5. QED
    BY <2>3, <2>4
<1>15. Leads(u)
  BY <1>13, <1>14 DEF Leads
<1>16. \A c \in Box(t) : Overfull(u, c) <=> Overfull(t, c)
  BY <1>10 DEF Overfull
<1>17. Len(u.bucket[new].items) = 1 /\ 1 <= Cap + 1 /\ ~ Overfull(u, new)
  BY <1>6, <1>11, GintAssumption DEF Overfull
<1>18. Fits(u, 0)
  BY <1>1, <1>9, <1>10, <1>16, <1>17 DEF Fits
<1>19. Stuck(t) => Stuck(u)
  BY <1>9, <1>10, <1>16 DEF Stuck
<1>20. Kept(u) = Kept(t) \cup {e}
  BY <1>6, <1>9, <1>10, <1>11 DEF Kept
<1>21. QED
  BY <1>4, <1>12, <1>15, <1>18, <1>19, <1>20 DEF Roomy, Takes, u, e

LEMMA AppendTakes ==
  ASSUME NEW t, Roomy(t, 0), NEW key \in Keys, NEW val \in Vals, NEW b \in Box(t),
         t.directory[Place(t, key)] = b, ~ Overfull(t, b)
  PROVE  LET u == [t EXCEPT !.bucket[b].items = Append(@, <<key, val>>), !.res = 1] IN
         b \in Box(u) /\ Roomy(u, b) /\ Takes(t, <<key, val>>, u)
<1> DEFINE e == <<key, val>>
           L == t.level
           old == t.bucket[b].items
           items == Append(old, e)
           box == [t.bucket[b] EXCEPT !.items = items]
           buckets == [t.bucket EXCEPT ![b] = box]
           u == [t EXCEPT !.bucket[b].items = Append(@, e), !.res = 1]
<1>1. IsTable(t) /\ Leads(t) /\ Fits(t, 0)
  BY DEF Roomy
<1>2. e \in Pairs /\ HashOf(e) = Scrambled(key) /\ Scrambled(key) \in Nat
  BY GintAssumption DEF Pairs, HashOf
<1>3. Low(HashOf(e), L) = Place(t, key)
  BY <1>2 DEF Place
<1>4. t.bucket[b] \in Boxes /\ old \in Seq(Pairs) /\ Len(old) \in Nat /\ DOMAIN t.bucket = Box(t) /\ Len(t.bucket) \in Nat
  BY <1>1, BoxIs
<1>5. /\ DOMAIN u = {"level", "directory", "bucket", "res"} /\ u.level = L /\ u.res = 1
      /\ u.bucket = buckets /\ u.directory = t.directory
  BY <1>1 DEF IsTable
<1> HIDE DEF u, e
<1>6. items \in Seq(Pairs) /\ Len(items) = Len(old) + 1 /\ Range(items) = Range(old) \cup {e}
  BY <1>2, <1>4, AppendedRange
<1> HIDE DEF items
<1>7. box \in Boxes /\ box.items = items /\ box.level = t.bucket[b].level
  BY <1>4, <1>6 DEF Boxes
<1> HIDE DEF box
<1>8. t.bucket \in Seq(Boxes)
  BY <1>1 DEF IsTable
<1>9. /\ buckets \in Seq(Boxes) /\ Len(buckets) = Len(t.bucket) /\ buckets[b] = box
      /\ \A c \in Box(t) \ {b} : buckets[c] = t.bucket[c]
  BY <1>4, <1>7, <1>8 DEF Box
<1> HIDE DEF buckets
<1>10. Box(u) = Box(t)
  BY <1>5, <1>9 DEF Box
<1>11. /\ \A c \in Box(t) : u.bucket[c].level = t.bucket[c].level
       /\ \A c \in Box(t) \ {b} : u.bucket[c].items = t.bucket[c].items
       /\ u.bucket[b].items = items
  BY <1>5, <1>7, <1>9
<1>12. IsTable(u)
  BY <1>1, <1>5, <1>9 DEF IsTable
<1>13. Leads(u)
  <2>1. ASSUME NEW c \in Box(u), NEW x \in Range(u.bucket[c].items)
        PROVE  u.directory[Low(HashOf(x), u.level)] = c
    <3>1. CASE x \in Range(t.bucket[c].items)
      BY <1>1, <1>5, <1>10, <3>1 DEF Leads
    <3>2. CASE x \notin Range(t.bucket[c].items)
      <4>1. c = b /\ x = e
        BY <1>6, <1>10, <1>11, <3>2
      <4>2. QED
        BY <1>3, <1>5, <4>1
    <3>3. QED
      BY <3>1, <3>2
  <2>2. ASSUME NEW k \in Entries(u.level), u.directory[k] # 0
        PROVE  u.directory[k] = t.directory[k] /\ u.bucket[u.directory[k]].level = t.bucket[t.directory[k]].level
    <3>1. k \in Entries(L) /\ t.directory[k] \in 0 .. Len(t.bucket) /\ u.directory[k] = t.directory[k]
      BY <1>1, <1>5, <2>2 DEF IsTable
    <3>2. t.directory[k] \in Box(t)
      BY <1>4, <2>2, <3>1 DEF Box
    <3>3. QED
      BY <1>11, <3>1, <3>2
  <2>3. \A c \in Box(u) : u.bucket[c].level <= u.level
    BY <1>1, <1>5, <1>10, <1>11 DEF Leads
  <2>4. \A k, j \in Entries(u.level) :
       u.directory[k] # 0 =>
         (u.directory[j] = u.directory[k]
            <=> Low(j, u.bucket[u.directory[k]].level) = Low(k, u.bucket[u.directory[k]].level))
    BY <1>1, <1>5, <2>2 DEF Leads
  <2>5. QED
    BY <2>1, <2>3, <2>4 DEF Leads
<1>14. Len(u.bucket[b].items) <= Cap + 1
  BY <1>4, <1>6, <1>11, GintAssumption DEF Overfull
<1>15. \A c \in Box(t) \ {b} : Overfull(u, c) <=> Overfull(t, c)
  BY <1>11 DEF Overfull
<1>16. Fits(u, b)
  <2>1. \A c \in Box(t) : c # 0
    BY DEF Box
  <2>2. QED
    BY <1>1, <1>10, <1>11, <1>14, <1>15, <2>1 DEF Fits
<1>17. Stuck(t) => Stuck(u)
  BY <1>10, <1>11, <1>15 DEF Stuck
<1>18. Kept(u) = Kept(t) \cup {e}
  BY <1>6, <1>10, <1>11 DEF Kept
<1>19. b \in Box(u) /\ Roomy(u, b) /\ Takes(t, e, u)
  BY <1>5, <1>10, <1>12, <1>13, <1>16, <1>17, <1>18 DEF Roomy, Takes
<1>20. QED
  BY <1>19 DEF u, e

\* The table as the calls leave it: it holds what was added, and it has a
\* bucket that cannot split if a call failed.
TableSound ==
  /\ Roomy(tbl, 0) /\ (tbl.res = 0 => Stuck(tbl))
  /\ ~ failed => Kept(tbl) = added
  /\ failed => Stuck(tbl)

LEMMA TableSoundExact ==
  ASSUME TableSound
  PROVE  GintHashExact
<1> DEFINE L == tbl.level
<1>1. IsTable(tbl) /\ Leads(tbl)
  BY DEF TableSound, Roomy
<1>2. L \in 0 .. MaxLevel /\ L \in 1 .. MaxLevel - 1 /\ MaxLevel \in Nat
  BY <1>1, LevelIs, GintAssumption DEF IsTable
<1>3. \A c \in Box(tbl) : c # 0 /\ tbl.bucket[c].items \in Seq(Pairs)
  BY <1>1, BoxIs DEF Box
<1>4. ASSUME ~ failed, NEW key \in Keys
      PROVE  LET given == {e \in added : e[1] = key} IN
             Found(key) \subseteq given /\ (given # {} => Found(key) # {})
  <2> DEFINE b == tbl.directory[Place(tbl, key)]
             items == IF b = 0 THEN <<>> ELSE tbl.bucket[b].items
             same == {n \in DOMAIN items : items[n][1] = key}
             given == {e \in added : e[1] = key}
  <2>1. Found(key) = IF same = {} THEN {} ELSE {items[Min(same)]}
    BY DEF Found
  <2>2. added = Kept(tbl)
    BY <1>4 DEF TableSound
  <2>3. b \in 0 .. Len(tbl.bucket)
    <3>1. Scrambled(key) \in Nat
      BY GintAssumption
    <3>2. Place(tbl, key) \in Entries(L)
      BY <1>1, <3>1, LevelIs DEF Place
    <3>3. QED
      BY <1>1, <3>2 DEF IsTable
  <2>4. b # 0 => b \in Box(tbl)
    BY <1>1, <2>3 DEF Box, IsTable
  <2>5. ASSUME NEW e \in given PROVE same # {}
    <3>1. PICK c \in Box(tbl) : e \in Range(tbl.bucket[c].items)
      BY <2>2 DEF Kept
    <3>2. tbl.directory[Low(HashOf(e), L)] = c /\ e[1] = key
      BY <1>1, <3>1 DEF Leads
    <3>3. b = c /\ b # 0
      BY <1>3, <3>2 DEF HashOf, Place
    <3>4. items = tbl.bucket[c].items
      BY <3>3
    <3>5. PICK n \in DOMAIN tbl.bucket[c].items : tbl.bucket[c].items[n] = e
      BY <3>1 DEF Range
    <3> HIDE DEF items
    <3>6. n \in same
      BY <3>2, <3>4, <3>5
    <3>7. QED
      BY <3>6
  <2>6. ASSUME same # {} PROVE items[Min(same)] \in given
    <3>1. b # 0
      <4> SUFFICES ASSUME b = 0 PROVE FALSE
        OBVIOUS
      <4>1. items = <<>>
        OBVIOUS
      <4> HIDE DEF items
      <4>2. DOMAIN items = {}
        BY <4>1
      <4>3. QED
        BY <2>6, <4>2
    <3>2. items = tbl.bucket[b].items /\ items \in Seq(Pairs)
      BY <1>3, <2>4, <3>1
    <3> HIDE DEF items
    <3>0. DOMAIN items = 1 .. Len(items)
      BY <3>2
    <3>3. DOMAIN items = 1 .. Len(items) /\ Len(items) \in Nat
      <4> HIDE DEF b
      <4>1. Len(items) \in Nat
        BY <1>1, <2>4, <3>1, <3>2, BoxIs
      <4>2. QED
        BY <3>0, <4>1
    <3>4. same \subseteq Nat
      BY <3>3
    <3>5. Min(same) \in same
      <4> HIDE DEF same
      <4>1. QED
        BY <2>6, <3>4, MinIsLeast
    <3>6. Min(same) \in DOMAIN items /\ items[Min(same)][1] = key
      BY <3>5
    <3>7. items[Min(same)] \in Range(items)
      BY <3>6 DEF Range
    <3>8. items[Min(same)] \in added
      <4> HIDE DEF same, b
      <4>1. QED
        BY <2>2, <2>4, <3>1, <3>2, <3>7 DEF Kept
    <3>9. QED
      BY <3>6, <3>8
  <2> HIDE DEF items, same, given
  <2>7. Found(key) \subseteq given /\ (given # {} => Found(key) # {})
    BY <2>1, <2>5, <2>6
  <2>8. QED
    BY <2>7 DEF given
<1>5. ASSUME failed
      PROVE  \E b \in DOMAIN tbl.bucket :
               /\ Overfull(tbl, b)
               /\ \A i, j \in DOMAIN tbl.bucket[b].items :
                    Low(Scrambled(tbl.bucket[b].items[i][1]), MaxLevel - 1) = Low(Scrambled(tbl.bucket[b].items[j][1]), MaxLevel - 1)
  <2>1. PICK b \in Box(tbl) : Overfull(tbl, b) /\ tbl.bucket[b].level = MaxLevel - 1
    BY <1>5 DEF TableSound, Stuck
  <2>2. L = MaxLevel - 1
    BY <1>1, <1>2, <2>1 DEF Leads
  <2> DEFINE items == tbl.bucket[b].items
  <2>3. ASSUME NEW i \in DOMAIN items
        PROVE  /\ Low(Scrambled(items[i][1]), L) \in Entries(L)
               /\ tbl.directory[Low(Scrambled(items[i][1]), L)] = b
    <3>1. items[i] \in Range(items)
      BY DEF Range
    <3>2. HashOf(items[i]) \in Nat
      BY <1>1, <3>1, BoxIs
    <3>3. Low(HashOf(items[i]), L) \in Entries(L) /\ tbl.directory[Low(HashOf(items[i]), L)] = b
      BY <1>1, <3>1, <3>2, LevelIs DEF Leads
    <3>4. QED
      BY <3>3 DEF HashOf
  <2>4. ASSUME NEW i \in DOMAIN items, NEW j \in DOMAIN items
        PROVE  Low(Scrambled(items[i][1]), L) = Low(Scrambled(items[j][1]), L)
    <3> DEFINE p == Low(Scrambled(items[i][1]), L)
               q == Low(Scrambled(items[j][1]), L)
    <3>1. p \in Entries(L) /\ q \in Entries(L) /\ tbl.directory[p] = b /\ tbl.directory[q] = b
      BY <2>3
    <3> HIDE DEF p, q
    <3>2. Low(p, L) = Low(q, L)
      BY <1>1, <1>3, <2>1, <2>2, <3>1 DEF Leads
    <3>3. Low(p, L) = p /\ Low(q, L) = q
      BY <1>2, <3>1, LowOwn
    <3>4. QED
      BY <3>2, <3>3 DEF p, q
  <2>5. b \in DOMAIN tbl.bucket
    BY <1>1, BoxIs
  <2>6. QED
    BY <2>1, <2>2, <2>4, <2>5
<1>6. QED
  BY <1>4, <1>5 DEF GintHashExact

LEMMA TableSoundInit ==
  ASSUME GintInit
  PROVE  TableSound
<1>1. 1 \in 1 .. MaxLevel - 1
  BY GintAssumption
<1>2. /\ tbl.level = 1 /\ tbl.bucket = <<>> /\ tbl.res = 1
      /\ DOMAIN tbl = {"level", "directory", "bucket", "res"}
      /\ tbl.directory = [k \in Entries(1) |-> 0]
  BY DEF GintInit
<1>3. /\ <<>> \in Seq(Boxes) /\ Len(<<>>) = 0 /\ 0 \in 0 .. 0
  OBVIOUS
<1>4. IsTable(tbl)
  BY <1>1, <1>2, <1>3 DEF IsTable
<1>5. Box(tbl) = {}
  BY <1>2, <1>3 DEF Box
<1>6. Leads(tbl)
  BY <1>2, <1>5 DEF Leads
<1>7. Fits(tbl, 0)
  BY <1>5 DEF Fits
<1>8. Kept(tbl) = {}
  BY <1>5 DEF Kept
<1>9. QED
  BY <1>2, <1>4, <1>6, <1>7, <1>8 DEF TableSound, Roomy, GintInit

LEMMA AddKeySound ==
  ASSUME TableSound, failed \in BOOLEAN, NEW key \in Keys, NEW val \in Vals, AddKey(key, val)
  PROVE  TableSound'
<1> DEFINE b == tbl.directory[Place(tbl, key)]
           e == <<key, val>>
           t == IF b = 0 THEN AddToNewBucket(tbl, key, val) ELSE AddToBucket(tbl, b, key, val)
<1>1. /\ tbl' = t /\ failed' = (failed \/ t.res = 0)
      /\ added' = IF t.res = 0 THEN added ELSE added \cup {e}
  BY DEF AddKey
<1>2. Roomy(tbl, 0) /\ (tbl.res = 0 => Stuck(tbl)) /\ (~ failed => Kept(tbl) = added) /\ (failed => Stuck(tbl))
  BY DEF TableSound
<1>3. IsTable(tbl)
  BY <1>2 DEF Roomy
<1>4. b \in 0 .. Len(tbl.bucket) /\ (b # 0 => b \in Box(tbl))
  <2>1. Scrambled(key) \in Nat
    BY GintAssumption
  <2>2. Place(tbl, key) \in Entries(tbl.level)
    BY <1>3, <2>1, LevelIs DEF Place
  <2>3. b \in 0 .. Len(tbl.bucket) /\ Len(tbl.bucket) \in Nat
    BY <1>3, <2>2 DEF IsTable
  <2>4. QED
    BY <2>3 DEF Box
<1>5. /\ Roomy(t, 0) /\ (t.res = 0 => Stuck(t)) /\ (Stuck(tbl) => Stuck(t))
      /\ t.res # 0 => Kept(t) = Kept(tbl) \cup {e}
  <2>1. CASE b = 0
    <3>1. t = AddToNewBucket(tbl, key, val)
      BY <2>1
    <3>2. Roomy(t, 0) /\ Takes(tbl, e, t)
      BY <1>2, <2>1, <3>1, NewBucketTakes
    <3> HIDE DEF t
    <3>3. QED
      BY <3>2 DEF Takes
  <2>2. CASE b # 0 /\ Overfull(tbl, b)
    <3>1. t = SplitAll(tbl, b)
      BY <2>2 DEF AddToBucket
    <3>2. tbl.bucket[b].level = MaxLevel - 1
      BY <1>2, <1>4, <2>2 DEF Roomy, Fits
    <3>3. Roomy(tbl, b)
      <4>1. \A c \in Box(tbl) : c # 0
        BY DEF Box
      <4> HIDE DEF b
      <4>2. Fits(tbl, b)
        BY <1>2, <4>1 DEF Roomy, Fits
      <4>3. QED
        BY <1>2, <4>2 DEF Roomy
    <3>4. t.res = 0
      <4> HIDE DEF t, b
      <4>1. QED
        BY <1>4, <2>2, <3>1, <3>2, <3>3, SplitAllFails
    <3>5. Stuck(tbl)
      BY <1>4, <2>2, <3>2 DEF Stuck
    <3>6. Roomy(t, 0) /\ (Stuck(tbl) => Stuck(t)) 
      <4> HIDE DEF t, b
      <4>1. QED
        BY <1>4, <2>2, <3>1, <3>3, <3>5, SplitAllIs
    <3> HIDE DEF t
    <3>7. QED
      BY <3>4, <3>5, <3>6
  <2>3. CASE b # 0 /\ ~ Overfull(tbl, b)
    <3> DEFINE u == [tbl EXCEPT !.bucket[b].items = Append(@, e), !.res = 1]
    <3>1. t = SplitAll(u, b)
      BY <2>3 DEF AddToBucket
    <3>2. b \in Box(u) /\ Roomy(u, b) /\ Takes(tbl, e, u)
      <4>1. b \in Box(tbl) /\ tbl.directory[Place(tbl, key)] = b
        BY <1>4, <2>3
      <4> HIDE DEF b
      <4>2. QED
        BY <1>2, <2>3, <4>1, AppendTakes
    <3> HIDE DEF t, u, b
    <3>3. u.res # 0 /\ Kept(u) = Kept(tbl) \cup {e} /\ (Stuck(tbl) => Stuck(u))
      BY <3>2 DEF Takes
    <3>4. /\ Roomy(t, 0) /\ Kept(t) = Kept(u) /\ (t.res = 0 => Stuck(t)) /\ (Stuck(u) => Stuck(t))
      BY <3>1, <3>2, <3>3, SplitAllIs
    <3>5. QED
      BY <3>3, <3>4
  <2>4. QED
    BY <2>1, <2>2, <2>3
<1> HIDE DEF t, e
<1>6. Roomy(tbl', 0) /\ (tbl'.res = 0 => Stuck(tbl'))
  BY <1>1, <1>5
<1>7. failed' => Stuck(tbl')
  BY <1>1, <1>2, <1>5
<1>8. ~ failed' => Kept(tbl') = added'
  BY <1>1, <1>2, <1>5
<1>9. QED
  BY <1>6, <1>7, <1>8 DEF TableSound, Roomy

\* The table in which the replay of a journal looks objects up is exact however
\* often its buckets have split and its directory has grown.
THEOREM GintIsExact == GintSpec => []GintHashExact
<1> DEFINE Inv == TableSound /\ failed \in BOOLEAN
<1>1. GintInit => Inv
  BY TableSoundInit DEF GintInit
<1>2. Inv /\ [GintNext]_gintVars => Inv'
  <2> SUFFICES ASSUME Inv, [GintNext]_gintVars PROVE Inv'
    OBVIOUS
  <2>1. CASE GintNext
    <3>1. PICK key \in Keys, val \in Vals : AddKey(key, val)
      BY <2>1 DEF GintNext
    <3>2. TableSound'
      BY <3>1, AddKeySound
    <3>3. failed' \in BOOLEAN
      BY <3>1, Zenon DEF AddKey
    <3>4. QED
      BY <3>2, <3>3
  <2>2. CASE UNCHANGED gintVars
    <3>1. TableSound'
      BY <2>2 DEF TableSound, Roomy, IsTable, Leads, Fits, Stuck, Kept, Box, Overfull, gintVars
    <3>2. QED
      BY <2>2, <3>1 DEF gintVars
  <2>3. QED
    BY <2>1, <2>2
<1>3. Inv => GintHashExact
  BY TableSoundExact
<1> HIDE DEF Inv
<1>4. QED
  BY <1>1, <1>2, <1>3, PTL DEF GintSpec

\* Neither of the hash tables that searches and replays go through loses an
\* entry or makes one up.
THEOREM HashesAreExact == HashSpec /\ GintSpec => []HashesExact
<1>1. HashSpec => []HashIndexExact
  BY HashIndexIsExact
<1>2. GintSpec => []GintHashExact
  BY GintIsExact
<1>3. HashIndexExact /\ GintHashExact => HashesExact
  BY DEF HashesExact
<1>4. QED
  BY <1>1, <1>2, <1>3, PTL
=============================================================================
