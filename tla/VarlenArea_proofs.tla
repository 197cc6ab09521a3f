-------------------------- MODULE VarlenArea_proofs --------------------------
(***************************************************************************)
(* Proofs about the allocator of records and long strings (dballoc.c), for *)
(* any segment, subareas, buckets, lengths and alignment: the blocks, their*)
(* tags and the free lists agree in every heap it reaches, and it is an    *)
(* object heap.                                                            *)
(*                                                                         *)
(* The invariant Good is about the record of the heap and has two halves.  *)
(* Tidy is about the heads alone: the blocks tile the subareas (Laid and   *)
(* Tiled), the marks tell what is in front, idle neighbours are merged, and*)
(* the victim is a block.  Lists is about the free lists: every free block *)
(* has a rank below m, the links lead to lower ranks and back again, and   *)
(* the footers are those of the free blocks.  What the code does is a      *)
(* sequence of small changes of the heads, each a lemma about Tidy: a block*)
(* is split or joined, becomes free, an object, the victim or, half way    *)
(* through a release, none of them ("quiet": its neighbours are not idle). *)
(***************************************************************************)
EXTENDS VarlenAreaProps, FiniteSetTheorems, WellFoundedInduction, TLAPS

-----------------------------------------------------------------------------
(* Arithmetic                                                              *)

LEMMA UsedSizeIs ==
  ASSUME NEW n \in Nat
  PROVE  /\ UsedSize(n) \in Nat /\ UsedSize(n) >= MinObj
         /\ UsedSize(UsedSize(n)) = UsedSize(n)
<1>1. n % 1 = 0 /\ n % 2 \in {0, 1} /\ (n + (n % 1)) % 1 = 0 /\ (n + (n % 2)) % 2 = 0
  OBVIOUS
<1>2. MinObj = 4
  BY DEF MinObj
<1>3. CASE n <= MinObj
  BY <1>2, <1>3 DEF UsedSize
<1>4. CASE ~ (n <= MinObj)
  <2>1. UsedSize(n) = n + (n % Align)
    BY <1>4 DEF UsedSize
  <2>2. n % Align \in {0, 1} /\ (n + (n % Align)) % Align = 0
    BY <1>1, AlignAssumption
  <2>3. UsedSize(n) \in Nat /\ ~ (UsedSize(n) <= MinObj) /\ UsedSize(n) % Align = 0
    BY <1>2, <1>4, <2>1, <2>2
  <2>4. UsedSize(UsedSize(n)) = UsedSize(n) + (UsedSize(n) % Align)
    BY <2>3 DEF UsedSize
  <2>5. QED
    BY <1>2, <2>3, <2>4
<1>5. QED
  BY <1>3, <1>4

\* Rounding up to the alignment goes no further than that.
LEMMA Rounded ==
  ASSUME NEW n \in Nat
  PROVE  RoundUp(n, Align) \in Nat /\ RoundUp(n, Align) >= n /\ RoundUp(n, Align) < n + Align
<1>1. n % 1 = 0 /\ n % 2 \in {0, 1}
  OBVIOUS
<1>2. CASE Align = 1
  BY <1>1, <1>2 DEF RoundUp
<1>3. CASE Align = 2
  <2>1. RoundUp(n, Align) = n + ((2 - (n % 2)) % 2)
    BY <1>3 DEF RoundUp
  <2>2. (2 - 0) % 2 = 0 /\ (2 - 1) % 2 = 1
    OBVIOUS
  <2>3. QED
    BY <1>1, <1>3, <2>1, <2>2
<1>4. QED
  BY <1>2, <1>3, AlignAssumption

\* Sets of natural numbers have a least one, which induction here rests on.
LEMMA LeastOf ==
  ASSUME NEW T, T \subseteq Nat, T # {}
  PROVE  \E i \in T : \A j \in T : i <= j
<1>1. OpToRel(<, Nat) = {ss \in Nat \X Nat : ss[1] < ss[2]}
  BY DEF OpToRel
<1>2. PICK i \in T : \A j \in T : <<j, i>> \notin {ss \in Nat \X Nat : ss[1] < ss[2]}
  BY <1>1, NatLessThanWellFounded, WFMin
<1>3. ASSUME NEW j \in T PROVE i <= j
  <2>1. i \in Nat /\ j \in Nat /\ ~ (j < i)
    BY <1>2
  <2>2. QED
    BY <2>1
<1>4. QED
  BY <1>3

\* Min is one of them.
LEMMA MinIsOne ==
  ASSUME NEW T, T \subseteq Nat, T # {}
  PROVE  Min(T) \in T
BY LeastOf DEF Min

\* Of a set of numbers that are bounded, Max is one.
LEMMA MaxIsOne ==
  ASSUME NEW lo \in Int, NEW hi \in Int, NEW T \in SUBSET (lo .. hi), T # {}
  PROVE  Max(T) \in T
<1> DEFINE D == {d \in Nat : hi - d \in T}
<1>1. \A x \in T : hi - x \in D
  <2>1. \A x \in T : hi - x \in Nat /\ hi - (hi - x) = x
    OBVIOUS
  <2>2. QED
    BY <2>1
<1>2. PICK d \in D : \A e \in D : d <= e
  <2>1. D \subseteq Nat /\ D # {}
    BY <1>1
  <2>2. QED
    BY <2>1, LeastOf
<1>3. hi - d \in T /\ d \in Nat
  OBVIOUS
<1>4. ASSUME NEW y \in T PROVE hi - d >= y
  <2>1. d <= hi - y /\ y \in Int
    <3>1. hi - y \in D
      BY <1>1
    <3> HIDE DEF D
    <3>2. QED
      BY <1>2, <3>1
  <2>2. QED
    BY <1>3, <2>1
<1>5. \E x \in T : \A y \in T : x >= y
  BY <1>3, <1>4
<1>6. QED
  BY <1>5 DEF Max

\* The bucket of a size is one of the array; the exact ones are of one size.
LEMMA BucketOf ==
  ASSUME NEW size \in Nat, VarBuckets(size) # {}
  PROVE  /\ BucketIndex(size) \in Buckets
         /\ BucketIndex(size) < ExactNr => BucketIndex(size) = size
<1>1. ExactNr \in Nat /\ VarNr \in Nat
  BY SizesAssumption
<1>2. CASE size < ExactNr
  BY <1>1, <1>2 DEF BucketIndex, Buckets
<1>3. CASE ~ (size < ExactNr)
  <2>1. VarBuckets(size) \subseteq 0 .. VarNr - 1
    BY DEF VarBuckets
  <2>2. Min(VarBuckets(size)) \in 0 .. VarNr - 1
    <3>1. VarBuckets(size) \subseteq Nat
      BY <1>1, <2>1
    <3>2. QED
      BY <2>1, <3>1, MinIsOne
  <2>3. BucketIndex(size) = ExactNr + Min(VarBuckets(size))
    BY <1>3 DEF BucketIndex
  <2>4. QED
    BY <1>1, <2>2, <2>3 DEF Buckets
<1>4. QED
  BY <1>2, <1>3

\* Put and Without change one place.
LEMMA PutIs ==
  ASSUME NEW f, NEW a, NEW v
  PROVE  /\ DOMAIN Put(f, a, v) = DOMAIN f \cup {a} /\ Put(f, a, v)[a] = v
         /\ \A x \in DOMAIN f \ {a} : Put(f, a, v)[x] = f[x]
BY DEF Put

\* Without drops one place and keeps the others.
LEMMA WithoutIs ==
  ASSUME NEW f, NEW a
  PROVE  /\ DOMAIN Without(f, a) = DOMAIN f \ {a}
         /\ \A x \in DOMAIN f \ {a} : Without(f, a)[x] = f[x]
BY DEF Without, Restrict

-----------------------------------------------------------------------------
(* Blocks that tile subareas, by their ends: e[a] is the end of block a.     *)

Laid(e, top) ==
  /\ top \in Nat /\ DOMAIN e \subseteq Nat \ {0}
  /\ \A a \in DOMAIN e : e[a] \in Nat /\ a + MinObj <= e[a] /\ e[a] <= top
  /\ \A a, b \in DOMAIN e : a < b => e[a] <= b

\* Every block but the last of a subarea is followed by one, and every block
\* but the first of a subarea follows one.
Tiled(e, first, last) ==
  /\ first \cup last \subseteq DOMAIN e
  /\ \A a \in DOMAIN e \ last : e[a] \in DOMAIN e \ first
  /\ \A b \in DOMAIN e \ first : \E a \in DOMAIN e \ last : e[a] = b

\* Two blocks do not end at the same place.
LEMMA EndsDiffer ==
  ASSUME NEW e, NEW top, Laid(e, top), NEW a \in DOMAIN e, NEW b \in DOMAIN e, e[a] = e[b]
  PROVE  a = b
<1>1. a \in Nat /\ b \in Nat /\ e[a] \in Nat /\ a + 4 <= e[a] /\ b + 4 <= e[b]
  BY DEF Laid, MinObj
<1>2. (a < b => e[a] <= b) /\ (b < a => e[b] <= a)
  BY DEF Laid
<1>3. QED
  BY <1>1, <1>2

\* A block is cut in two: wg_alloc_gints splits.
LEMMA SplitLaid ==
  ASSUME NEW e, NEW top, NEW first, NEW last, Laid(e, top), Tiled(e, first, last),
         NEW a \in DOMAIN e \ last, NEW c \in Nat,
         a + MinObj <= c, c + MinObj <= e[a],
         NEW f, DOMAIN f = DOMAIN e \cup {c}, f[a] = c, f[c] = e[a],
         \A x \in DOMAIN e \ {a} : f[x] = e[x]
  PROVE  c \notin DOMAIN e /\ Laid(f, top) /\ Tiled(f, first, last)
<1>1. /\ DOMAIN e \subseteq Nat \ {0} /\ top \in Nat
      /\ \A x \in DOMAIN e : e[x] \in Nat /\ x + 4 <= e[x] /\ e[x] <= top
      /\ \A x, y \in DOMAIN e : x < y => e[x] <= y
  BY DEF Laid, MinObj
<1>2. a + 4 <= c /\ c + 4 <= e[a] /\ a \in Nat \ {0}
  BY <1>1 DEF MinObj
<1>3. c \notin DOMAIN e
  BY <1>1, <1>2
<1>4. ASSUME NEW x \in DOMAIN f PROVE f[x] \in Nat /\ x + 4 <= f[x] /\ f[x] <= top
  BY <1>1, <1>2
<1>5. ASSUME NEW x \in DOMAIN f, NEW y \in DOMAIN f, x < y PROVE f[x] <= y
  <2>1. CASE x = c
    BY <1>1, <1>2, <1>3, <1>5, <2>1
  <2>2. CASE x = a
    BY <1>1, <1>2, <1>3, <1>5, <2>2
  <2>3. CASE x # a /\ x # c /\ y = c
    <3>1. x \in DOMAIN e /\ f[x] = e[x]
      BY <2>3
    <3>2. x < a \/ a < x
      BY <1>1, <2>3, <3>1
    <3>3. QED
      BY <1>1, <1>2, <1>5, <2>3, <3>1, <3>2
  <2>4. CASE x # a /\ x # c /\ y # c
    BY <1>1, <1>5, <2>4
  <2>5. QED
    BY <2>1, <2>2, <2>3, <2>4
<1>6. Laid(f, top)
  BY <1>1, <1>2, <1>4, <1>5 DEF Laid, MinObj
<1>7. ASSUME NEW x \in DOMAIN f \ last PROVE f[x] \in DOMAIN f \ first
  BY <1>3 DEF Tiled
<1>8. ASSUME NEW y \in DOMAIN f \ first PROVE \E x \in DOMAIN f \ last : f[x] = y
  <2>1. CASE y = c
    BY <2>1
  <2>2. CASE y # c
    <3>1. PICK x \in DOMAIN e \ last : e[x] = y
      BY <2>2 DEF Tiled
    <3>2. c \in DOMAIN f \ last
      BY <1>3 DEF Tiled
    <3>3. QED
      BY <3>1, <3>2
  <2>3. QED
    BY <2>1, <2>2
<1>9. QED
  BY <1>3, <1>6, <1>7, <1>8 DEF Tiled

\* A block takes up its successor: wg_free_object merges.
LEMMA JoinLaid ==
  ASSUME NEW e, NEW top, NEW first, NEW last, Laid(e, top), Tiled(e, first, last),
         NEW a \in DOMAIN e \ last, e[a] \notin last,
         NEW f, DOMAIN f = DOMAIN e \ {e[a]}, f[a] = e[e[a]],
         \A x \in DOMAIN f \ {a} : f[x] = e[x]
  PROVE  e[a] \in DOMAIN e /\ a # e[a] /\ Laid(f, top) /\ Tiled(f, first, last)
<1> DEFINE b == e[a]
<1>1. /\ DOMAIN e \subseteq Nat \ {0} /\ top \in Nat
      /\ \A x \in DOMAIN e : e[x] \in Nat /\ x + 4 <= e[x] /\ e[x] <= top
      /\ \A x, y \in DOMAIN e : x < y => e[x] <= y
  BY DEF Laid, MinObj
<1>2. b \in DOMAIN e \ first /\ a + 4 <= b /\ b + 4 <= e[b] /\ a \in Nat
  BY <1>1 DEF Tiled
<1>3. ASSUME NEW x \in DOMAIN f PROVE f[x] \in Nat /\ x + 4 <= f[x] /\ f[x] <= top
  BY <1>1, <1>2
<1>4. ASSUME NEW x \in DOMAIN f, NEW y \in DOMAIN f, x < y PROVE f[x] <= y
  <2>1. CASE x = a
    <3>1. b < y
      <4>1. e[a] <= y /\ y # b /\ y \in Nat /\ b \in Nat
        BY <1>1, <1>2, <1>4, <2>1
      <4>2. QED
        BY <4>1
    <3>2. QED
      BY <1>1, <1>2, <2>1, <3>1
  <2>2. CASE x # a
    BY <1>1, <1>4, <2>2
  <2>3. QED
    BY <2>1, <2>2
<1>5. Laid(f, top)
  BY <1>1, <1>3, <1>4 DEF Laid, MinObj
<1>6. ASSUME NEW x \in DOMAIN f \ last PROVE f[x] \in DOMAIN f \ first
  <2>1. CASE x = a
    <3>1. e[b] \in DOMAIN e \ first
      BY <1>2 DEF Tiled
    <3>2. e[b] # b
      BY <1>1, <1>2
    <3>3. QED
      BY <2>1, <3>1, <3>2
  <2>2. CASE x # a
    <3>1. f[x] = e[x] /\ e[x] \in DOMAIN e \ first
      BY <2>2 DEF Tiled
    <3>2. e[x] # b
      BY <2>2, EndsDiffer
    <3>3. QED
      BY <3>1, <3>2
  <2>3. QED
    BY <2>1, <2>2
<1>7. ASSUME NEW y \in DOMAIN f \ first PROVE \E x \in DOMAIN f \ last : f[x] = y
  <2>1. PICK x \in DOMAIN e \ last : e[x] = y
    BY DEF Tiled
  <2>2. CASE x = b
    <3>1. a \in DOMAIN f \ last /\ f[a] = y
      BY <1>1, <1>2, <2>1, <2>2
    <3>2. QED
      BY <3>1
  <2>3. CASE x # b
    <3>1. x # a
      BY <2>1
    <3>2. QED
      BY <2>1, <2>3, <3>1
  <2>4. QED
    BY <2>2, <2>3
<1>8. first \cup last \subseteq DOMAIN f
  BY <1>2 DEF Tiled
<1>9. QED
  BY <1>1, <1>2, <1>5, <1>6, <1>7, <1>8 DEF Tiled

\* A new subarea behind all others: a marker, a block and a marker.
NewArea(e, f, top, s, m, t, above) ==
  /\ s \in Nat /\ t \in Nat /\ above \in Nat /\ top <= s /\ 0 < s
  /\ s + 2 * MinObj <= t /\ t + MinObj <= above /\ m = s + MinObj
  /\ DOMAIN f = DOMAIN e \cup {s, m, t}
  /\ f[s] = m /\ f[m] = t /\ f[t] = t + MinObj
  /\ \A x \in DOMAIN e : f[x] = e[x]

\* A subarea behind all others keeps the blocks apart and each followed.
LEMMA AreaLaid ==
  ASSUME NEW e, NEW top, NEW first, NEW last, Laid(e, top), Tiled(e, first, last),
         NEW f, NEW s, NEW m, NEW t, NEW above, NewArea(e, f, top, s, m, t, above)
  PROVE  /\ {s, m, t} \cap DOMAIN e = {}
         /\ Laid(f, above) /\ Tiled(f, first \cup {s}, last \cup {t})
<1>0. /\ s \in Nat /\ t \in Nat /\ above \in Nat /\ top <= s /\ 0 < s
      /\ s + 2 * MinObj <= t /\ t + MinObj <= above /\ m = s + MinObj
      /\ DOMAIN f = DOMAIN e \cup {s, m, t}
      /\ f[s] = m /\ f[m] = t /\ f[t] = t + MinObj
      /\ \A x \in DOMAIN e : f[x] = e[x]
  BY DEF NewArea
<1> USE <1>0
<1>1. /\ DOMAIN e \subseteq Nat \ {0} /\ top \in Nat
      /\ \A x \in DOMAIN e : e[x] \in Nat /\ x + 4 <= e[x] /\ e[x] <= top
      /\ \A x, y \in DOMAIN e : x < y => e[x] <= y
  BY DEF Laid, MinObj
<1>2. m = s + 4 /\ m \in Nat /\ m + 4 <= t /\ t + 4 <= above /\ f[s] = m /\ f[m] = t /\ f[t] = t + 4
      /\ s # m /\ s # t /\ m # t
  BY DEF MinObj
<1>3. \A x \in DOMAIN e : x < s /\ e[x] <= s
  BY <1>1
<1>4. {s, m, t} \cap DOMAIN e = {}
  BY <1>2, <1>3
<1>5. DOMAIN f = DOMAIN e \cup {s, m, t}
  OBVIOUS
<1>6. ASSUME NEW x \in DOMAIN f PROVE f[x] \in Nat /\ x + 4 <= f[x] /\ f[x] <= above
  <2>1. CASE x \in DOMAIN e
    BY <1>1, <1>2, <1>3, <2>1
  <2>2. CASE x \in {s, m, t}
    BY <1>2, <2>2
  <2>3. QED
    BY <1>5, <2>1, <2>2
<1>7. ASSUME NEW x \in DOMAIN f, NEW y \in DOMAIN f, x < y PROVE f[x] <= y
  <2>1. CASE x \in DOMAIN e /\ y \in DOMAIN e
    BY <1>1, <1>7, <2>1
  <2>2. CASE x \in DOMAIN e /\ y \in {s, m, t}
    <3>1. f[x] \in Nat /\ f[x] <= s
      BY <1>1, <1>3, <2>2
    <3>2. QED
      BY <1>2, <2>2, <3>1
  <2>3. CASE x \in {s, m, t} /\ y \in DOMAIN e
    BY <1>1, <1>2, <1>3, <1>7, <2>3
  <2>4. CASE x \in {s, m, t} /\ y \in {s, m, t}
    BY <1>2, <1>7, <2>4
  <2>5. QED
    BY <1>5, <2>1, <2>2, <2>3, <2>4
<1>8. Laid(f, above)
  <2>1. DOMAIN f \subseteq Nat \ {0}
    BY <1>1, <1>2, <1>5
  <2>2. QED
    BY <1>6, <1>7, <2>1 DEF Laid, MinObj
<1>9. Tiled(f, first \cup {s}, last \cup {t})
  <2>1. first \cup {s} \cup last \cup {t} \subseteq DOMAIN f
    BY <1>5 DEF Tiled
  <2>2. ASSUME NEW x \in DOMAIN f \ (last \cup {t}) PROVE f[x] \in DOMAIN f \ (first \cup {s})
    <3>1. CASE x \in DOMAIN e
      <4>1. f[x] = e[x] /\ e[x] \in DOMAIN e \ first
        BY <2>2, <3>1 DEF Tiled
      <4>2. QED
        BY <1>4, <1>5, <4>1
    <3>2. CASE x \in {s, m}
      <4>1. f[x] \in {m, t} /\ s \notin {m, t} /\ first \subseteq DOMAIN e
        BY <1>2, <3>2 DEF Tiled
      <4>2. QED
        BY <1>4, <1>5, <4>1
    <3>3. QED
      BY <1>5, <3>1, <3>2
  <2>3. ASSUME NEW y \in DOMAIN f \ (first \cup {s}) PROVE \E x \in DOMAIN f \ (last \cup {t}) : f[x] = y
    <3>1. CASE y \in DOMAIN e
      <4>1. PICK x \in DOMAIN e \ last : e[x] = y
        BY <2>3, <3>1 DEF Tiled
      <4>2. QED
        BY <1>4, <1>5, <4>1
    <3>2. CASE y \in {m, t}
      <4>1. {s, m} \subseteq DOMAIN f \ (last \cup {t})
        BY <1>2, <1>4, <1>5 DEF Tiled
      <4>2. QED
        BY <1>2, <3>2, <4>1
    <3>3. QED
      BY <1>5, <2>3, <3>1, <3>2
  <2>4. QED
    BY <2>1, <2>2, <2>3 DEF Tiled
<1>10. QED
  BY <1>4, <1>8, <1>9

-----------------------------------------------------------------------------
(* The heads of blocks, whatever the free lists.                             *)

Marks == {"free", "used", "prevfree", "special"}
Block == [size : Nat, mark : Marks]
EndsOf(H) == [a \in DOMAIN H |-> a + RealSize(H[a])]
Marked(b, mark) == IF IsUsed(b) THEN [size |-> b.size, mark |-> mark] ELSE b

\* A block that can be merged with its neighbours.
Vacant(H, dv, a) == H[a].mark = "free" \/ a = dv

Tagged(H, dv, t) ==
  /\ \A a \in t.first \cup t.last : H[a].mark = "special" /\ a # dv
  /\ \A a \in DOMAIN H \ t.last :
       /\ Vacant(H, dv, a) => ~ Vacant(H, dv, EndsOf(H)[a])
       /\ IsUsed(H[EndsOf(H)[a]]) => (H[EndsOf(H)[a]].mark = "prevfree" <=> H[a].mark = "free")

VictimIs(H, dv, size) ==
  \/ dv = 0 /\ size = 0
  \/ dv \in DOMAIN H /\ H[dv] = [size |-> size, mark |-> "special"] /\ size >= MinObj

\* t has the first and the last blocks of the subareas, and their end.
Tidy(H, dv, size, t) ==
  /\ H \in [DOMAIN H -> Block]
  /\ Laid(EndsOf(H), t.top) /\ Tiled(EndsOf(H), t.first, t.last)
  /\ Tagged(H, dv, t) /\ VictimIs(H, dv, size)

ObjectsOf(H) == [a \in {b \in DOMAIN H : IsUsed(H[b])} |-> UsedSize(H[a].size)]

\* A block has a size, a mark and the space it takes, by its mark.
LEMMA BlockIs ==
  ASSUME NEW b \in Block
  PROVE  /\ b = [size |-> b.size, mark |-> b.mark] /\ b.size \in Nat /\ b.mark \in Marks
         /\ IsUsed(b) <=> b.mark \in {"used", "prevfree"}
         /\ IsUsed(b) => RealSize(b) = UsedSize(b.size)
         /\ ~ IsUsed(b) => RealSize(b) = b.size
         /\ RealSize(b) \in Nat
<1>1. b = [size |-> b.size, mark |-> b.mark] /\ b.size \in Nat /\ b.mark \in Marks
  BY DEF Block
<1>2. UsedSize(b.size) \in Nat
  BY <1>1, UsedSizeIs
<1>3. QED
  BY <1>1, <1>2 DEF IsUsed, RealSize, Marks, Block

\* The marks that say what is in front of an object leave its size.
LEMMA MarkedIs ==
  ASSUME NEW b \in Block, NEW mark \in {"used", "prevfree"}
  PROVE  /\ Marked(b, mark) \in Block /\ RealSize(Marked(b, mark)) = RealSize(b)
         /\ Marked(b, mark).size = b.size /\ (IsUsed(Marked(b, mark)) <=> IsUsed(b))
         /\ Marked(b, mark).mark = IF IsUsed(b) THEN mark ELSE b.mark
         /\ ~ IsUsed(b) => Marked(b, mark) = b
BY BlockIs DEF IsUsed, RealSize, Marked, Marks, Block

\* What a tidy heap is, block by block.
LEMMA TidyIs ==
  ASSUME NEW H, NEW dv, NEW size, NEW t, Tidy(H, dv, size, t)
  PROVE  /\ \A a \in DOMAIN H :
              /\ H[a] \in Block /\ a \in Nat \ {0} /\ EndsOf(H)[a] = a + RealSize(H[a])
              /\ EndsOf(H)[a] \in Nat /\ a + MinObj <= EndsOf(H)[a] /\ EndsOf(H)[a] <= t.top
              /\ RealSize(H[a]) \in Nat /\ RealSize(H[a]) >= MinObj
              /\ H[a].mark # "special" => a \notin t.first \cup t.last
         /\ DOMAIN EndsOf(H) = DOMAIN H
         /\ t.first \cup t.last \subseteq DOMAIN H
         /\ dv \notin t.first \cup t.last
         /\ dv # 0 => dv \in DOMAIN H /\ H[dv].mark = "special" /\ H[dv].size = size
                      /\ RealSize(H[dv]) = size
         /\ dv = 0 => size = 0
         /\ dv \in Nat /\ size \in Nat
<1>1. H \in [DOMAIN H -> Block]
  BY DEF Tidy
<1>2. DOMAIN EndsOf(H) = DOMAIN H /\ \A a \in DOMAIN H : EndsOf(H)[a] = a + RealSize(H[a])
  BY DEF EndsOf
<1> DEFINE e == EndsOf(H)
<1> HIDE DEF e
<1>3. Laid(e, t.top) /\ Tiled(e, t.first, t.last) /\ DOMAIN e = DOMAIN H
      /\ \A a \in DOMAIN H : e[a] = a + RealSize(H[a])
  BY <1>2 DEF Tidy, e
<1>4. \A a \in DOMAIN H : a \in Nat \ {0} /\ e[a] \in Nat /\ a + MinObj <= e[a] /\ e[a] <= t.top
  BY <1>3 DEF Laid
<1>5. ASSUME NEW a \in DOMAIN H PROVE H[a] \in Block /\ RealSize(H[a]) \in Nat
  BY <1>1, BlockIs
<1>6. ASSUME NEW a \in DOMAIN H PROVE RealSize(H[a]) >= MinObj
  BY <1>3, <1>4, <1>5 DEF MinObj
<1>7. \A a \in t.first \cup t.last : H[a].mark = "special" /\ a # dv
  BY DEF Tidy, Tagged
<1>8. t.first \cup t.last \subseteq DOMAIN H
  BY <1>3 DEF Tiled
<1>9. ASSUME dv # 0
      PROVE  dv \in DOMAIN H /\ H[dv].mark = "special" /\ H[dv].size = size /\ RealSize(H[dv]) = size
  <2>1. dv \in DOMAIN H /\ H[dv] = [size |-> size, mark |-> "special"]
    BY <1>9 DEF Tidy, VictimIs
  <2>2. QED
    BY <2>1 DEF RealSize, IsUsed
<1>10. dv = 0 => size = 0
  <2>1. 0 \notin DOMAIN H
    BY <1>4
  <2>2. QED
    BY <2>1 DEF Tidy, VictimIs
<1>11. dv \in Nat /\ size \in Nat
  BY <1>4, <1>5, <1>9, <1>10
<1>12. QED
  BY <1>3, <1>4, <1>5, <1>6, <1>7, <1>8, <1>9, <1>10, <1>11 DEF e

\* What follows a block that is not the last of its subarea.
LEMMA NextIs ==
  ASSUME NEW H, NEW dv, NEW size, NEW t, Tidy(H, dv, size, t),
         NEW a \in DOMAIN H \ t.last, NEW b, b = EndsOf(H)[a]
  PROVE  /\ b \in DOMAIN H \ t.first /\ b # a
         /\ Vacant(H, dv, a) => ~ Vacant(H, dv, b)
         /\ IsUsed(H[b]) => (H[b].mark = "prevfree" <=> H[a].mark = "free")
         /\ \A x \in DOMAIN H \ {a} : EndsOf(H)[x] # b
<1>1. a \in Nat /\ a + MinObj <= b /\ DOMAIN EndsOf(H) = DOMAIN H
  BY TidyIs
<1>2. Laid(EndsOf(H), t.top) /\ Tiled(EndsOf(H), t.first, t.last) /\ Tagged(H, dv, t)
  BY DEF Tidy
<1>3. b \in DOMAIN H \ t.first
  BY <1>1, <1>2 DEF Tiled
<1>4. b # a
  BY <1>1 DEF MinObj
<1>5. \A x \in DOMAIN H \ {a} : EndsOf(H)[x] # b
  BY <1>1, <1>2, EndsDiffer
<1>6. QED
  BY <1>2, <1>3, <1>4, <1>5 DEF Tagged

\* Neither the block before a nor the one behind it can be merged with it.
PrevQuiet(H, dv, t, a) == \A x \in DOMAIN H \ t.last : EndsOf(H)[x] = a => ~ Vacant(H, dv, x)
NextQuiet(H, dv, a) == ~ Vacant(H, dv, EndsOf(H)[a])

\* The block a changes, not in size, and the one behind it is told.
LEMMA Remarked ==
  ASSUME NEW H, NEW dv, NEW size, NEW t, Tidy(H, dv, size, t),
         NEW a \in DOMAIN H, a \notin t.first \cup t.last,
         NEW b, b = a + RealSize(H[a]),
         NEW K \in [DOMAIN H -> Block], RealSize(K[a]) = RealSize(H[a]),
         b \in DOMAIN H => K[b] = Marked(H[b], IF K[a].mark = "free" THEN "prevfree" ELSE "used"),
         \A x \in DOMAIN H \ {a, b} : K[x] = H[x],
         NEW dv2, NEW size2, \A x \in DOMAIN H \ {a} : x = dv2 <=> x = dv,
         Vacant(K, dv2, a) => PrevQuiet(H, dv, t, a) /\ NextQuiet(H, dv, a),
         IsUsed(K[a]) => K[a].mark = "used" /\ PrevQuiet(H, dv, t, a),
         VictimIs(K, dv2, size2)
  PROVE  /\ Tidy(K, dv2, size2, t) /\ EndsOf(K) = EndsOf(H) /\ b \in DOMAIN H /\ b # a
         /\ \A x \in DOMAIN H \ {a} : Vacant(K, dv2, x) <=> Vacant(H, dv, x)
         /\ ObjectsOf(K) = IF IsUsed(K[a]) THEN Put(ObjectsOf(H), a, RealSize(H[a]))
                           ELSE Without(ObjectsOf(H), a)
<1> DEFINE e == EndsOf(H)
           mark == IF K[a].mark = "free" THEN "prevfree" ELSE "used"
<1>1. b = e[a] /\ DOMAIN K = DOMAIN H /\ mark \in {"used", "prevfree"}
  BY TidyIs
<1>2. /\ b \in DOMAIN H \ t.first /\ b # a
      /\ \A x \in DOMAIN H \ {a} : e[x] # b
  BY <1>1, NextIs
<1>3. K[b] = Marked(H[b], mark)
  BY <1>2
<1>4. \A x \in DOMAIN H : H[x] \in Block
  BY TidyIs
<1> HIDE DEF mark
<1>5. ASSUME NEW x \in DOMAIN H \ {a}
      PROVE  /\ RealSize(K[x]) = RealSize(H[x]) /\ K[x].size = H[x].size
             /\ IsUsed(K[x]) <=> IsUsed(H[x])
             /\ K[x].mark = "free" <=> H[x].mark = "free"
             /\ H[x].mark = "special" => K[x] = H[x]
  <2>1. CASE x = b
    <3>1. /\ K[b].mark = IF IsUsed(H[b]) THEN mark ELSE H[b].mark
          /\ RealSize(K[b]) = RealSize(H[b]) /\ K[b].size = H[b].size
          /\ IsUsed(K[b]) <=> IsUsed(H[b])
          /\ ~ IsUsed(H[b]) => K[b] = H[b]
      BY <1>1, <1>2, <1>3, <1>4, MarkedIs
    <3>2. /\ H[b].mark = "special" => ~ IsUsed(H[b])
          /\ IsUsed(H[b]) => H[b].mark # "free"
      BY DEF IsUsed
    <3>3. QED
      BY <1>1, <2>1, <3>1, <3>2
  <2>2. CASE x # b
    BY <2>2
  <2>3. QED
    BY <2>1, <2>2
<1>6. IsUsed(H[b]) => K[b].mark = mark
  BY <1>1, <1>2, <1>3, <1>4, MarkedIs
<1>7. EndsOf(K) = e
  <2>1. \A x \in DOMAIN H : RealSize(K[x]) = RealSize(H[x])
    BY <1>5
  <2>2. QED
    BY <1>1, <2>1 DEF EndsOf
<1> HIDE DEF e
<1>8. \A x \in DOMAIN H \ {a} : Vacant(K, dv2, x) <=> Vacant(H, dv, x)
  BY <1>5 DEF Vacant
<1>9. Tagged(K, dv2, t)
  <2>1. \A x \in t.first \cup t.last : K[x].mark = "special" /\ x # dv2
    <3>1. \A x \in t.first \cup t.last : x \in DOMAIN H /\ x # dv /\ H[x].mark = "special"
      BY TidyIs DEF Tidy, Tagged
    <3>2. QED
      BY <1>5, <3>1
  <2>2. ASSUME NEW x \in DOMAIN K \ t.last, NEW y, y = e[x]
        PROVE  /\ Vacant(K, dv2, x) => ~ Vacant(K, dv2, y)
               /\ IsUsed(K[y]) => (K[y].mark = "prevfree" <=> K[x].mark = "free")
    <3>1. /\ x \in DOMAIN H /\ y \in DOMAIN H /\ y # x
          /\ Vacant(H, dv, x) => ~ Vacant(H, dv, y)
          /\ IsUsed(H[y]) => (H[y].mark = "prevfree" <=> H[x].mark = "free")
      BY <1>1, <2>2, NextIs DEF e
    <3>2. CASE x = a
      <4>1. y = b
        BY <1>1, <2>2, <3>2
      <4>2. Vacant(K, dv2, a) => ~ Vacant(H, dv, b)
        BY <1>1 DEF NextQuiet, e
      <4>3. IsUsed(K[b]) => K[b].mark = mark
        BY <1>2, <1>5, <1>6
      <4>4. mark = "prevfree" <=> K[a].mark = "free"
        BY DEF mark
      <4>5. QED
        BY <1>2, <1>8, <3>2, <4>1, <4>2, <4>3, <4>4
    <3>3. CASE x # a /\ y = a
      <4>1. PrevQuiet(H, dv, t, a) => ~ Vacant(H, dv, x) /\ ~ Vacant(K, dv2, x) /\ K[x].mark # "free"
        BY <1>8, <2>2, <3>1, <3>3 DEF PrevQuiet, Vacant, e
      <4>2. QED
        BY <1>8, <3>1, <3>3, <4>1
    <3>4. CASE x # a /\ y # a
      <4>1. y # b
        BY <1>2, <2>2, <3>1, <3>4
      <4>2. K[y] = H[y] /\ (K[x].mark = "free" <=> H[x].mark = "free")
        BY <1>5, <3>1, <3>4, <4>1
      <4>3. QED
        BY <1>8, <3>1, <3>4, <4>2
    <3>5. QED
      BY <3>2, <3>3, <3>4
  <2>3. QED
    BY <1>7, <2>1, <2>2 DEF Tagged, e
<1>10. Tidy(K, dv2, size2, t)
  BY <1>1, <1>7, <1>9 DEF Tidy, e
<1>11. ObjectsOf(K) = IF IsUsed(K[a]) THEN Put(ObjectsOf(H), a, RealSize(H[a]))
                     ELSE Without(ObjectsOf(H), a)
  <2>1. \A x \in DOMAIN H \ {a} : K[x].size = H[x].size /\ (IsUsed(K[x]) <=> IsUsed(H[x]))
    BY <1>5
  <2>2. CASE IsUsed(K[a])
    <3>1. UsedSize(K[a].size) = RealSize(H[a])
      BY <2>2 DEF RealSize
    <3>2. {x \in DOMAIN K : IsUsed(K[x])} = {x \in DOMAIN H : IsUsed(H[x])} \cup {a}
      BY <1>1, <2>1, <2>2
    <3>3. QED
      BY <2>1, <2>2, <3>1, <3>2 DEF ObjectsOf, Put
  <2>3. CASE ~ IsUsed(K[a])
    <3>1. {x \in DOMAIN K : IsUsed(K[x])} = {x \in DOMAIN H : IsUsed(H[x])} \ {a}
      BY <1>1, <2>1, <2>3
    <3>2. QED
      BY <2>1, <2>3, <3>1 DEF ObjectsOf, Without, Restrict
  <2>4. QED
    BY <2>2, <2>3
<1>12. QED
  BY <1>2, <1>7, <1>8, <1>10, <1>11 DEF e

\* A block that is not idle, and does not follow an idle one, becomes two.
LEMMA SplitTidy ==
  ASSUME NEW H, NEW dv, NEW size, NEW t, Tidy(H, dv, size, t),
         NEW a \in DOMAIN H, a \notin t.first \cup t.last, H[a].mark = "special", a # dv,
         PrevQuiet(H, dv, t, a),
         NEW c \in Nat, NEW K \in [DOMAIN H \cup {c} -> Block],
         K[a].mark \in {"used", "special"}, K[c].mark = "special",
         RealSize(K[a]) >= MinObj, RealSize(K[c]) >= MinObj,
         a + RealSize(K[a]) = c, c + RealSize(K[c]) = a + RealSize(H[a]),
         \A x \in DOMAIN H \ {a} : K[x] = H[x]
  PROVE  /\ Tidy(K, dv, size, t) /\ c \notin DOMAIN H /\ c # dv
         /\ EndsOf(K)[c] = EndsOf(H)[a] /\ PrevQuiet(K, dv, t, c)
         /\ NextQuiet(H, dv, a) => NextQuiet(K, dv, c)
         /\ ObjectsOf(K) = IF IsUsed(K[a]) THEN Put(ObjectsOf(H), a, RealSize(K[a])) ELSE ObjectsOf(H)
<1> DEFINE e == EndsOf(H)
           f == EndsOf(K)
           b == e[a]
<1>1. /\ DOMAIN e = DOMAIN H /\ DOMAIN f = DOMAIN e \cup {c} /\ DOMAIN K = DOMAIN H \cup {c}
      /\ b = a + RealSize(H[a]) /\ a \in Nat \ {0}
      /\ RealSize(K[a]) \in Nat /\ RealSize(K[c]) \in Nat
  <2>1. K[a] \in Block /\ K[c] \in Block
    OBVIOUS
  <2>2. QED
    BY <2>1, TidyIs, BlockIs DEF EndsOf
<1>2. f[a] = c /\ f[c] = e[a]
  BY <1>1 DEF EndsOf
<1>3. \A x \in DOMAIN e \ {a} : f[x] = e[x]
  BY <1>1 DEF EndsOf
<1>4. a + MinObj <= c /\ c + MinObj <= e[a]
  BY <1>1, <1>2 DEF MinObj
<1> HIDE DEF e, f
<1>5. Laid(e, t.top) /\ Tiled(e, t.first, t.last)
  BY DEF Tidy, e
<1>6. c \notin DOMAIN e /\ Laid(f, t.top) /\ Tiled(f, t.first, t.last)
  BY <1>1, <1>2, <1>3, <1>4, <1>5, SplitLaid
<1>7. c \notin DOMAIN H /\ c # dv /\ c \notin t.first \cup t.last /\ a # c /\ c # 0
  BY <1>1, <1>6, <1>4, TidyIs DEF MinObj
<1>8. \A x \in DOMAIN H : Vacant(K, dv, x) <=> Vacant(H, dv, x)
  BY <1>1 DEF Vacant
<1>9. ~ Vacant(K, dv, a) /\ ~ Vacant(K, dv, c) /\ ~ Vacant(H, dv, a)
  BY <1>7 DEF Vacant
<1>10. \A x \in DOMAIN H : K[x].mark = "free" <=> H[x].mark = "free"
  BY <1>1
<1>11. /\ b \in DOMAIN H \ t.first /\ b # a /\ b # c
       /\ IsUsed(H[b]) => H[b].mark # "prevfree"
  BY <1>1, <1>7, NextIs DEF e
<1>12. Tagged(K, dv, t)
  <2>1. \A x \in t.first \cup t.last : K[x].mark = "special" /\ x # dv
    <3>1. \A x \in t.first \cup t.last : x \in DOMAIN H /\ x # dv /\ H[x].mark = "special"
      BY TidyIs DEF Tidy, Tagged
    <3>2. QED
      BY <3>1
  <2>2. ASSUME NEW x \in DOMAIN K \ t.last, NEW y, y = f[x]
        PROVE  /\ Vacant(K, dv, x) => ~ Vacant(K, dv, y)
               /\ IsUsed(K[y]) => (K[y].mark = "prevfree" <=> K[x].mark = "free")
    <3>1. CASE x = a
      BY <1>2, <1>9, <2>2, <3>1 DEF IsUsed
    <3>2. CASE x = c
      <4>1. y = b /\ K[b] = H[b]
        BY <1>2, <1>11, <2>2, <3>2
      <4>2. QED
        BY <1>9, <1>11, <3>2, <4>1
    <3>3. CASE x # a /\ x # c
      <4>1. /\ x \in DOMAIN H /\ y = e[x] /\ y \in DOMAIN H
            /\ Vacant(H, dv, x) => ~ Vacant(H, dv, y)
            /\ IsUsed(H[y]) => (H[y].mark = "prevfree" <=> H[x].mark = "free")
        BY <1>1, <1>3, <2>2, <3>3, NextIs DEF e
      <4>2. CASE y = a
        <5>1. ~ Vacant(H, dv, x)
          BY <2>2, <3>3, <4>1, <4>2 DEF PrevQuiet, e
        <5>2. QED
          BY <1>8, <1>9, <4>1, <4>2, <5>1 DEF Vacant
      <4>3. CASE y # a
        BY <1>8, <1>10, <4>1, <4>3
      <4>4. QED
        BY <4>2, <4>3
    <3>4. QED
      BY <3>1, <3>2, <3>3
  <2>3. QED
    BY <2>1, <2>2 DEF Tagged, f
<1>13. VictimIs(K, dv, size)
  <2>1. VictimIs(H, dv, size)
    BY DEF Tidy
  <2>2. QED
    BY <1>1, <2>1 DEF VictimIs
<1>14. Tidy(K, dv, size, t)
  BY <1>1, <1>6, <1>12, <1>13 DEF Tidy, f
<1>15. PrevQuiet(K, dv, t, c)
  <2>1. ASSUME NEW x \in DOMAIN K \ t.last, f[x] = c PROVE ~ Vacant(K, dv, x)
    <3>1. CASE x \in {a, c}
      BY <1>9, <3>1
    <3>2. CASE x \notin {a, c}
      <4>1. e[x] = c /\ x \in DOMAIN H \ t.last
        BY <1>1, <1>3, <2>1, <3>2
      <4>2. c \in DOMAIN H
        BY <4>1, NextIs DEF e
      <4>3. QED
        BY <1>7, <4>2
    <3>3. QED
      BY <3>1, <3>2
  <2>2. QED
    BY <2>1 DEF PrevQuiet, f
<1>16. NextQuiet(H, dv, a) => NextQuiet(K, dv, c)
  BY <1>2, <1>8, <1>11 DEF NextQuiet, e, f
<1>17. ObjectsOf(K) = IF IsUsed(K[a]) THEN Put(ObjectsOf(H), a, RealSize(K[a])) ELSE ObjectsOf(H)
  <2>1. ~ IsUsed(H[a]) /\ ~ IsUsed(K[c])
    BY DEF IsUsed
  <2>2. CASE IsUsed(K[a])
    <3>1. {x \in DOMAIN K : IsUsed(K[x])} = {x \in DOMAIN H : IsUsed(H[x])} \cup {a}
      BY <1>1, <2>1, <2>2
    <3>2. UsedSize(K[a].size) = RealSize(K[a])
      BY <2>2 DEF RealSize
    <3>3. QED
      BY <2>1, <2>2, <3>1, <3>2 DEF ObjectsOf, Put
  <2>3. CASE ~ IsUsed(K[a])
    <3>1. {x \in DOMAIN K : IsUsed(K[x])} = {x \in DOMAIN H : IsUsed(H[x])}
      BY <1>1, <2>1, <2>3
    <3>2. QED
      BY <2>1, <2>3, <3>1 DEF ObjectsOf
  <2>4. QED
    BY <2>2, <2>3
<1>18. QED
  BY <1>2, <1>7, <1>14, <1>15, <1>16, <1>17 DEF e, f

\* A block that is not idle takes up the one behind it.
LEMMA JoinTidy ==
  ASSUME NEW H, NEW dv, NEW size, NEW t, Tidy(H, dv, size, t),
         NEW a \in DOMAIN H, a \notin t.first \cup t.last, H[a].mark = "special", a # dv,
         NEW b, b = a + RealSize(H[a]), b \notin t.last, H[b].mark = "special", b # dv,
         NEW K \in [DOMAIN H \ {b} -> Block],
         K[a] = [size |-> H[a].size + H[b].size, mark |-> "special"],
         \A x \in DOMAIN H \ {a, b} : K[x] = H[x]
  PROVE  /\ Tidy(K, dv, size, t) /\ b \in DOMAIN H /\ b # a
         /\ EndsOf(K)[a] = EndsOf(H)[b]
         /\ PrevQuiet(H, dv, t, a) => PrevQuiet(K, dv, t, a)
         /\ NextQuiet(H, dv, b) => NextQuiet(K, dv, a)
         /\ ObjectsOf(K) = ObjectsOf(H)
<1> DEFINE e == EndsOf(H)
           f == EndsOf(K)
           n == e[b]
<1>1. /\ DOMAIN e = DOMAIN H /\ b = e[a] /\ a \in Nat \ {0}
  BY TidyIs
<1>2. b \in DOMAIN H \ t.first /\ b # a
  BY <1>1, NextIs
<1>3. /\ DOMAIN K = DOMAIN H \ {b} /\ DOMAIN f = DOMAIN e \ {b}
      /\ H[a] \in Block /\ H[b] \in Block /\ RealSize(H[a]) = H[a].size /\ RealSize(H[b]) = H[b].size
      /\ RealSize(K[a]) = H[a].size + H[b].size /\ a \in DOMAIN K
  BY <1>1, <1>2, TidyIs DEF EndsOf, RealSize, IsUsed
<1>4. H[a].size \in Nat /\ H[b].size \in Nat /\ n = b + H[b].size /\ b \in Nat
  BY <1>2, <1>3, TidyIs, BlockIs
<1>5. f[a] = n
  BY <1>1, <1>3, <1>4 DEF EndsOf
<1>6. \A x \in DOMAIN f \ {a} : f[x] = e[x]
  BY <1>3 DEF EndsOf
<1>7. /\ n \in DOMAIN H \ t.first /\ n # b /\ n # a
      /\ IsUsed(H[n]) => H[n].mark # "prevfree"
  <2>1. n \in DOMAIN H \ t.first /\ n # b /\ (IsUsed(H[n]) => (H[n].mark = "prevfree" <=> H[b].mark = "free"))
    BY <1>2, NextIs
  <2>2. n # a
    <3>1. a + MinObj <= b /\ b + MinObj <= n
      BY <1>1, <1>2, TidyIs
    <3>2. QED
      BY <1>1, <1>4, <3>1 DEF MinObj
  <2>3. QED
    BY <2>1, <2>2
<1> HIDE DEF e, f, n
<1>8. Laid(e, t.top) /\ Tiled(e, t.first, t.last)
  BY DEF Tidy, e
<1>9. Laid(f, t.top) /\ Tiled(f, t.first, t.last)
  <2>1. a \in DOMAIN e \ t.last /\ e[a] \notin t.last /\ DOMAIN f = DOMAIN e \ {e[a]} /\ f[a] = e[e[a]]
    BY <1>1, <1>3, <1>5 DEF n
  <2>2. QED
    BY <1>6, <1>8, <2>1, JoinLaid
<1>10. \A x \in DOMAIN K : /\ Vacant(K, dv, x) <=> Vacant(H, dv, x)
                           /\ K[x].mark = "free" <=> H[x].mark = "free"
  BY <1>3 DEF Vacant
<1>11. ~ Vacant(K, dv, a) /\ ~ Vacant(H, dv, b)
  BY DEF Vacant
<1>12. \A x \in DOMAIN H \ {a} : e[x] # b
  BY <1>1, NextIs DEF e
<1>13. Tagged(K, dv, t)
  <2>1. \A x \in t.first \cup t.last : K[x].mark = "special" /\ x # dv
    <3>1. \A x \in t.first \cup t.last : x \in DOMAIN H /\ x # dv /\ H[x].mark = "special" /\ x # b
      BY <1>2, TidyIs DEF Tidy, Tagged
    <3>2. QED
      BY <3>1
  <2>2. ASSUME NEW x \in DOMAIN K \ t.last, NEW y, y = f[x]
        PROVE  /\ Vacant(K, dv, x) => ~ Vacant(K, dv, y)
               /\ IsUsed(K[y]) => (K[y].mark = "prevfree" <=> K[x].mark = "free")
    <3>1. CASE x = a
      <4>1. y = n /\ K[n] = H[n]
        BY <1>5, <1>7, <2>2, <3>1
      <4>2. QED
        BY <1>7, <1>11, <3>1, <4>1
    <3>2. CASE x # a
      <4>1. /\ x \in DOMAIN H /\ y = e[x] /\ y \in DOMAIN H
            /\ Vacant(H, dv, x) => ~ Vacant(H, dv, y)
            /\ IsUsed(H[y]) => (H[y].mark = "prevfree" <=> H[x].mark = "free")
        BY <1>1, <1>3, <1>6, <2>2, <3>2, NextIs DEF e
      <4>2. y # b
        BY <1>12, <3>2, <4>1
      <4>3. y \in DOMAIN K /\ (y # a => K[y] = H[y]) /\ ~ IsUsed(K[a])
        BY <1>3, <4>1, <4>2 DEF IsUsed
      <4>4. QED
        BY <1>10, <2>2, <4>1, <4>3
    <3>3. QED
      BY <3>1, <3>2
  <2>3. QED
    BY <2>1, <2>2 DEF Tagged, f
<1>14. VictimIs(K, dv, size)
  <2>1. VictimIs(H, dv, size)
    BY DEF Tidy
  <2>2. QED
    BY <1>3, <2>1 DEF VictimIs
<1>15. Tidy(K, dv, size, t)
  BY <1>3, <1>9, <1>13, <1>14 DEF Tidy, f
<1>16. PrevQuiet(H, dv, t, a) => PrevQuiet(K, dv, t, a)
  <2> SUFFICES ASSUME PrevQuiet(H, dv, t, a), NEW x \in DOMAIN K \ t.last, f[x] = a
               PROVE  ~ Vacant(K, dv, x)
    BY DEF PrevQuiet, f
  <2>1. CASE x = a
    BY <1>11, <2>1
  <2>2. CASE x # a
    <3>1. x \in DOMAIN H \ t.last /\ e[x] = a
      BY <1>1, <1>3, <1>6, <2>2
    <3>2. QED
      BY <1>10, <3>1 DEF PrevQuiet, e
  <2>3. QED
    BY <2>1, <2>2
<1>17. NextQuiet(H, dv, b) => NextQuiet(K, dv, a)
  BY <1>3, <1>5, <1>7, <1>10 DEF NextQuiet, e, f, n
<1>18. ObjectsOf(K) = ObjectsOf(H)
  <2>1. ~ IsUsed(H[a]) /\ ~ IsUsed(K[a]) /\ ~ IsUsed(H[b])
    BY DEF IsUsed
  <2>2. {x \in DOMAIN K : IsUsed(K[x])} = {x \in DOMAIN H : IsUsed(H[x])}
    BY <1>3, <2>1
  <2>3. QED
    BY <2>1, <2>2 DEF ObjectsOf
<1>19. QED
  BY <1>2, <1>5, <1>15, <1>16, <1>17, <1>18 DEF e, f, n

\* A subarea is added where there is no victim.
LEMMA AreaTidy ==
  ASSUME NEW H, NEW t, Tidy(H, 0, 0, t),
         NEW s \in Nat, NEW l \in Nat, NEW above \in Nat, t.top <= s, 0 < s,
         s + 2 * MinObj <= l, l + MinObj <= above,
         NEW m, m = s + MinObj, NEW z, z = l - m, NEW K \in [DOMAIN H \cup {s, m, l} -> Block],
         K[s] = [size |-> MinObj, mark |-> "special"],
         K[m] = [size |-> z, mark |-> "special"],
         K[l] = [size |-> MinObj, mark |-> "special"],
         \A x \in DOMAIN H : K[x] = H[x],
         NEW u, u.first = t.first \cup {s}, u.last = t.last \cup {l}, u.top = above
  PROVE  /\ Tidy(K, m, z, u)
         /\ {s, m, l} \cap DOMAIN H = {} /\ ObjectsOf(K) = ObjectsOf(H)
<1> DEFINE e == EndsOf(H)
           f == EndsOf(K)
<1>1. DOMAIN e = DOMAIN H /\ DOMAIN K = DOMAIN H \cup {s, m, l} /\ DOMAIN f = DOMAIN e \cup {s, m, l}
  BY DEF EndsOf
<1>2. \A b \in {s, m, l} : ~ IsUsed(K[b]) /\ RealSize(K[b]) = K[b].size /\ K[b].mark = "special"
  BY DEF IsUsed, RealSize
<1>3. f[s] = m /\ f[m] = l /\ f[l] = l + MinObj /\ m \in Nat /\ s # m /\ m # l /\ s # l /\ m # 0
  BY <1>1, <1>2 DEF EndsOf, MinObj
<1>4. \A x \in DOMAIN e : f[x] = e[x]
  BY <1>1 DEF EndsOf
<1> HIDE DEF e, f
<1>5. Laid(e, t.top) /\ Tiled(e, t.first, t.last)
  BY DEF Tidy, e
<1>6. {s, m, l} \cap DOMAIN e = {} /\ Laid(f, above) /\ Tiled(f, t.first \cup {s}, t.last \cup {l})
  <2>1. DOMAIN f = DOMAIN e \cup {s, m, l} /\ f[s] = m /\ f[m] = l
    BY <1>1, <1>3
  <2> DEFINE first == t.first
             last == t.last
             top == t.top
  <2>1a. Laid(e, top) /\ Tiled(e, first, last) /\ top <= s /\ f[l] = l + MinObj
    BY <1>3, <1>5
  <2> HIDE DEF first, last, top
  <2>1b. /\ {s, m, l} \cap DOMAIN e = {}
         /\ Laid(f, above) /\ Tiled(f, first \cup {s}, last \cup {l})
    <3>1. NewArea(e, f, top, s, m, l, above)
      BY <1>4, <2>1, <2>1a DEF NewArea
    <3> QED
      BY <2>1a, <3>1, AreaLaid
  <2>2. /\ {s, m, l} \cap DOMAIN e = {}
        /\ Laid(f, above) /\ Tiled(f, t.first \cup {s}, t.last \cup {l})
    BY <2>1b DEF first, last
  <2>3. QED
    BY <2>2
<1>7. Tagged(K, m, u)
  <2>1. \A x \in t.first \cup t.last : x \in DOMAIN H /\ H[x].mark = "special" /\ x # m
    <3>1. \A x \in t.first \cup t.last : x \in DOMAIN H
      BY TidyIs
    <3>2. \A x \in t.first \cup t.last : H[x].mark = "special"
      BY DEF Tidy, Tagged
    <3>3. QED
      BY <1>1, <1>6, <3>1, <3>2
  <2>2. \A x \in u.first \cup u.last : K[x].mark = "special" /\ x # m
    BY <1>2, <1>3, <2>1
  <2>3. ASSUME NEW x \in DOMAIN K \ u.last, NEW y, y = f[x]
        PROVE  /\ Vacant(K, m, x) => ~ Vacant(K, m, y)
               /\ IsUsed(K[y]) => (K[y].mark = "prevfree" <=> K[x].mark = "free")
    <3>1. CASE x = s
      <4>1. y = m
        BY <1>3, <2>3, <3>1
      <4>2. QED
        BY <1>2, <1>3, <3>1, <4>1 DEF Vacant
    <3>2. CASE x = m
      <4>1. y = l
        BY <1>3, <2>3, <3>2
      <4>2. QED
        BY <1>2, <1>3, <3>2, <4>1 DEF Vacant
    <3>3. CASE x \in DOMAIN H
      <4>1. /\ y = e[x] /\ y \in DOMAIN H /\ x \notin t.last /\ x # m /\ y # m
        BY <1>1, <1>4, <1>6, <2>3, <3>3, NextIs DEF e
      <4>2. /\ Vacant(H, 0, x) => ~ Vacant(H, 0, y)
            /\ IsUsed(H[y]) => (H[y].mark = "prevfree" <=> H[x].mark = "free")
        BY <3>3, <4>1, NextIs DEF e
      <4>3. QED
        BY <3>3, <4>1, <4>2 DEF Vacant
    <3>4. QED
      BY <1>1, <2>3, <3>1, <3>2, <3>3
  <2>4. QED
    BY <2>2, <2>3 DEF Tagged, f
<1>8. VictimIs(K, m, z)
  <2>1. z >= MinObj
    BY DEF MinObj
  <2>2. QED
    BY <1>1, <2>1 DEF VictimIs
<1>9. ObjectsOf(K) = ObjectsOf(H)
  <2>1. {x \in DOMAIN K : IsUsed(K[x])} = {x \in DOMAIN H : IsUsed(H[x])}
    BY <1>1, <1>2, <1>6
  <2>2. QED
    BY <2>1 DEF ObjectsOf
<1>10. Tidy(K, m, l - m, u)
  BY <1>1, <1>6, <1>7, <1>8 DEF Tidy, f
<1>11. QED
  BY <1>1, <1>6, <1>9, <1>10

-----------------------------------------------------------------------------
(* What the stores change of the record of the heap.                         *)

IsHeap(g) ==
  DOMAIN g = {"head", "foot", "nxt", "prv", "bucket", "dv", "dvsize", "subs", "segfree"}
SameLinks(g, k) == k.foot = g.foot /\ k.nxt = g.nxt /\ k.prv = g.prv /\ k.bucket = g.bucket
SameVictim(g, k) == k.dv = g.dv /\ k.dvsize = g.dvsize
SameAreas(g, k) == k.subs = g.subs /\ k.segfree = g.segfree

\* Of a store to a head, only the heads change.
LEMMA PutHeadIs ==
  ASSUME NEW g, IsHeap(g), NEW a, NEW size, NEW mark
  PROVE  LET k == PutHead(g, a, size, mark)
         IN  /\ IsHeap(k) /\ SameLinks(g, k) /\ SameVictim(g, k) /\ SameAreas(g, k)
             /\ k.head = Put(g.head, a, [size |-> size, mark |-> mark])
BY DEF IsHeap, PutHead, SameLinks, SameVictim, SameAreas

\* A head that is dropped leaves the rest.
LEMMA DropHeadIs ==
  ASSUME NEW g, IsHeap(g), NEW a
  PROVE  LET k == DropHead(g, a)
         IN  /\ IsHeap(k) /\ SameLinks(g, k) /\ SameVictim(g, k) /\ SameAreas(g, k)
             /\ k.head = Without(g.head, a)
BY DEF IsHeap, DropHead, SameLinks, SameVictim, SameAreas

\* A new victim changes its head and the two fields of the victim.
LEMMA SetVictimIs ==
  ASSUME NEW g, IsHeap(g), NEW a, NEW size
  PROVE  LET k == SetVictim(g, a, size)
         IN  /\ IsHeap(k) /\ SameLinks(g, k) /\ SameAreas(g, k)
             /\ k.head = Put(g.head, a, [size |-> size, mark |-> "special"])
             /\ k.dv = a /\ k.dvsize = size
BY DEF IsHeap, PutHead, SetVictim, SameLinks, SameAreas

\* A mark changes the one head, if it is that of an object.
LEMMA MarkNextIs ==
  ASSUME NEW g, IsHeap(g), NEW a, a \in DOMAIN g.head, NEW mark,
         g.head \in [DOMAIN g.head -> Block], NEW k, k = MarkNext(g, a, mark)
  PROVE  /\ IsHeap(k) /\ SameLinks(g, k) /\ SameVictim(g, k) /\ SameAreas(g, k)
         /\ DOMAIN k.head = DOMAIN g.head /\ k.head[a] = Marked(g.head[a], mark)
         /\ \A x \in DOMAIN g.head \ {a} : k.head[x] = g.head[x]
<1>1. CASE IsUsed(g.head[a])
  <2>1. k = [g EXCEPT !.head[a].mark = mark]
    BY <1>1 DEF MarkNext
  <2>2. g.head[a] = [size |-> g.head[a].size, mark |-> g.head[a].mark]
    BY BlockIs
  <2>3. [g.head[a] EXCEPT !.mark = mark] = Marked(g.head[a], mark)
    BY <1>1, <2>2 DEF Marked
  <2>4. QED
    BY <2>1, <2>3 DEF IsHeap, SameLinks, SameVictim, SameAreas
<1>2. CASE ~ IsUsed(g.head[a])
  BY <1>2 DEF MarkNext, Marked, IsHeap, SameLinks, SameVictim, SameAreas
<1>3. QED
  BY <1>1, <1>2

\* The heads stay blocks.
LEMMA MarkNextFcn ==
  ASSUME NEW g, IsHeap(g), NEW a, a \in DOMAIN g.head, NEW mark \in {"used", "prevfree"},
         g.head \in [DOMAIN g.head -> Block], NEW k, k = MarkNext(g, a, mark)
  PROVE  k.head \in [DOMAIN g.head -> Block]
<1>1. CASE IsUsed(g.head[a])
  <2>1. k = [g EXCEPT !.head[a].mark = mark]
    BY <1>1 DEF MarkNext
  <2>2. g.head[a] = [size |-> g.head[a].size, mark |-> g.head[a].mark] /\ g.head[a].size \in Nat
    BY BlockIs
  <2>3. [g.head[a] EXCEPT !.mark = mark] = [size |-> g.head[a].size, mark |-> mark]
    BY <2>2
  <2>4. k.head = [g.head EXCEPT ![a] = [size |-> g.head[a].size, mark |-> mark]]
    BY <2>1, <2>3 DEF IsHeap
  <2>5. [size |-> g.head[a].size, mark |-> mark] \in Block
    BY <2>2 DEF Block, Marks
  <2> QED
    BY <2>4, <2>5
<1>2. CASE ~ IsUsed(g.head[a])
  BY <1>2 DEF MarkNext
<1>3. QED
  BY <1>1, <1>2

\* The heads, the victim and the areas, when the lists do not matter.
LEMMA UnlinkHead ==
  ASSUME NEW g, IsHeap(g), NEW a
  PROVE  /\ IsHeap(Unlink(g, a)) /\ SameVictim(g, Unlink(g, a)) /\ SameAreas(g, Unlink(g, a))
         /\ Unlink(g, a).head = Without(g.head, a)
BY DEF IsHeap, DropHead, Unlink, SameVictim, SameAreas

\* PushFree adds a free head.
LEMMA PushHead ==
  ASSUME NEW g, IsHeap(g), NEW a, NEW size
  PROVE  LET k == PushFree(g, a, size)
         IN  /\ IsHeap(k) /\ SameVictim(g, k) /\ SameAreas(g, k)
             /\ k.head = Put(g.head, a, [size |-> size, mark |-> "free"])
BY DEF IsHeap, PutHead, PushFree, SameVictim, SameAreas

\* All that PushFree changes.
LEMMA PushFreeIs ==
  ASSUME NEW g, IsHeap(g), NEW a, NEW size
  PROVE  LET k == PushFree(g, a, size)
             i == BucketIndex(size)
             first == g.bucket[i]
             back == IF first = 0 THEN g.prv ELSE [g.prv EXCEPT ![first] = a]
         IN  /\ IsHeap(k) /\ SameVictim(g, k) /\ SameAreas(g, k)
             /\ k.head = Put(g.head, a, [size |-> size, mark |-> "free"])
             /\ k.foot = Put(g.foot, a + size, size)
             /\ k.nxt = Put(g.nxt, a, first)
             /\ k.prv = Put(back, a, BucketAddr(i))
             /\ k.bucket = [g.bucket EXCEPT ![i] = a]
BY DEF IsHeap, PutHead, PushFree, SameVictim, SameAreas

\* All that Unlink changes.
LEMMA UnlinkIs ==
  ASSUME NEW g, IsHeap(g), NEW a
  PROVE  LET k == Unlink(g, a)
             i == BucketIndex(g.head[a].size)
             next == g.nxt[a]
             prev == g.prv[a]
             back == IF next = 0 THEN g.prv ELSE [g.prv EXCEPT ![next] = prev]
             first == g.bucket[i] = a
         IN  /\ IsHeap(k) /\ SameVictim(g, k) /\ SameAreas(g, k)
             /\ k.head = Without(g.head, a)
             /\ k.foot = Without(g.foot, a + g.head[a].size)
             /\ k.nxt = Without(IF first THEN g.nxt ELSE [g.nxt EXCEPT ![prev] = next], a)
             /\ k.prv = Without(back, a)
             /\ k.bucket = IF first THEN [g.bucket EXCEPT ![i] = next] ELSE g.bucket
BY DEF IsHeap, DropHead, Unlink, SameVictim, SameAreas

-----------------------------------------------------------------------------
(* The free lists.  Along a list the ranks r, which are below m, decrease.   *)

FreeOf(H) == {a \in DOMAIN H : H[a].mark = "free"}
Index(g, a) == BucketIndex(g.head[a].size)

Linked(g, r, m) ==
  LET F == FreeOf(g.head)
  IN  /\ m \in Nat /\ r \in [Nat -> Nat] /\ F \subseteq Nat \ {0}
      /\ g.bucket \in [Buckets -> F \cup {0}] /\ DOMAIN g.nxt = F /\ DOMAIN g.prv = F
      /\ \A a \in F : g.head[a].size \in Nat /\ Index(g, a) \in Buckets /\ r[a] < m
      /\ \A a \in F : g.nxt[a] # 0 => /\ g.nxt[a] \in F /\ g.prv[g.nxt[a]] = a
                                      /\ Index(g, g.nxt[a]) = Index(g, a)
                                      /\ r[g.nxt[a]] < r[a]
      /\ \A a \in F : \/ g.prv[a] = BucketAddr(Index(g, a)) /\ g.bucket[Index(g, a)] = a
                      \/ g.prv[a] \in F /\ g.nxt[g.prv[a]] = a
      /\ \A i \in Buckets : g.bucket[i] # 0 => Index(g, g.bucket[i]) = i
                                               /\ g.prv[g.bucket[i]] = BucketAddr(i)

\* The footers.
EndOf(g, a) == a + g.head[a].size
Footed(g) ==
  LET F == FreeOf(g.head)
  IN  /\ g.foot = [x \in DOMAIN g.foot |-> g.foot[x]]
      /\ DOMAIN g.foot = {EndOf(g, a) : a \in F}
      /\ \A a \in F : g.foot[EndOf(g, a)] = g.head[a].size
      /\ \A a, b \in F : EndOf(g, a) = EndOf(g, b) => a = b

Lists(g, r, m) == Linked(g, r, m) /\ Footed(g)

\* Only the free blocks and the links matter.
LEMMA ListsKept ==
  ASSUME NEW g, NEW k, NEW r, NEW m, Lists(g, r, m), SameLinks(g, k),
         FreeOf(k.head) = FreeOf(g.head),
         \A a \in FreeOf(g.head) : k.head[a] = g.head[a]
  PROVE  Lists(k, r, m)
<1>1. \A a \in FreeOf(g.head) : Index(k, a) = Index(g, a) /\ EndOf(k, a) = EndOf(g, a)
  BY DEF Index, EndOf
<1>2. Linked(k, r, m)
  BY <1>1 DEF Lists, Linked, SameLinks
<1>3. Footed(k)
  BY <1>1 DEF Lists, Footed, SameLinks
<1>4. QED
  BY <1>2, <1>3 DEF Lists

\* Buckets are told apart from blocks.
LEMMA AddrIs == \A i \in Buckets : BucketAddr(i) < 0 /\ BucketAddr(i) \in Int
BY SizesAssumption DEF BucketAddr, Buckets

\* Taking a block off its list leaves the lists linked, by the same ranks.
LEMMA Unlinked ==
  ASSUME NEW g, IsHeap(g), NEW r, NEW m, Lists(g, r, m), NEW a \in FreeOf(g.head)
  PROVE  Lists(Unlink(g, a), r, m)
<1> DEFINE k == Unlink(g, a)
           F == FreeOf(g.head)
           i == Index(g, a)
           next == g.nxt[a]
           prev == g.prv[a]
           first == g.bucket[i] = a
           back == IF next = 0 THEN g.prv ELSE [g.prv EXCEPT ![next] = prev]
           forth == IF first THEN g.nxt ELSE [g.nxt EXCEPT ![prev] = next]
<1>1. /\ k.head = Without(g.head, a) /\ k.foot = Without(g.foot, a + g.head[a].size)
      /\ k.nxt = Without(forth, a) /\ k.prv = Without(back, a)
      /\ k.bucket = IF first THEN [g.bucket EXCEPT ![i] = next] ELSE g.bucket
  <2>1. BucketIndex(g.head[a].size) = i
    BY DEF Index
  <2> HIDE DEF i
  <2>2. QED
    BY <2>1, UnlinkIs
<1>2. Linked(g, r, m) /\ Footed(g)
  BY DEF Lists
<1>3. /\ F \subseteq Nat \ {0} /\ DOMAIN g.nxt = F /\ DOMAIN g.prv = F /\ i \in Buckets
      /\ g.bucket \in [Buckets -> F \cup {0}] /\ r \in [Nat -> Nat] /\ m \in Nat
  BY <1>2 DEF Linked
<1> HIDE DEF k
<1>4. FreeOf(k.head) = F \ {a} /\ \A x \in F \ {a} : k.head[x] = g.head[x]
  BY <1>1 DEF FreeOf, Without, Restrict
<1>5. \A x \in F \ {a} : Index(k, x) = Index(g, x) /\ EndOf(k, x) = EndOf(g, x)
  BY <1>4 DEF Index, EndOf
<1>6. next # 0 => /\ next \in F \ {a} /\ g.prv[next] = a /\ Index(g, next) = i
                  /\ r[next] < r[a]
  BY <1>2, <1>3 DEF Linked
<1>7. /\ first => prev = BucketAddr(i)
      /\ ~ first => prev \in F \ {a} /\ g.nxt[prev] = a /\ Index(g, prev) = i /\ r[a] < r[prev]
  <2>1. CASE first
    BY <1>2, <1>3, <2>1 DEF Linked
  <2>2. CASE ~ first
    <3>1. prev \in F /\ g.nxt[prev] = a
      BY <1>2, <2>2 DEF Linked
    <3>2. a # 0
      BY <1>3
    <3>3. Index(g, a) = Index(g, prev) /\ r[a] < r[prev]
      BY <1>2, <3>1, <3>2 DEF Linked
    <3>4. prev # a
      BY <1>3, <3>1, <3>3
    <3>5. QED
      BY <2>2, <3>1, <3>3, <3>4
  <2>3. QED
    BY <2>1, <2>2
<1>8. /\ DOMAIN k.nxt = F \ {a}
      /\ \A x \in F \ {a} : k.nxt[x] = IF ~ first /\ x = prev THEN next ELSE g.nxt[x]
  <2>1. DOMAIN forth = F /\ \A x \in F : forth[x] = IF ~ first /\ x = prev THEN next ELSE g.nxt[x]
    BY <1>3, <1>7
  <2> HIDE DEF forth
  <2>2. QED
    BY <1>1, <2>1 DEF Without, Restrict
<1>9. /\ DOMAIN k.prv = F \ {a}
      /\ \A x \in F \ {a} : k.prv[x] = IF x = next THEN prev ELSE g.prv[x]
  <2>1. DOMAIN back = F /\ \A x \in F : back[x] = IF x = next THEN prev ELSE g.prv[x]
    BY <1>3, <1>6
  <2> HIDE DEF back
  <2>2. QED
    BY <1>1, <2>1 DEF Without, Restrict
<1>10. /\ k.bucket \in [Buckets -> (F \ {a}) \cup {0}]
       /\ \A j \in Buckets : k.bucket[j] = IF first /\ j = i THEN next ELSE g.bucket[j]
  <2>1. \A j \in Buckets : k.bucket[j] = IF first /\ j = i THEN next ELSE g.bucket[j]
    BY <1>1, <1>3
  <2>2. \A j \in Buckets \ {i} : g.bucket[j] # a
    BY <1>2, <1>3 DEF Linked
  <2>3. \A j \in Buckets : k.bucket[j] \in (F \ {a}) \cup {0}
    BY <1>3, <1>6, <2>1, <2>2
  <2>4. k.bucket = [j \in Buckets |-> k.bucket[j]]
    BY <1>1, <1>3
  <2>5. QED
    BY <2>1, <2>3, <2>4
<1> HIDE DEF F, i, next, prev, first, back, forth
<1>11. Linked(k, r, m)
  <2>1. \A x \in F \ {a} : k.head[x].size \in Nat /\ Index(k, x) \in Buckets /\ r[x] < m
    BY <1>2, <1>4, <1>5 DEF Linked, F
  <2>2. ASSUME NEW x \in F \ {a}, k.nxt[x] # 0
        PROVE  /\ k.nxt[x] \in F \ {a} /\ k.prv[k.nxt[x]] = x
               /\ Index(k, k.nxt[x]) = Index(k, x) /\ r[k.nxt[x]] < r[x]
    <3>1. CASE ~ first /\ x = prev
      <4>1. k.nxt[x] = next /\ next \in F \ {a} /\ k.prv[next] = prev
        BY <1>6, <1>8, <1>9, <2>2, <3>1
      <4>2. r[next] < r[prev]
        <5>1. r[next] < r[a] /\ r[a] < r[prev]
          BY <1>6, <1>7, <2>2, <3>1, <4>1
        <5>2. {next, a, prev} \subseteq Nat
          BY <1>3, <1>7, <3>1, <4>1 DEF F
        <5>3. r[next] \in Nat /\ r[a] \in Nat /\ r[prev] \in Nat
          BY <1>3, <5>2
        <5>4. QED
          BY <5>1, <5>3
      <4>3. QED
        BY <1>5, <1>6, <1>7, <2>2, <3>1, <4>1, <4>2
    <3>2. CASE ~ (~ first /\ x = prev)
      <4>1. k.nxt[x] = g.nxt[x]
        BY <1>8, <3>2
      <4>2. g.nxt[x] \in F /\ g.prv[g.nxt[x]] = x /\ Index(g, g.nxt[x]) = Index(g, x) /\ r[g.nxt[x]] < r[x]
        BY <1>2, <2>2, <4>1 DEF Linked, F
      <4>3. g.nxt[x] # a
        <5>1. g.nxt[x] = a => prev = x
          BY <4>2 DEF prev
        <5>2. first => prev \notin F
          BY <1>3, <1>7, AddrIs
        <5>3. QED
          BY <3>2, <5>1, <5>2
      <4>4. g.nxt[x] # next
        <5>1. g.nxt[x] = next => next # 0
          BY <2>2, <4>1
        <5>2. QED
          BY <1>6, <4>2, <5>1
      <4>5. QED
        BY <1>5, <1>9, <4>1, <4>2, <4>3, <4>4
    <3>3. QED
      BY <3>1, <3>2
  <2>3. ASSUME NEW x \in F \ {a}
        PROVE  \/ k.prv[x] = BucketAddr(Index(k, x)) /\ k.bucket[Index(k, x)] = x
               \/ k.prv[x] \in F \ {a} /\ k.nxt[k.prv[x]] = x
    <3>1. CASE x = next
      <4>1. k.prv[x] = prev /\ Index(k, x) = i /\ next # 0
        BY <1>3, <1>5, <1>6, <1>9, <3>1
      <4>2. CASE first
        <5>1. k.bucket[i] = next
          BY <1>3, <1>10, <4>2
        <5>2. QED
          BY <1>7, <3>1, <4>1, <4>2, <5>1
      <4>3. CASE ~ first
        BY <1>7, <1>8, <3>1, <4>1, <4>3
      <4>4. QED
        BY <4>2, <4>3
    <3>2. CASE x # next
      <4>1. k.prv[x] = g.prv[x] /\ Index(k, x) = Index(g, x)
        BY <1>5, <1>9, <3>2
      <4>2. CASE g.prv[x] = BucketAddr(Index(g, x)) /\ g.bucket[Index(g, x)] = x
        <5>1. ~ (first /\ Index(g, x) = i)
          BY <4>2 DEF first
        <5>2. Index(g, x) \in Buckets
          BY <1>2 DEF Linked, F
        <5>3. k.bucket[Index(g, x)] = x
          BY <1>10, <4>2, <5>1, <5>2
        <5>4. QED
          BY <4>1, <4>2, <5>3
      <4>3. CASE g.prv[x] \in F /\ g.nxt[g.prv[x]] = x
        <5>1. g.prv[x] # a
          BY <3>2, <4>3 DEF next
        <5>2. ~ (~ first /\ g.prv[x] = prev)
          BY <1>7, <4>3
        <5>3. QED
          BY <1>8, <4>1, <4>3, <5>1, <5>2
      <4>4. QED
        BY <1>2, <4>2, <4>3 DEF Linked, F
    <3>3. QED
      BY <3>1, <3>2
  <2>4. ASSUME NEW j \in Buckets, k.bucket[j] # 0
        PROVE  Index(k, k.bucket[j]) = j /\ k.prv[k.bucket[j]] = BucketAddr(j)
    <3>1. CASE first /\ j = i
      <4>1. k.bucket[j] = next /\ next # 0
        BY <1>10, <2>4, <3>1
      <4>2. QED
        BY <1>5, <1>6, <1>7, <1>9, <3>1, <4>1
    <3>2. CASE ~ (first /\ j = i)
      <4>1. k.bucket[j] = g.bucket[j] /\ k.bucket[j] \in F \ {a}
        BY <1>10, <2>4, <3>2
      <4>2. Index(g, g.bucket[j]) = j /\ g.prv[g.bucket[j]] = BucketAddr(j)
        BY <1>2, <2>4, <4>1 DEF Linked
      <4>3. g.bucket[j] # next
        <5>1. g.prv[g.bucket[j]] # a
          BY <1>3, <4>2, AddrIs DEF F
        <5>2. g.bucket[j] = next => next # 0
          BY <1>3, <4>1
        <5>3. QED
          BY <1>6, <5>1, <5>2
      <4>4. QED
        BY <1>5, <1>9, <4>1, <4>2, <4>3
    <3>3. QED
      BY <3>1, <3>2
  <2>5. QED
    BY <1>3, <1>4, <1>8, <1>9, <1>10, <2>1, <2>2, <2>3, <2>4 DEF Linked
<1>12. Footed(k)
  <2>1. k.foot = Without(g.foot, EndOf(g, a))
    BY <1>1 DEF EndOf
  <2>2. k.foot = [x \in DOMAIN k.foot |-> k.foot[x]]
    BY <2>1 DEF Without, Restrict
  <2>3. \A x \in F \ {a} : EndOf(g, x) # EndOf(g, a)
    BY <1>2 DEF Footed, F
  <2>4. DOMAIN k.foot = {EndOf(k, x) : x \in F \ {a}}
    <3>1. DOMAIN k.foot = {EndOf(g, x) : x \in F} \ {EndOf(g, a)}
      BY <1>2, <2>1 DEF Footed, F, Without, Restrict
    <3>2. QED
      BY <1>5, <2>3, <3>1
  <2>5. ASSUME NEW x \in F \ {a} PROVE k.foot[EndOf(k, x)] = k.head[x].size
    <3>1. g.foot[EndOf(g, x)] = g.head[x].size /\ EndOf(g, x) \in DOMAIN g.foot
      BY <1>2 DEF Footed, F
    <3>2. k.foot[EndOf(g, x)] = g.foot[EndOf(g, x)]
      BY <2>1, <2>3, <3>1 DEF Without, Restrict
    <3>3. QED
      BY <1>4, <1>5, <3>1, <3>2
  <2>6. \A x, y \in F \ {a} : EndOf(k, x) = EndOf(k, y) => x = y
    BY <1>2, <1>5 DEF Footed, F
  <2>7. QED
    BY <1>4, <2>2, <2>4, <2>5, <2>6 DEF Footed
<1>13. QED
  BY <1>11, <1>12 DEF Lists, k

\* A block in front of a list has the highest rank.
LEMMA Pushed ==
  ASSUME NEW g, IsHeap(g), NEW r, NEW m, Lists(g, r, m),
         NEW a \in Nat \ {0}, a \notin FreeOf(g.head), NEW size \in Nat,
         BucketIndex(size) \in Buckets,
         \A b \in FreeOf(g.head) : EndOf(g, b) # a + size
  PROVE  Lists(PushFree(g, a, size), [r EXCEPT ![a] = m], m + 1)
<1> DEFINE k == PushFree(g, a, size)
           q == [r EXCEPT ![a] = m]
           F == FreeOf(g.head)
           G == F \cup {a}
           i == BucketIndex(size)
           first == g.bucket[i]
           back == IF first = 0 THEN g.prv ELSE [g.prv EXCEPT ![first] = a]
<1>1. /\ k.head = Put(g.head, a, [size |-> size, mark |-> "free"])
      /\ k.foot = Put(g.foot, a + size, size) /\ k.nxt = Put(g.nxt, a, first)
      /\ k.prv = Put(back, a, BucketAddr(i)) /\ k.bucket = [g.bucket EXCEPT ![i] = a]
  BY PushFreeIs
<1>2. Linked(g, r, m) /\ Footed(g)
  BY DEF Lists
<1>3. /\ F \subseteq Nat \ {0} /\ DOMAIN g.nxt = F /\ DOMAIN g.prv = F /\ i \in Buckets
      /\ g.bucket \in [Buckets -> F \cup {0}] /\ r \in [Nat -> Nat] /\ m \in Nat /\ a \notin F
      /\ first \in F \cup {0}
  BY <1>2 DEF Linked
<1> HIDE DEF k
<1>4. FreeOf(k.head) = G /\ k.head[a].size = size /\ \A x \in F : k.head[x] = g.head[x]
  BY <1>1 DEF FreeOf, Put
<1>5. /\ Index(k, a) = i /\ EndOf(k, a) = a + size
      /\ \A x \in F : Index(k, x) = Index(g, x) /\ EndOf(k, x) = EndOf(g, x)
  BY <1>4 DEF Index, EndOf
<1>6. first # 0 => Index(g, first) = i /\ g.prv[first] = BucketAddr(i)
  BY <1>2, <1>3 DEF Linked
<1>7. DOMAIN k.nxt = G /\ k.nxt[a] = first /\ \A x \in F : k.nxt[x] = g.nxt[x]
  BY <1>1, <1>3 DEF Put
<1>8. /\ DOMAIN k.prv = G /\ k.prv[a] = BucketAddr(i)
      /\ \A x \in F : k.prv[x] = IF x = first THEN a ELSE g.prv[x]
  <2>1. DOMAIN back = F /\ \A x \in F : back[x] = IF x = first THEN a ELSE g.prv[x]
    BY <1>3
  <2> HIDE DEF back, first
  <2>2. QED
    BY <1>1, <1>3, <2>1 DEF Put
<1>9. /\ k.bucket \in [Buckets -> G \cup {0}]
      /\ \A j \in Buckets : k.bucket[j] = IF j = i THEN a ELSE g.bucket[j]
  BY <1>1, <1>3
<1>10. q \in [Nat -> Nat] /\ q[a] = m /\ \A x \in F : q[x] = r[x]
  BY <1>3
<1> HIDE DEF F, i, first, back, q
<1>11. Linked(k, q, m + 1)
  <2>1. \A x \in F : /\ g.head[x].size \in Nat /\ Index(g, x) \in Buckets /\ r[x] < m
                     /\ r[x] \in Nat
    BY <1>2, <1>3 DEF Linked, F
  <2>2. \A x \in G : k.head[x].size \in Nat /\ Index(k, x) \in Buckets /\ q[x] < m + 1
    BY <1>3, <1>4, <1>5, <1>10, <2>1
  <2>3. ASSUME NEW x \in G, k.nxt[x] # 0
        PROVE  /\ k.nxt[x] \in G /\ k.prv[k.nxt[x]] = x
               /\ Index(k, k.nxt[x]) = Index(k, x) /\ q[k.nxt[x]] < q[x]
    <3>1. CASE x = a
      <4>1. k.nxt[x] = first /\ first \in F
        BY <1>3, <1>7, <2>3, <3>1
      <4>2. first # 0
        BY <1>3, <4>1
      <4>3. QED
        BY <1>5, <1>6, <1>8, <1>10, <2>1, <3>1, <4>1, <4>2
    <3>2. CASE x # a
      <4>1. k.nxt[x] = g.nxt[x] /\ x \in F
        BY <1>7, <3>2
      <4>2. g.nxt[x] \in F /\ g.prv[g.nxt[x]] = x /\ Index(g, g.nxt[x]) = Index(g, x) /\ r[g.nxt[x]] < r[x]
        BY <1>2, <2>3, <4>1 DEF Linked, F
      <4>3. g.nxt[x] # first
        <5>1. g.nxt[x] = first => x = BucketAddr(i)
          BY <1>3, <1>6, <4>2
        <5>2. QED
          BY <1>3, <4>1, <5>1, AddrIs
      <4>4. QED
        BY <1>5, <1>8, <1>10, <4>1, <4>2, <4>3
    <3>3. QED
      BY <3>1, <3>2
  <2>4. ASSUME NEW x \in G
        PROVE  \/ k.prv[x] = BucketAddr(Index(k, x)) /\ k.bucket[Index(k, x)] = x
               \/ k.prv[x] \in G /\ k.nxt[k.prv[x]] = x
    <3>1. CASE x = a
      BY <1>3, <1>5, <1>8, <1>9, <3>1
    <3>2. CASE x # a /\ x = first
      BY <1>7, <1>8, <3>2
    <3>3. CASE x # a /\ x # first
      <4>1. k.prv[x] = g.prv[x] /\ x \in F /\ Index(k, x) = Index(g, x) /\ Index(g, x) \in Buckets
        BY <1>5, <1>8, <2>1, <3>3
      <4>2. CASE g.prv[x] = BucketAddr(Index(g, x)) /\ g.bucket[Index(g, x)] = x
        <5>1. Index(g, x) # i
          BY <3>3, <4>2 DEF first
        <5>2. QED
          BY <1>9, <4>1, <4>2, <5>1
      <4>3. CASE g.prv[x] \in F /\ g.nxt[g.prv[x]] = x
        BY <1>7, <4>1, <4>3
      <4>4. QED
        BY <1>2, <4>1, <4>2, <4>3 DEF Linked, F
    <3>4. QED
      BY <3>1, <3>2, <3>3
  <2>5. ASSUME NEW j \in Buckets, k.bucket[j] # 0
        PROVE  Index(k, k.bucket[j]) = j /\ k.prv[k.bucket[j]] = BucketAddr(j)
    <3>1. CASE j = i
      BY <1>5, <1>8, <1>9, <3>1
    <3>2. CASE j # i
      <4>1. k.bucket[j] = g.bucket[j] /\ g.bucket[j] # 0 /\ g.bucket[j] \in F
        BY <1>3, <1>9, <2>5, <3>2
      <4>2. Index(g, g.bucket[j]) = j /\ g.prv[g.bucket[j]] = BucketAddr(j)
        BY <1>2, <4>1 DEF Linked
      <4>3. g.bucket[j] # first
        <5>1. first # 0 => Index(g, first) = i
          BY <1>6
        <5>2. QED
          BY <3>2, <4>1, <4>2, <5>1
      <4>4. QED
        BY <1>5, <1>8, <4>1, <4>2, <4>3
    <3>3. QED
      BY <3>1, <3>2
  <2>6. m + 1 \in Nat /\ G \subseteq Nat \ {0}
    BY <1>3
  <2>7. QED
    BY <1>4, <1>7, <1>8, <1>9, <1>10, <2>2, <2>3, <2>4, <2>5, <2>6 DEF Linked
<1>12. Footed(k)
  <2>1. k.foot = [x \in DOMAIN k.foot |-> k.foot[x]]
    BY <1>1 DEF Put
  <2>2. /\ DOMAIN g.foot = {EndOf(g, x) : x \in F}
        /\ \A x \in F : g.foot[EndOf(g, x)] = g.head[x].size
        /\ \A x, y \in F : EndOf(g, x) = EndOf(g, y) => x = y
        /\ \A x \in F : EndOf(g, x) # a + size
    BY <1>2 DEF Footed, F
  <2>3. DOMAIN k.foot = DOMAIN g.foot \cup {a + size} /\ k.foot[a + size] = size
        /\ \A x \in DOMAIN g.foot \ {a + size} : k.foot[x] = g.foot[x]
    BY <1>1 DEF Put
  <2>4. DOMAIN k.foot = {EndOf(k, x) : x \in G}
    BY <1>5, <2>2, <2>3
  <2>5. \A x \in G : k.foot[EndOf(k, x)] = k.head[x].size
    BY <1>4, <1>5, <2>2, <2>3
  <2>6. \A x, y \in G : EndOf(k, x) = EndOf(k, y) => x = y
    BY <1>5, <2>2
  <2>7. QED
    BY <1>4, <2>1, <2>4, <2>5, <2>6 DEF Footed
<1>13. QED
  BY <1>11, <1>12 DEF Lists, k, q

-----------------------------------------------------------------------------
(* The whole heap.                                                           *)

Subarea == [offset : Nat, size : Nat]
FirstOf(s) == RoundUp(s.offset, Align)
LastOf(s) == FirstOf(s) + AlignedSize(s.offset, s.size) - MinObj
Bounds(g) == [first |-> {FirstOf(g.subs[i]) : i \in 1 .. Len(g.subs)},
              last |-> {LastOf(g.subs[i]) : i \in 1 .. Len(g.subs)},
              top |-> g.segfree]

\* Subareas lie one behind the other in the segment.
AreasApart(g) ==
  /\ g.subs \in Seq(Subarea)
  /\ g.segfree \in Nat /\ 0 < g.segfree /\ g.segfree <= SegmentSize
  /\ \A i \in 1 .. Len(g.subs) : /\ g.subs[i].size >= MinimalSubarea
                                 /\ g.subs[i].offset + g.subs[i].size <= g.segfree
  /\ \A i, j \in 1 .. Len(g.subs) :
       i < j => g.subs[i].offset + g.subs[i].size <= g.subs[j].offset

HeapOK(g, r, m) ==
  /\ IsHeap(g) /\ AreasApart(g) /\ Lists(g, r, m)
  /\ Tidy(g.head, g.dv, g.dvsize, Bounds(g))
Good(g) == \E r, m : HeapOK(g, r, m)

\* g becomes k when an object of n gints is placed at a.
Allocated(g, k, a, n) ==
  /\ Good(k) /\ a \notin DOMAIN ObjectsOf(g.head)
  /\ ObjectsOf(k.head) = Put(ObjectsOf(g.head), a, UsedSize(n))

\* There is a bucket for all that the segment holds.
LEMMA SizeFits ==
  ASSUME NEW size \in 0 .. SegmentSize
  PROVE  /\ VarBuckets(size) # {} /\ BucketIndex(size) \in Buckets
         /\ BucketIndex(size) < ExactNr => BucketIndex(size) = size
<1>1. size \in Nat
  BY SizesAssumption
<1>2. VarBuckets(size) # {}
  BY BucketsAssumption
<1> QED
  BY <1>1, <1>2, BucketOf

\* Every block is shorter than the segment.
LEMMA BlockFits ==
  ASSUME NEW g, NEW r, NEW m, HeapOK(g, r, m), NEW a \in DOMAIN g.head
  PROVE  RealSize(g.head[a]) \in 0 .. SegmentSize
<1> DEFINE t == Bounds(g)
<1>1. t.top = g.segfree /\ g.segfree \in Nat /\ g.segfree <= SegmentSize
  BY DEF HeapOK, AreasApart, Bounds
<1>2. Tidy(g.head, g.dv, g.dvsize, t)
  BY DEF HeapOK
<1> HIDE DEF t
<1>3. /\ a \in Nat /\ EndsOf(g.head)[a] = a + RealSize(g.head[a]) /\ EndsOf(g.head)[a] <= t.top
      /\ RealSize(g.head[a]) \in Nat
  BY <1>2, TidyIs
<1> QED
  BY <1>1, <1>3, SizesAssumption

\* What can be merged has been merged.
LEMMA VacantQuiet ==
  ASSUME NEW H, NEW dv, NEW size, NEW t, Tidy(H, dv, size, t),
         NEW a \in DOMAIN H, Vacant(H, dv, a)
  PROVE  a \notin t.first \cup t.last /\ PrevQuiet(H, dv, t, a) /\ NextQuiet(H, dv, a)
<1>1. a \notin t.first \cup t.last
  BY DEF Tidy, Tagged, Vacant
<1>2. NextQuiet(H, dv, a)
  BY <1>1 DEF Tidy, Tagged, NextQuiet
<1>3. PrevQuiet(H, dv, t, a)
  BY DEF Tidy, Tagged, PrevQuiet
<1> QED
  BY <1>1, <1>2, <1>3

\* What a free block is.
LEMMA FreeIs ==
  ASSUME NEW g, NEW r, NEW m, HeapOK(g, r, m), NEW a \in FreeOf(g.head)
  PROVE  LET t == Bounds(g)
             b == a + g.head[a].size
         IN  /\ a \in DOMAIN g.head /\ a \in Nat \ {0} /\ a # g.dv
             /\ a \notin t.first \cup t.last
             /\ g.head[a] = [size |-> g.head[a].size, mark |-> "free"]
             /\ g.head[a].size \in Nat /\ g.head[a].size >= MinObj
             /\ RealSize(g.head[a]) = g.head[a].size
             /\ b = EndsOf(g.head)[a] /\ b \in DOMAIN g.head \ t.first /\ b # a
             /\ PrevQuiet(g.head, g.dv, t, a) /\ NextQuiet(g.head, g.dv, a)
             /\ IsUsed(g.head[b]) => g.head[b].mark = "prevfree"
             /\ ~ Vacant(g.head, g.dv, b) /\ a \notin DOMAIN ObjectsOf(g.head)
<1> DEFINE H == g.head
           t == Bounds(g)
           b == a + H[a].size
<1>1. Tidy(H, g.dv, g.dvsize, t)
  BY DEF HeapOK
<1>2. a \in DOMAIN H /\ H[a].mark = "free"
  BY DEF FreeOf
<1> HIDE DEF H, t
<1>3. /\ H[a] \in Block /\ a \in Nat \ {0} /\ EndsOf(H)[a] = a + RealSize(H[a])
      /\ RealSize(H[a]) \in Nat /\ RealSize(H[a]) >= MinObj
      /\ g.dv # 0 => H[g.dv].mark = "special"
  BY <1>1, <1>2, TidyIs
<1>4. a # g.dv
  BY <1>2, <1>3
<1>5. Vacant(H, g.dv, a)
  BY <1>2 DEF Vacant
<1>6. a \notin t.first \cup t.last /\ PrevQuiet(H, g.dv, t, a) /\ NextQuiet(H, g.dv, a)
  BY <1>1, <1>2, <1>5, VacantQuiet
<1>7. ~ IsUsed(H[a]) /\ RealSize(H[a]) = H[a].size /\ H[a].size \in Nat
      /\ H[a] = [size |-> H[a].size, mark |-> "free"]
  BY <1>2, <1>3, BlockIs DEF IsUsed
<1>8. b = EndsOf(H)[a]
  BY <1>3, <1>7
<1> HIDE DEF b
<1>9. /\ b \in DOMAIN H \ t.first /\ b # a
      /\ Vacant(H, g.dv, a) => ~ Vacant(H, g.dv, b)
      /\ IsUsed(H[b]) => (H[b].mark = "prevfree" <=> H[a].mark = "free")
  BY <1>1, <1>2, <1>6, <1>8, NextIs
<1>10. a \notin DOMAIN ObjectsOf(H)
  BY <1>7 DEF ObjectsOf
<1> QED
  BY <1>2, <1>3, <1>4, <1>5, <1>6, <1>7, <1>8, <1>9, <1>10 DEF H, t, b

\* A free block of the right size becomes an object.
LEMMA ExactTaken ==
  ASSUME NEW g, Good(g), NEW n \in Lengths, NEW a \in FreeOf(g.head),
         g.head[a].size = UsedSize(n),
         NEW k, k = PutHead(TakeExact(g, a, UsedSize(n)), a, n, "used")
  PROVE  Allocated(g, k, a, n)
<1> DEFINE H == g.head
           t == Bounds(g)
           b == a + H[a].size
           u == Unlink(g, a)
           v == MarkNext(u, b, "used")
<1>1. PICK r, m : HeapOK(g, r, m)
  BY DEF Good
<1>2. /\ a \in DOMAIN H /\ a \in Nat \ {0} /\ a # g.dv /\ a \notin t.first \cup t.last
      /\ H[a].size \in Nat /\ RealSize(H[a]) = H[a].size
      /\ b \in DOMAIN H \ t.first /\ b # a /\ PrevQuiet(H, g.dv, t, a)
      /\ a \notin DOMAIN ObjectsOf(H)
  BY <1>1, FreeIs
<1>3. IsHeap(g) /\ Tidy(H, g.dv, g.dvsize, t) /\ Lists(g, r, m) /\ H \in [DOMAIN H -> Block]
  BY <1>1 DEF HeapOK, Tidy
<1>4. /\ IsHeap(u) /\ SameVictim(g, u) /\ SameAreas(g, u) /\ u.head = Without(H, a)
  BY <1>3, UnlinkHead
<1>5. Lists(u, r, m)
  BY <1>3, Unlinked
<1> HIDE DEF u
<1>6. /\ b \in DOMAIN u.head /\ DOMAIN u.head = DOMAIN H \ {a} /\ u.head \in [DOMAIN u.head -> Block]
      /\ \A x \in DOMAIN H \ {a} : u.head[x] = H[x]
  BY <1>2, <1>3, <1>4 DEF Without, Restrict
<1> HIDE DEF b, H, t
<1> HIDE DEF v
<1>7. /\ IsHeap(v) /\ SameLinks(u, v) /\ SameVictim(u, v) /\ SameAreas(u, v)
      /\ DOMAIN v.head = DOMAIN u.head /\ v.head[b] = Marked(u.head[b], "used")
      /\ \A x \in DOMAIN u.head \ {b} : v.head[x] = u.head[x]
  BY <1>4, <1>6, MarkNextIs DEF v
<1>8. k = PutHead(v, a, n, "used")
  BY DEF u, v, b, H, TakeExact
<1>9. /\ IsHeap(k) /\ SameLinks(v, k) /\ SameVictim(v, k) /\ SameAreas(v, k)
      /\ k.head = Put(v.head, a, [size |-> n, mark |-> "used"])
  BY <1>7, <1>8, PutHeadIs
<1>10. n \in Nat
  BY SizesAssumption
<1>11. [size |-> n, mark |-> "used"] \in Block /\ Marked(u.head[b], "used") \in Block
  BY <1>2, <1>6, <1>10, MarkedIs DEF Block, Marks
<1>12. k.head \in [DOMAIN H -> Block]
  <2>1. DOMAIN k.head = DOMAIN H
    BY <1>2, <1>6, <1>7, <1>9 DEF Put
  <2>2. k.head = [x \in DOMAIN H |-> k.head[x]]
    BY <1>2, <1>6, <1>7, <1>9 DEF Put
  <2>3. \A x \in DOMAIN H : k.head[x] \in Block
    BY <1>2, <1>6, <1>7, <1>9, <1>11 DEF Put
  <2> QED
    BY <2>2, <2>3
<1>13. /\ k.head[a] = [size |-> n, mark |-> "used"] /\ k.head[b] = Marked(H[b], "used")
       /\ \A x \in DOMAIN H \ {a, b} : k.head[x] = H[x]
  BY <1>2, <1>6, <1>7, <1>9 DEF Put
<1>14. IsUsed(k.head[a]) /\ k.head[a].mark = "used" /\ RealSize(k.head[a]) = UsedSize(n)
  BY <1>13 DEF IsUsed, RealSize
<1> DEFINE K == k.head
<1>15. \A x \in DOMAIN H \ {a} : x = g.dv <=> x = g.dv
  OBVIOUS
<1>16. ~ Vacant(K, g.dv, a)
  BY <1>2, <1>14 DEF Vacant
<1>17. VictimIs(K, g.dv, g.dvsize)
  <2>1. VictimIs(H, g.dv, g.dvsize)
    BY <1>3 DEF Tidy
  <2>2. ASSUME g.dv \in DOMAIN H, H[g.dv] = [size |-> g.dvsize, mark |-> "special"]
        PROVE  K[g.dv] = H[g.dv]
    <3>1. ~ IsUsed(H[g.dv])
      BY <2>2 DEF IsUsed
    <3>2. Marked(H[g.dv], "used") = H[g.dv]
      BY <3>1 DEF Marked
    <3> QED
      BY <1>2, <1>13, <3>2, <2>2
  <2>3. DOMAIN K = DOMAIN H
    BY <1>12
  <2> QED
    BY <2>1, <2>2, <2>3 DEF VictimIs
<1> DEFINE told == IF K[a].mark = "free" THEN "prevfree" ELSE "used"
<1>18. /\ b = a + RealSize(H[a]) /\ RealSize(K[a]) = RealSize(H[a])
       /\ b \in DOMAIN H => K[b] = Marked(H[b], told)
  BY <1>2, <1>13, <1>14, g.head[a].size = UsedSize(n) DEF b, H
<1>19. /\ Tidy(K, g.dv, g.dvsize, t)
       /\ ObjectsOf(K) = IF IsUsed(K[a]) THEN Put(ObjectsOf(H), a, RealSize(H[a]))
                         ELSE Without(ObjectsOf(H), a)
  <2> HIDE DEF K, H, t
  <2>1. K \in [DOMAIN H -> Block] /\ \A x \in DOMAIN H \ {a, b} : K[x] = H[x]
    BY <1>12, <1>13 DEF K, H
  <2>2. Vacant(K, g.dv, a) => PrevQuiet(H, g.dv, t, a) /\ NextQuiet(H, g.dv, a)
    BY <1>16
  <2>3. IsUsed(K[a]) => K[a].mark = "used" /\ PrevQuiet(H, g.dv, t, a)
    BY <1>2, <1>14 DEF K
  <2> QED
    BY <1>2, <1>3, <1>15, <1>17, <1>18, <2>1, <2>2, <2>3, Remarked
<1>20. Lists(k, r, m)
  <2>1. SameLinks(u, k)
    BY <1>7, <1>9 DEF SameLinks
  <2>2. \A x \in DOMAIN u.head : u.head[x].mark = "free" <=> k.head[x].mark = "free"
    <3> TAKE x \in DOMAIN u.head
    <3>1. u.head[x] = H[x] /\ x # a /\ x \in DOMAIN H /\ H[x] \in Block
      BY <1>6
    <3>2. Marked(H[x], "used").mark = "free" <=> H[x].mark = "free"
      BY <3>1, MarkedIs DEF IsUsed
    <3> QED
      BY <1>13, <3>1, <3>2
  <2>2a. \A x \in DOMAIN u.head : u.head[x].mark = "free" => k.head[x] = u.head[x]
    <3> TAKE x \in DOMAIN u.head
    <3> HAVE u.head[x].mark = "free"
    <3>1. ~ IsUsed(H[x]) /\ x # a /\ x \in DOMAIN H /\ u.head[x] = H[x]
      BY <1>6 DEF IsUsed
    <3>2. Marked(H[x], "used") = H[x]
      BY <3>1 DEF Marked
    <3> QED
      BY <1>13, <3>1, <3>2
  <2>3. FreeOf(k.head) = FreeOf(u.head)
    BY <1>6, <1>12, <1>14, <2>2 DEF FreeOf
  <2>4. \A x \in FreeOf(u.head) : k.head[x] = u.head[x]
    BY <2>2a DEF FreeOf
  <2> QED
    BY <1>5, <2>1, <2>3, <2>4, ListsKept
<1>21. k.dv = g.dv /\ k.dvsize = g.dvsize /\ k.subs = g.subs /\ k.segfree = g.segfree
  BY <1>4, <1>7, <1>9 DEF SameVictim, SameAreas
<1>22. HeapOK(k, r, m)
  <2>1. Tidy(k.head, k.dv, k.dvsize, Bounds(k))
    BY <1>19, <1>21 DEF Bounds, t
  <2> QED
    BY <1>1, <1>9, <1>20, <1>21, <2>1 DEF HeapOK, AreasApart
<1>23. ObjectsOf(k.head) = Put(ObjectsOf(H), a, UsedSize(n))
  BY <1>14, <1>18, <1>19
<1> QED
  BY <1>2, <1>22, <1>23 DEF Allocated, Good, H

-----------------------------------------------------------------------------
(* wg_alloc_gints, from the blocks to the buckets.                           *)

\* Where the victim stays behind when block a is no longer vacant.
NoVictim(dv, a) == IF dv = a THEN 0 ELSE dv

\* A vacant block that is no longer vacant, and is not in use yet.
LEMMA Quieted ==
  ASSUME NEW H, NEW dv, NEW size, NEW t, Tidy(H, dv, size, t),
         NEW a \in DOMAIN H, Vacant(H, dv, a), NEW b, b = EndsOf(H)[a],
         NEW K \in [DOMAIN H -> Block],
         K[a] = [size |-> RealSize(H[a]), mark |-> "special"],
         K[b] = Marked(H[b], "used"),
         \A x \in DOMAIN H \ {a, b} : K[x] = H[x],
         NEW dv2, dv2 = NoVictim(dv, a), NEW size2, size2 = IF dv = a THEN 0 ELSE size
  PROVE  /\ Tidy(K, dv2, size2, t) /\ EndsOf(K) = EndsOf(H) /\ ObjectsOf(K) = ObjectsOf(H)
         /\ \A x \in DOMAIN H \ {a} : Vacant(K, dv2, x) <=> Vacant(H, dv, x)
         /\ a \notin t.first \cup t.last /\ a # dv2
         /\ PrevQuiet(K, dv2, t, a) /\ NextQuiet(K, dv2, a)
         /\ b \in DOMAIN H \ t.first /\ b # a /\ ~ Vacant(H, dv, b)
         /\ IsUsed(H[b]) => (H[b].mark = "prevfree" <=> H[a].mark = "free")
<1>1. /\ H[a] \in Block /\ a \in Nat \ {0} /\ b = a + RealSize(H[a]) /\ RealSize(H[a]) \in Nat
      /\ \A x \in DOMAIN H : x \in Nat \ {0}
  BY TidyIs
<1>2. dv # 0 => dv \in DOMAIN H /\ H[dv].mark = "special"
  BY TidyIs
<1>3. a \notin t.first \cup t.last /\ PrevQuiet(H, dv, t, a) /\ NextQuiet(H, dv, a)
  BY VacantQuiet
<1>4. ~ IsUsed(H[a])
  BY <1>2, <1>1 DEF Vacant, IsUsed
<1>5. /\ b \in DOMAIN H \ t.first /\ b # a /\ ~ Vacant(H, dv, b)
      /\ IsUsed(H[b]) => (H[b].mark = "prevfree" <=> H[a].mark = "free")
  BY <1>3, NextIs
<1>6. ~ IsUsed(K[a]) /\ K[a].mark = "special" /\ RealSize(K[a]) = RealSize(H[a])
  BY DEF IsUsed, RealSize
<1>7. /\ \A x \in DOMAIN H \ {a} : x = dv2 <=> x = dv
      /\ dv2 # a
  BY <1>1 DEF NoVictim
<1>8. VictimIs(K, dv2, size2)
  <2>1. CASE dv = a
    BY <2>1 DEF VictimIs, NoVictim
  <2>2. CASE dv # a /\ dv = 0
    <3>1. size = 0
      BY <2>2, TidyIs
    <3> QED
      BY <2>2, <3>1 DEF VictimIs, NoVictim
  <2>3. CASE dv # a /\ dv # 0
    <3>1. dv \in DOMAIN H /\ dv # b
      BY <1>2, <1>5, <2>3 DEF Vacant
    <3>2. K[dv] = H[dv]
      BY <2>3, <3>1
    <3>3. VictimIs(H, dv, size)
      BY DEF Tidy
    <3>4. dv2 = dv /\ size2 = size
      BY <2>3 DEF NoVictim
    <3> QED
      BY <2>3, <3>1, <3>2, <3>3, <3>4 DEF VictimIs
  <2> QED
    BY <2>1, <2>2, <2>3
<1>9. ~ Vacant(K, dv2, a)
  BY <1>6, <1>7 DEF Vacant
<1>10. /\ Tidy(K, dv2, size2, t) /\ EndsOf(K) = EndsOf(H)
       /\ \A x \in DOMAIN H \ {a} : Vacant(K, dv2, x) <=> Vacant(H, dv, x)
       /\ ObjectsOf(K) = IF IsUsed(K[a]) THEN Put(ObjectsOf(H), a, RealSize(H[a]))
                         ELSE Without(ObjectsOf(H), a)
  <2> DEFINE told == IF K[a].mark = "free" THEN "prevfree" ELSE "used"
  <2>1. b \in DOMAIN H => K[b] = Marked(H[b], told)
    BY <1>6
  <2>2. Vacant(K, dv2, a) => PrevQuiet(H, dv, t, a) /\ NextQuiet(H, dv, a)
    BY <1>3
  <2>3. IsUsed(K[a]) => K[a].mark = "used" /\ PrevQuiet(H, dv, t, a)
    BY <1>6
  <2> QED
    BY <1>1, <1>3, <1>6, <1>7, <1>8, <2>1, <2>2, <2>3, Remarked
<1>11. ObjectsOf(K) = ObjectsOf(H)
  <2>1. Without(ObjectsOf(H), a) = ObjectsOf(H)
    BY <1>4 DEF Without, Restrict, ObjectsOf
  <2> QED
    BY <1>6, <1>10, <2>1
<1>12. PrevQuiet(K, dv2, t, a)
  BY <1>3, <1>5, <1>10 DEF PrevQuiet
<1>13. NextQuiet(K, dv2, a)
  BY <1>3, <1>5, <1>10 DEF NextQuiet
<1> QED
  BY <1>3, <1>5, <1>7, <1>10, <1>11, <1>12, <1>13

\* The front of a vacant block becomes an object, what is left stays vacant.
LEMMA SplitVacant ==
  ASSUME NEW H, NEW dv, NEW size, NEW t, Tidy(H, dv, size, t),
         NEW a \in DOMAIN H, Vacant(H, dv, a), NEW n \in Nat,
         NEW c, c = a + UsedSize(n),
         NEW z, z = RealSize(H[a]) - UsedSize(n), z \in Nat, z >= MinObj,
         NEW K \in [DOMAIN H \cup {c} -> Block],
         K[a] = [size |-> n, mark |-> "used"],
         K[c] = [size |-> z, mark |-> IF a = dv THEN "special" ELSE "free"],
         \A x \in DOMAIN H \ {a} : K[x] = H[x],
         NEW dv2, dv2 = (IF a = dv THEN c ELSE dv),
         NEW size2, size2 = (IF a = dv THEN z ELSE size)
  PROVE  /\ Tidy(K, dv2, size2, t) /\ c \notin DOMAIN H /\ c \in Nat \ {0}
         /\ c # dv /\ EndsOf(K)[c] = EndsOf(H)[a] /\ a \notin DOMAIN ObjectsOf(H)
         /\ ObjectsOf(K) = Put(ObjectsOf(H), a, UsedSize(n))
<1> DEFINE b == EndsOf(H)[a]
           dv1 == NoVictim(dv, a)
           size1 == IF dv = a THEN 0 ELSE size
           H1 == [x \in DOMAIN H |-> IF x = a THEN [size |-> RealSize(H[a]), mark |-> "special"]
                                     ELSE IF x = b THEN Marked(H[b], "used") ELSE H[x]]
           H2 == [x \in DOMAIN H \cup {c} |->
                    IF x = a THEN [size |-> n, mark |-> "used"]
                    ELSE IF x = c THEN [size |-> z, mark |-> "special"] ELSE H1[x]]
<1>1. /\ H[a] \in Block /\ a \in Nat \ {0} /\ b = a + RealSize(H[a])
      /\ RealSize(H[a]) \in Nat /\ RealSize(H[a]) >= MinObj /\ b \in Nat
      /\ \A x \in DOMAIN H : H[x] \in Block /\ x \in Nat \ {0} /\ EndsOf(H)[x] = x + RealSize(H[x])
                             /\ RealSize(H[x]) \in Nat /\ RealSize(H[x]) >= MinObj
      /\ DOMAIN EndsOf(H) = DOMAIN H
  BY TidyIs
<1>2. /\ dv # 0 => dv \in DOMAIN H /\ H[dv].mark = "special" /\ H[dv].size = size
                   /\ RealSize(H[dv]) = size
      /\ dv = 0 => size = 0
  BY TidyIs
<1>3. a \notin t.first \cup t.last /\ PrevQuiet(H, dv, t, a) /\ NextQuiet(H, dv, a)
  BY VacantQuiet
<1>4. ~ IsUsed(H[a]) /\ a \notin DOMAIN ObjectsOf(H)
  BY <1>2, <1>1 DEF Vacant, IsUsed, ObjectsOf
<1>5. /\ b \in DOMAIN H \ t.first /\ b # a /\ ~ Vacant(H, dv, b)
      /\ IsUsed(H[b]) => (H[b].mark = "prevfree" <=> H[a].mark = "free")
  <2> HIDE DEF b
  <2>1. b = EndsOf(H)[a]
    BY DEF b
  <2> QED
    BY <1>3, <2>1, NextIs
<1>6. UsedSize(n) \in Nat /\ UsedSize(n) >= MinObj
  BY UsedSizeIs
<1>7. c \in Nat \ {0} /\ a + MinObj <= c /\ c + z = b
  BY <1>1, <1>6 DEF MinObj
<1> HIDE DEF b
<1>8. Marked(H[b], "used") \in Block /\ RealSize(Marked(H[b], "used")) = RealSize(H[b])
      /\ (IsUsed(Marked(H[b], "used")) <=> IsUsed(H[b]))
  BY <1>1, <1>5, MarkedIs
<1>9. [size |-> RealSize(H[a]), mark |-> "special"] \in Block
  BY <1>1 DEF Block, Marks
<1>10. H1 \in [DOMAIN H -> Block] /\ H1[a] = [size |-> RealSize(H[a]), mark |-> "special"]
       /\ H1[b] = Marked(H[b], "used") /\ \A x \in DOMAIN H \ {a, b} : H1[x] = H[x]
  BY <1>1, <1>5, <1>8, <1>9
<1> HIDE DEF H1
<1>11. ~ IsUsed(H1[a]) /\ H1[a].mark = "special" /\ RealSize(H1[a]) = RealSize(H[a])
  BY <1>10 DEF IsUsed, RealSize
<1>12. /\ \A x \in DOMAIN H \ {a} : x = dv1 <=> x = dv
       /\ dv1 # a
  BY <1>1 DEF NoVictim
<1>13. /\ Tidy(H1, dv1, size1, t) /\ EndsOf(H1) = EndsOf(H)
       /\ PrevQuiet(H1, dv1, t, a) /\ NextQuiet(H1, dv1, a)
  <2>1. b = EndsOf(H)[a] /\ dv1 = NoVictim(dv, a) /\ size1 = IF dv = a THEN 0 ELSE size
    BY DEF b
  <2> HIDE DEF dv1, size1
  <2> QED
    BY <1>10, <2>1, Quieted
<1> HIDE DEF dv1, size1
<1>17. [size |-> n, mark |-> "used"] \in Block /\ [size |-> z, mark |-> "special"] \in Block
  BY DEF Block, Marks
<1>17a. c # a
  BY <1>1, <1>7
<1>18. /\ H2 \in [DOMAIN H1 \cup {c} -> Block]
       /\ H2[a] = [size |-> n, mark |-> "used"] /\ H2[c] = [size |-> z, mark |-> "special"]
  BY <1>10, <1>17, <1>17a
<1>18a. \A x \in DOMAIN H1 \ {a} : x # c => H2[x] = H1[x]
  BY <1>10
<1> HIDE DEF H2
<1>19. /\ IsUsed(H2[a]) /\ RealSize(H2[a]) = UsedSize(n) /\ H2[a].mark = "used"
       /\ ~ IsUsed(H2[c]) /\ RealSize(H2[c]) = z /\ H2[c].mark = "special"
  BY <1>18 DEF IsUsed, RealSize
<1>20. c \notin DOMAIN H
  <2>1. SUFFICES ASSUME c \in DOMAIN H PROVE FALSE
    OBVIOUS
  <2>2. EndsOf(H)[a] <= c
    <3>1. Laid(EndsOf(H), t.top)
      BY DEF Tidy
    <3>2. c > a
      BY <1>1, <1>7 DEF MinObj
    <3> QED
      BY <1>1, <2>1, <3>1, <3>2 DEF Laid
  <2> QED
    BY <1>7, <2>2 DEF b, MinObj
<1>21. /\ Tidy(H2, dv1, size1, t) /\ c # dv1 /\ EndsOf(H2)[c] = EndsOf(H1)[a]
       /\ PrevQuiet(H2, dv1, t, c) /\ NextQuiet(H2, dv1, c)
  <2>1. \A x \in DOMAIN H1 \ {a} : H2[x] = H1[x]
    BY <1>10, <1>18a, <1>20
  <2>2. a \in DOMAIN H1 /\ a # dv1
    BY <1>10, <1>12
  <2>3. a + RealSize(H2[a]) = c /\ c + RealSize(H2[c]) = a + RealSize(H1[a])
    BY <1>1, <1>7, <1>11, <1>19
  <2>4. RealSize(H2[a]) >= MinObj /\ RealSize(H2[c]) >= MinObj
    BY <1>6, <1>19
  <2> QED
    BY <1>3, <1>7, <1>11, <1>13, <1>18, <1>19, <2>1, <2>2, <2>3, <2>4, SplitTidy
<1>22. c # dv
  BY <1>2, <1>7, <1>20
<1>23. DOMAIN H1 = DOMAIN H /\ DOMAIN H2 = DOMAIN H \cup {c} /\ b # c
  BY <1>5, <1>10, <1>18, <1>20
<1>24. /\ ~ IsUsed(K[c]) /\ RealSize(K[c]) = z /\ K[c].size = z
       /\ K[c].mark = (IF a = dv THEN "special" ELSE "free")
       /\ IsUsed(K[a]) /\ K[a].size = n
  BY DEF IsUsed, RealSize
<1> DEFINE told == IF K[c].mark = "free" THEN "prevfree" ELSE "used"
<1>25. K[b] = Marked(H2[b], told)
  <2>1. K[b] = H[b] /\ H2[b] = Marked(H[b], "used")
    BY <1>5, <1>10, <1>18a, <1>23
  <2>2. CASE ~ IsUsed(H[b])
    BY <2>1, <2>2 DEF Marked
  <2>3. CASE IsUsed(H[b])
    <3>1. H2[b] = [size |-> H[b].size, mark |-> "used"]
      BY <2>1, <2>3 DEF Marked
    <3>2. Marked(H2[b], told) = [size |-> H[b].size, mark |-> told]
      BY <3>1 DEF Marked, IsUsed
    <3>3. H[b].mark = told
      <4>1. CASE a = dv
        <5>1. H[a].mark = "special"
          BY <1>1, <1>2, <4>1
        <5>2. H[b].mark # "prevfree"
          BY <1>5, <2>3, <5>1
        <5> QED
          BY <1>24, <2>3, <4>1, <5>2 DEF IsUsed
      <4>2. CASE a # dv
        <5>1. H[a].mark = "free"
          BY <4>2 DEF Vacant
        <5> QED
          BY <1>5, <1>24, <2>3, <4>2, <5>1
      <4> QED
        BY <4>1, <4>2
    <3>4. H[b] = [size |-> H[b].size, mark |-> H[b].mark]
      BY <1>1, <1>5, BlockIs
    <3> QED
      BY <2>1, <3>2, <3>3, <3>4
  <2> QED
    BY <2>2, <2>3
<1>26. VictimIs(K, dv2, size2)
  <2>1. CASE a = dv
    BY <2>1 DEF VictimIs
  <2>2. CASE a # dv
    <3>1. VictimIs(H, dv, size)
      BY DEF Tidy
    <3>2. dv \in DOMAIN H => K[dv] = H[dv]
      BY <2>2
    <3> QED
      BY <2>2, <3>1, <3>2 DEF VictimIs
  <2> QED
    BY <2>1, <2>2
<1>27. \A x \in DOMAIN H2 \ {c} : x = dv2 <=> x = dv1
  <2> TAKE x \in DOMAIN H2 \ {c}
  <2>1. CASE a = dv
    BY <2>1, <1>1, <1>23 DEF dv1, NoVictim
  <2>2. CASE a # dv
    BY <2>2 DEF dv1, NoVictim
  <2> QED
    BY <2>1, <2>2
<1>28. \A x \in DOMAIN H2 \ {c, b} : K[x] = H2[x]
  <2> TAKE x \in DOMAIN H2 \ {c, b}
  <2>1. x \in DOMAIN H
    BY <1>23
  <2>2. CASE x = a
    BY <1>18, <2>2
  <2>3. CASE x # a
    BY <1>10, <1>18a, <1>23, <2>1, <2>3
  <2> QED
    BY <2>2, <2>3
<1>29. Tidy(K, dv2, size2, t) /\ EndsOf(K) = EndsOf(H2)
  <2>1. b \in DOMAIN H2 => K[b] = Marked(H2[b], told)
    BY <1>25
  <2>2. Vacant(K, dv2, c) => PrevQuiet(H2, dv1, t, c) /\ NextQuiet(H2, dv1, c)
    BY <1>21
  <2>3. IsUsed(K[c]) => K[c].mark = "used" /\ PrevQuiet(H2, dv1, t, c)
    BY <1>24
  <2>4. b = c + RealSize(H2[c]) /\ RealSize(K[c]) = RealSize(H2[c]) /\ c \in DOMAIN H2
    BY <1>7, <1>19, <1>23, <1>24
  <2>5. c \notin t.first \cup t.last /\ K \in [DOMAIN H2 -> Block]
    <3>1. t.first \cup t.last \subseteq DOMAIN H
      BY TidyIs
    <3> QED
      BY <3>1, <1>20, <1>23
  <2> QED
    BY <1>21, <1>26, <1>27, <1>28, <2>1, <2>2, <2>3, <2>4, <2>5, Remarked
<1>30. EndsOf(K)[c] = EndsOf(H)[a]
  BY <1>13, <1>21, <1>29
<1>31. ObjectsOf(K) = Put(ObjectsOf(H), a, UsedSize(n))
  <2>1. {x \in DOMAIN K : IsUsed(K[x])} = {x \in DOMAIN H : IsUsed(H[x])} \cup {a}
    BY <1>20, <1>24
  <2>2. \A x \in {y \in DOMAIN H : IsUsed(H[y])} : x # a /\ K[x] = H[x]
    BY <1>4
  <2> QED
    BY <1>24, <2>1, <2>2 DEF ObjectsOf, Put
<1> QED
  BY <1>4, <1>7, <1>20, <1>22, <1>29, <1>30, <1>31

\* No other free block ends where a block does.
LEMMA EndsAlone ==
  ASSUME NEW g, NEW r, NEW m, HeapOK(g, r, m), NEW a \in DOMAIN g.head,
         NEW x \in FreeOf(g.head), x # a
  PROVE  EndOf(g, x) # a + RealSize(g.head[a])
<1> DEFINE H == g.head
           t == Bounds(g)
<1>1. Tidy(H, g.dv, g.dvsize, t)
  BY DEF HeapOK
<1>2. x \in DOMAIN H /\ EndOf(g, x) = EndsOf(H)[x]
  BY FreeIs DEF EndOf
<1>3. Laid(EndsOf(H), t.top)
  BY <1>1 DEF Tidy
<1>4. EndsOf(H)[a] = a + RealSize(H[a]) /\ DOMAIN EndsOf(H) = DOMAIN H
  BY DEF EndsOf
<1> HIDE DEF t
<1>5. EndsOf(H)[x] # EndsOf(H)[a]
  BY <1>2, <1>3, <1>4, EndsDiffer
<1> QED
  BY <1>2, <1>4, <1>5

\* A free block that is too long becomes an object and a free block.
LEMMA SplitTaken ==
  ASSUME NEW g, Good(g), NEW n \in Lengths, NEW a \in FreeOf(g.head),
         g.head[a].size >= UsedSize(n) + MinObj,
         NEW k, k = PutHead(SplitFree(g, a, UsedSize(n)), a, n, "used")
  PROVE  Allocated(g, k, a, n)
<1> DEFINE H == g.head
           t == Bounds(g)
           c == a + UsedSize(n)
           z == H[a].size - UsedSize(n)
           u == Unlink(g, a)
           v == PushFree(u, c, z)
<1>1. PICK r, m : HeapOK(g, r, m)
  BY DEF Good
<1>2. /\ a \in DOMAIN H /\ a \in Nat \ {0} /\ a # g.dv
      /\ H[a].size \in Nat /\ RealSize(H[a]) = H[a].size
      /\ a \notin DOMAIN ObjectsOf(H)
  BY <1>1, FreeIs
<1>3. IsHeap(g) /\ Tidy(H, g.dv, g.dvsize, t) /\ Lists(g, r, m) /\ H \in [DOMAIN H -> Block]
  BY <1>1 DEF HeapOK, Tidy
<1>4. n \in Nat /\ UsedSize(n) \in Nat /\ UsedSize(n) >= MinObj
  BY UsedSizeIs, SizesAssumption
<1>5. z \in Nat /\ z >= MinObj /\ c \in Nat /\ c # a /\ c + z = a + H[a].size /\ z <= H[a].size
  BY <1>2, <1>4 DEF MinObj
<1>6. z \in 0 .. SegmentSize
  <2>1. H[a].size \in 0 .. SegmentSize
    BY <1>1, <1>2, BlockFits
  <2> QED
    BY <1>2, <1>5, <2>1, SizesAssumption
<1>7. k = PutHead(v, a, n, "used")
  BY DEF SplitFree
<1> HIDE DEF z, c
<1>8. IsHeap(u) /\ SameVictim(g, u) /\ SameAreas(g, u) /\ u.head = Without(H, a) /\ Lists(u, r, m)
  BY <1>3, UnlinkHead, Unlinked
<1> HIDE DEF u
<1>9. /\ IsHeap(v) /\ SameVictim(u, v) /\ SameAreas(u, v)
      /\ v.head = Put(u.head, c, [size |-> z, mark |-> "free"])
  BY <1>8, PushHead
<1>10. /\ DOMAIN u.head = DOMAIN H \ {a}
       /\ \A x \in DOMAIN H \ {a} : u.head[x] = H[x]
  BY <1>8 DEF Without, Restrict
<1>11. /\ IsHeap(k) /\ SameLinks(v, k) /\ SameVictim(v, k) /\ SameAreas(v, k)
       /\ k.head = Put(v.head, a, [size |-> n, mark |-> "used"])
  <2> HIDE DEF v
  <2> QED
    BY <1>7, <1>9, PutHeadIs
<1> DEFINE K == k.head
<1>12. /\ K[a] = [size |-> n, mark |-> "used"] /\ K[c] = [size |-> z, mark |-> "free"]
       /\ DOMAIN K = DOMAIN H \cup {c}
  BY <1>2, <1>5, <1>9, <1>10, <1>11 DEF Put
<1>12a. \A x \in DOMAIN H \ {a} : x # c => K[x] = H[x]
  BY <1>9, <1>10, <1>11 DEF Put
<1>13. K \in [DOMAIN H \cup {c} -> Block]
  <2>1. [size |-> n, mark |-> "used"] \in Block /\ [size |-> z, mark |-> "free"] \in Block
    BY <1>4, <1>5 DEF Block, Marks
  <2>2. K = [x \in DOMAIN H \cup {c} |-> K[x]]
    BY <1>11, <1>12 DEF Put
  <2>3. \A x \in DOMAIN H \cup {c} : K[x] \in Block
    <3> TAKE x \in DOMAIN H \cup {c}
    <3>1. CASE x = a \/ x = c
      BY <1>12, <2>1, <3>1
    <3>2. CASE x # a /\ x # c
      BY <1>3, <1>12a, <3>2
    <3> QED
      BY <3>1, <3>2
  <2> QED
    BY <2>2, <2>3
<1>14. c \notin DOMAIN H
  <2>1. SUFFICES ASSUME c \in DOMAIN H PROVE FALSE
    OBVIOUS
  <2>2. Laid(EndsOf(H), t.top) /\ EndsOf(H)[a] = a + H[a].size /\ DOMAIN EndsOf(H) = DOMAIN H
    BY <1>2, <1>3 DEF Tidy, EndsOf
  <2>3. a < c
    BY <1>2, <1>4, <1>5 DEF c, MinObj
  <2>4. EndsOf(H)[a] <= c
    BY <1>2, <2>1, <2>2, <2>3 DEF Laid
  <2> QED
    BY <1>2, <1>5, <2>2, <2>4 DEF MinObj
<1>15. Vacant(H, g.dv, a)
  BY DEF FreeOf, Vacant
<1>16. /\ Tidy(K, g.dv, g.dvsize, t)
       /\ ObjectsOf(K) = Put(ObjectsOf(H), a, UsedSize(n))
  <2> HIDE DEF K, H, t
  <2>1. c = a + UsedSize(n) /\ z = RealSize(H[a]) - UsedSize(n)
    BY <1>2 DEF c, z
  <2>2. \A x \in DOMAIN H \ {a} : K[x] = H[x]
    BY <1>12a, <1>14
  <2>3. /\ K[c] = [size |-> z, mark |-> IF a = g.dv THEN "special" ELSE "free"]
        /\ g.dv = (IF a = g.dv THEN c ELSE g.dv) /\ g.dvsize = (IF a = g.dv THEN z ELSE g.dvsize)
    BY <1>2, <1>12
  <2> QED
    BY <1>2, <1>3, <1>4, <1>5, <1>12, <1>13, <1>15, <2>1, <2>2, <2>3, SplitVacant
<1>17. Lists(v, [r EXCEPT ![c] = m], m + 1)
  <2>1. c \notin FreeOf(u.head)
    BY <1>10, <1>14 DEF FreeOf
  <2>2. BucketIndex(z) \in Buckets
    BY <1>6, SizeFits
  <2>3. \A x \in FreeOf(u.head) : EndOf(u, x) # c + z
    <3> TAKE x \in FreeOf(u.head)
    <3>1. x \in FreeOf(H) /\ x # a /\ EndOf(u, x) = EndOf(g, x)
      BY <1>10 DEF FreeOf, EndOf
    <3>2. EndOf(g, x) # a + RealSize(H[a])
      BY <1>1, <1>2, <3>1, EndsAlone
    <3> QED
      BY <1>2, <1>5, <3>1, <3>2
  <2>4. c \in Nat \ {0}
    BY <1>2, <1>4 DEF c, MinObj
  <2> QED
    BY <1>5, <1>8, <2>1, <2>2, <2>3, <2>4, Pushed
<1> HIDE DEF v
<1>18. Lists(k, [r EXCEPT ![c] = m], m + 1)
  <2>1. a \notin DOMAIN v.head /\ DOMAIN K = DOMAIN v.head \cup {a}
        /\ \A x \in DOMAIN v.head : K[x] = v.head[x]
    BY <1>5, <1>9, <1>10, <1>11 DEF Put
  <2>2. K[a].mark # "free"
    BY <1>12
  <2>3. FreeOf(K) = FreeOf(v.head)
    BY <2>1, <2>2 DEF FreeOf
  <2>4. \A x \in FreeOf(v.head) : K[x] = v.head[x]
    BY <2>1 DEF FreeOf
  <2> QED
    BY <1>11, <1>17, <2>3, <2>4, ListsKept
<1>19. k.dv = g.dv /\ k.dvsize = g.dvsize /\ k.subs = g.subs /\ k.segfree = g.segfree
  BY <1>8, <1>9, <1>11 DEF SameVictim, SameAreas
<1>20. HeapOK(k, [r EXCEPT ![c] = m], m + 1)
  <2>1. Tidy(k.head, k.dv, k.dvsize, Bounds(k))
    BY <1>16, <1>19 DEF Bounds, t
  <2> QED
    BY <1>1, <1>11, <1>18, <1>19, <2>1 DEF HeapOK, AreasApart
<1> QED
  BY <1>2, <1>16, <1>20 DEF Allocated, Good

\* What the victim is.
LEMMA VictimFacts ==
  ASSUME NEW g, NEW r, NEW m, HeapOK(g, r, m), g.dv # 0
  PROVE  LET t == Bounds(g)
             a == g.dv
             b == g.dv + g.dvsize
         IN  /\ a \in DOMAIN g.head /\ a \in Nat \ {0} /\ a \notin t.first \cup t.last
             /\ g.head[a] = [size |-> g.dvsize, mark |-> "special"]
             /\ g.dvsize \in Nat /\ g.dvsize >= MinObj /\ RealSize(g.head[a]) = g.dvsize
             /\ b = EndsOf(g.head)[a] /\ b \in DOMAIN g.head \ t.first /\ b # a
             /\ PrevQuiet(g.head, g.dv, t, a) /\ NextQuiet(g.head, g.dv, a)
             /\ IsUsed(g.head[b]) => g.head[b].mark = "used"
             /\ ~ Vacant(g.head, g.dv, b) /\ a \notin DOMAIN ObjectsOf(g.head)
             /\ a \notin FreeOf(g.head)
<1> DEFINE H == g.head
           t == Bounds(g)
           a == g.dv
           b == g.dv + g.dvsize
<1>1. Tidy(H, g.dv, g.dvsize, t)
  BY DEF HeapOK
<1>2. a \in DOMAIN H /\ H[a] = [size |-> g.dvsize, mark |-> "special"] /\ g.dvsize >= MinObj
  BY <1>1 DEF Tidy, VictimIs
<1> HIDE DEF H, t
<1>3. /\ H[a] \in Block /\ a \in Nat \ {0} /\ EndsOf(H)[a] = a + RealSize(H[a])
      /\ RealSize(H[a]) \in Nat /\ g.dvsize \in Nat
  BY <1>1, <1>2, TidyIs
<1>5. Vacant(H, g.dv, a)
  BY DEF Vacant
<1>6. a \notin t.first \cup t.last /\ PrevQuiet(H, g.dv, t, a) /\ NextQuiet(H, g.dv, a)
  BY <1>1, <1>2, <1>5, VacantQuiet
<1>7. ~ IsUsed(H[a]) /\ RealSize(H[a]) = g.dvsize /\ H[a].mark # "free"
  BY <1>2 DEF IsUsed, RealSize
<1>8. b = EndsOf(H)[a]
  BY <1>3, <1>7
<1> HIDE DEF b
<1>9. /\ b \in DOMAIN H \ t.first /\ b # a
      /\ Vacant(H, g.dv, a) => ~ Vacant(H, g.dv, b)
      /\ IsUsed(H[b]) => (H[b].mark = "prevfree" <=> H[a].mark = "free")
  BY <1>1, <1>2, <1>6, <1>8, NextIs
<1>9a. IsUsed(H[b]) => H[b].mark = "used"
  BY <1>7, <1>9 DEF IsUsed
<1>10. a \notin DOMAIN ObjectsOf(H) /\ a \notin FreeOf(H)
  BY <1>7 DEF ObjectsOf, FreeOf
<1> QED
  BY <1>2, <1>3, <1>5, <1>6, <1>7, <1>8, <1>9, <1>9a, <1>10 DEF H, t, b

\* The victim becomes an object.
LEMMA VictimTaken ==
  ASSUME NEW g, Good(g), NEW n \in Lengths, g.dv # 0, UsedSize(n) = g.dvsize,
         NEW k, k = PutHead(UseUpVictim(g), g.dv, n, "used")
  PROVE  Allocated(g, k, g.dv, n)
<1> DEFINE H == g.head
           t == Bounds(g)
           a == g.dv
           b == g.dv + g.dvsize
           u == UseUpVictim(g)
<1>1. PICK r, m : HeapOK(g, r, m)
  BY DEF Good
<1>2. /\ a \in DOMAIN H /\ a \in Nat \ {0} /\ a \notin t.first \cup t.last
      /\ RealSize(H[a]) = g.dvsize /\ b = a + g.dvsize /\ b \in DOMAIN H \ t.first /\ b # a
      /\ PrevQuiet(H, g.dv, t, a) /\ (IsUsed(H[b]) => H[b].mark = "used")
      /\ a \notin DOMAIN ObjectsOf(H) /\ a \notin FreeOf(H)
  BY <1>1, VictimFacts
<1>3. IsHeap(g) /\ Tidy(H, g.dv, g.dvsize, t) /\ Lists(g, r, m) /\ H \in [DOMAIN H -> Block]
  BY <1>1 DEF HeapOK, Tidy
<1>4. n \in Nat
  BY SizesAssumption
<1>5. /\ IsHeap(u) /\ SameLinks(g, u) /\ SameAreas(g, u) /\ u.head = H /\ u.dv = 0 /\ u.dvsize = 0
  BY <1>3 DEF UseUpVictim, IsHeap, SameLinks, SameAreas
<1> HIDE DEF u
<1>6. /\ IsHeap(k) /\ SameLinks(u, k) /\ SameVictim(u, k) /\ SameAreas(u, k)
      /\ k.head = Put(u.head, a, [size |-> n, mark |-> "used"])
  BY <1>5, PutHeadIs DEF u
<1> DEFINE K == k.head
<1>7. /\ K[a] = [size |-> n, mark |-> "used"] /\ K = [x \in DOMAIN H |-> K[x]]
      /\ \A x \in DOMAIN H \ {a} : K[x] = H[x]
  BY <1>2, <1>5, <1>6 DEF Put
<1>8. [size |-> n, mark |-> "used"] \in Block
  BY <1>4 DEF Block, Marks
<1>9. K \in [DOMAIN H -> Block]
  <2>1. \A x \in DOMAIN H : K[x] \in Block
    BY <1>3, <1>7, <1>8
  <2> QED
    BY <1>7, <2>1
<1> HIDE DEF H, K, t, b
<1>10. IsUsed(K[a]) /\ K[a].mark = "used" /\ RealSize(K[a]) = UsedSize(n)
  BY <1>7 DEF IsUsed, RealSize
<1>11. K[b] = Marked(H[b], "used")
  <2>1. H[b] \in Block
    BY <1>2, <1>3
  <2>2. H[b] = [size |-> H[b].size, mark |-> H[b].mark]
    BY <2>1, BlockIs
  <2> QED
    BY <1>2, <1>7, <2>2 DEF Marked
<1>12. Tidy(K, 0, 0, t) /\ ObjectsOf(K) = IF IsUsed(K[a]) THEN Put(ObjectsOf(H), a, RealSize(H[a]))
                                          ELSE Without(ObjectsOf(H), a)
  <2> DEFINE told == IF K[a].mark = "free" THEN "prevfree" ELSE "used"
  <2>1. b \in DOMAIN H => K[b] = Marked(H[b], told)
    BY <1>10, <1>11
  <2>2. Vacant(K, 0, a) => PrevQuiet(H, g.dv, t, a) /\ NextQuiet(H, g.dv, a)
    BY <1>2, <1>10 DEF Vacant
  <2>3. IsUsed(K[a]) => K[a].mark = "used" /\ PrevQuiet(H, g.dv, t, a)
    BY <1>2, <1>10
  <2>4. VictimIs(K, 0, 0)
    BY DEF VictimIs
  <2>5. \A x \in DOMAIN H \ {a} : x = 0 <=> x = g.dv
    BY <1>3, TidyIs
  <2>6. b = a + RealSize(H[a]) /\ RealSize(K[a]) = RealSize(H[a])
    BY <1>2, <1>10
  <2>7. \A x \in DOMAIN H \ {a, b} : K[x] = H[x]
    BY <1>7
  <2> QED
    BY <1>2, <1>3, <1>9, <2>1, <2>2, <2>3, <2>4, <2>5, <2>6, <2>7, Remarked
<1>13. Lists(k, r, m)
  <2>1. SameLinks(g, k)
    BY <1>5, <1>6 DEF SameLinks
  <2>2. FreeOf(K) = FreeOf(H)
    BY <1>2, <1>7, <1>9, <1>10 DEF FreeOf
  <2>3. \A x \in FreeOf(H) : K[x] = H[x]
    BY <1>2, <1>7 DEF FreeOf
  <2> QED
    BY <1>3, <2>1, <2>2, <2>3, ListsKept DEF K, H
<1>14. k.dv = 0 /\ k.dvsize = 0 /\ k.subs = g.subs /\ k.segfree = g.segfree
  BY <1>5, <1>6 DEF SameVictim, SameAreas
<1>15. HeapOK(k, r, m)
  <2>1. Tidy(k.head, k.dv, k.dvsize, Bounds(k))
    BY <1>12, <1>14 DEF Bounds, t, K
  <2> QED
    BY <1>1, <1>6, <1>13, <1>14, <2>1 DEF HeapOK, AreasApart
<1>16. ObjectsOf(k.head) = Put(ObjectsOf(H), a, UsedSize(n))
  BY <1>2, <1>10, <1>12 DEF K
<1> QED
  BY <1>2, <1>15, <1>16 DEF Allocated, Good, H

\* The front of the victim becomes an object.
LEMMA VictimShared ==
  ASSUME NEW g, Good(g), NEW n \in Lengths, g.dv # 0, UsedSize(n) + MinObj <= g.dvsize,
         NEW k, k = PutHead(SetVictim(g, g.dv + UsedSize(n), g.dvsize - UsedSize(n)), g.dv, n, "used")
  PROVE  Allocated(g, k, g.dv, n)
<1> DEFINE H == g.head
           t == Bounds(g)
           a == g.dv
           c == g.dv + UsedSize(n)
           z == g.dvsize - UsedSize(n)
           u == SetVictim(g, c, z)
<1>1. PICK r, m : HeapOK(g, r, m)
  BY DEF Good
<1>2. /\ a \in DOMAIN H /\ a \in Nat \ {0} /\ RealSize(H[a]) = g.dvsize /\ g.dvsize \in Nat
      /\ a \notin DOMAIN ObjectsOf(H) /\ a \notin FreeOf(H)
  BY <1>1, VictimFacts
<1>3. IsHeap(g) /\ Tidy(H, g.dv, g.dvsize, t) /\ Lists(g, r, m) /\ H \in [DOMAIN H -> Block]
  BY <1>1 DEF HeapOK, Tidy
<1>4. n \in Nat /\ UsedSize(n) \in Nat /\ UsedSize(n) >= MinObj
  BY UsedSizeIs, SizesAssumption
<1>5. z \in Nat /\ z >= MinObj /\ c \in Nat /\ c # a /\ c + z = a + g.dvsize
  BY <1>2, <1>4 DEF MinObj
<1>6. k = PutHead(u, a, n, "used")
  OBVIOUS
<1> HIDE DEF c, z
<1>7. /\ IsHeap(u) /\ SameLinks(g, u) /\ SameAreas(g, u)
      /\ u.head = Put(H, c, [size |-> z, mark |-> "special"]) /\ u.dv = c /\ u.dvsize = z
  BY <1>3, SetVictimIs
<1> HIDE DEF u
<1>8. /\ IsHeap(k) /\ SameLinks(u, k) /\ SameVictim(u, k) /\ SameAreas(u, k)
      /\ k.head = Put(u.head, a, [size |-> n, mark |-> "used"])
  BY <1>6, <1>7, PutHeadIs
<1> DEFINE K == k.head
<1>9. /\ K[a] = [size |-> n, mark |-> "used"] /\ K[c] = [size |-> z, mark |-> "special"]
      /\ DOMAIN K = DOMAIN H \cup {c} /\ K = [x \in DOMAIN K |-> K[x]]
  BY <1>2, <1>5, <1>7, <1>8 DEF Put
<1>10. \A x \in DOMAIN H \ {a} : x # c => K[x] = H[x]
  BY <1>7, <1>8 DEF Put
<1> HIDE DEF K
<1>11. K \in [DOMAIN H \cup {c} -> Block]
  <2>1. [size |-> n, mark |-> "used"] \in Block /\ [size |-> z, mark |-> "special"] \in Block
    BY <1>4, <1>5 DEF Block, Marks
  <2>2. \A x \in DOMAIN H \cup {c} : K[x] \in Block
    <3> TAKE x \in DOMAIN H \cup {c}
    <3>1. CASE x = a \/ x = c
      BY <1>9, <2>1, <3>1
    <3>2. CASE x # a /\ x # c
      BY <1>3, <1>10, <3>2
    <3> QED
      BY <3>1, <3>2
  <2> QED
    BY <1>9, <2>2
<1>12. c \notin DOMAIN H
  <2>1. SUFFICES ASSUME c \in DOMAIN H PROVE FALSE
    OBVIOUS
  <2>2. Laid(EndsOf(H), t.top) /\ EndsOf(H)[a] = a + g.dvsize /\ DOMAIN EndsOf(H) = DOMAIN H
    BY <1>2, <1>3 DEF Tidy, EndsOf
  <2>3. a < c
    BY <1>2, <1>4, <1>5 DEF c, MinObj
  <2>4. EndsOf(H)[a] <= c
    BY <1>2, <2>1, <2>2, <2>3 DEF Laid
  <2> QED
    BY <1>2, <1>5, <2>2, <2>4 DEF MinObj
<1>13. Vacant(H, g.dv, a)
  BY DEF Vacant
<1>14. Tidy(K, c, z, t) /\ ObjectsOf(K) = Put(ObjectsOf(H), a, UsedSize(n))
  <2> HIDE DEF H, t
  <2>1. c = a + UsedSize(n) /\ z = RealSize(H[a]) - UsedSize(n)
    BY <1>2 DEF c, z
  <2>2. \A x \in DOMAIN H \ {a} : K[x] = H[x]
    BY <1>10, <1>12
  <2>3. /\ K[c] = [size |-> z, mark |-> IF a = g.dv THEN "special" ELSE "free"]
        /\ c = (IF a = g.dv THEN c ELSE g.dv) /\ z = (IF a = g.dv THEN z ELSE g.dvsize)
    BY <1>9
  <2>4. /\ a \in DOMAIN H /\ Vacant(H, g.dv, a) /\ n \in Nat /\ z \in Nat /\ z >= MinObj
        /\ K \in [DOMAIN H \cup {c} -> Block] /\ K[a] = [size |-> n, mark |-> "used"]
    BY <1>2, <1>4, <1>5, <1>9, <1>11, <1>13
  <2> HIDE DEF a
  <2> QED
    BY <1>3, <2>1, <2>2, <2>3, <2>4, SplitVacant
<1>15. Lists(k, r, m)
  <2>1. SameLinks(g, k)
    BY <1>7, <1>8 DEF SameLinks
  <2>2. K[a].mark # "free" /\ K[c].mark # "free"
    BY <1>9
  <2>3. FreeOf(K) = FreeOf(H)
    <3>1. \A x \in FreeOf(K) : x # a /\ x # c /\ x \in DOMAIN H
      BY <1>9, <2>2 DEF FreeOf
    <3>2. \A x \in FreeOf(H) : x # a /\ x # c /\ x \in DOMAIN K
      BY <1>2, <1>9, <1>12 DEF FreeOf
    <3> QED
      BY <1>10, <3>1, <3>2 DEF FreeOf
  <2>4. \A x \in FreeOf(H) : K[x] = H[x]
    BY <1>2, <1>10, <1>12 DEF FreeOf
  <2> QED
    BY <1>3, <2>1, <2>3, <2>4, ListsKept DEF K
<1>16. k.dv = c /\ k.dvsize = z /\ k.subs = g.subs /\ k.segfree = g.segfree
  BY <1>7, <1>8 DEF SameVictim, SameAreas
<1>17. HeapOK(k, r, m)
  <2>1. Tidy(k.head, k.dv, k.dvsize, Bounds(k))
    BY <1>14, <1>16 DEF Bounds, t, K
  <2> QED
    BY <1>1, <1>8, <1>15, <1>16, <2>1 DEF HeapOK, AreasApart
<1> QED
  BY <1>2, <1>14, <1>17 DEF Allocated, Good, K

\* The first block of a list becomes an object, if it is large enough.
LEMMA FirstTaken ==
  ASSUME NEW g, Good(g), NEW n \in Lengths, NEW i \in Buckets, g.bucket[i] # 0,
         \/ FirstSize(g, i) = UsedSize(n)
         \/ FirstSize(g, i) # UsedSize(n) /\ FirstSize(g, i) >= UsedSize(n) + MinObj,
         NEW p, p = TakeFirst(g, i, UsedSize(n))
  PROVE  Allocated(g, PutHead(p.rest, p.at, n, "used"), p.at, n) /\ p.at \in Nat \ {0}
<1>1. PICK r, m : HeapOK(g, r, m)
  BY DEF Good
<1> DEFINE a == g.bucket[i]
<1>2. a \in FreeOf(g.head)
  BY <1>1 DEF HeapOK, Lists, Linked
<1>3. FirstSize(g, i) = g.head[a].size /\ a \in Nat \ {0}
  BY <1>1, <1>2, FreeIs DEF FirstSize
<1>4. p.at = a
  BY DEF TakeFirst
<1>5. CASE FirstSize(g, i) = UsedSize(n)
  <2>1. p.rest = TakeExact(g, a, UsedSize(n))
    BY <1>5 DEF TakeFirst
  <2> QED
    BY <1>2, <1>3, <1>4, <1>5, <2>1, ExactTaken
<1>6. CASE FirstSize(g, i) # UsedSize(n) /\ FirstSize(g, i) >= UsedSize(n) + MinObj
  <2>1. p.rest = SplitFree(g, a, UsedSize(n))
    BY <1>6 DEF TakeFirst
  <2> QED
    BY <1>2, <1>3, <1>4, <1>6, <2>1, SplitTaken
<1> QED
  BY <1>5, <1>6

\* Where there is a place, it becomes an object.
LEMMA Placed ==
  ASSUME NEW g, Good(g), NEW n \in Lengths, NEW p, p = PlaceIn(g, n), p.at # 0
  PROVE  Allocated(g, PutHead(p.rest, p.at, n, "used"), p.at, n) /\ p.at \in Nat \ {0}
<1> DEFINE used == UsedSize(n)
           exact == Larger(g, used, used + 1 .. ExactNr - 1)
           var == BucketIndex(used) .. ExactNr + VarNr - 1
           larger == Larger(g, used, var)
           same == Exactly(g, used, var)
           fits == larger \cup same
<1>1. PICK r, m : HeapOK(g, r, m)
  BY DEF Good
<1>2. n \in Nat /\ used \in Nat /\ used >= MinObj
  BY UsedSizeIs, SizesAssumption
<1>3. ExactNr \in Nat /\ VarNr \in Nat
  BY SizesAssumption
<1>4. VarBuckets(used) # {}
  BY BucketsAssumption
<1>5. BucketIndex(used) \in Buckets
  BY <1>2, <1>4, BucketOf
<1>6. var \subseteq Buckets /\ (used + 1 .. ExactNr - 1) \subseteq Buckets /\ Buckets \subseteq Nat
  BY <1>2, <1>3, <1>5 DEF Buckets
<1>7. CASE used < ExactNr /\ g.bucket[used] # 0
  <2>1. used \in Buckets
    BY <1>2, <1>3, <1>7 DEF Buckets
  <2> DEFINE a == g.bucket[used]
  <2>2. a \in FreeOf(g.head) /\ Index(g, a) = used
    BY <1>1, <1>7, <2>1 DEF HeapOK, Lists, Linked
  <2> HIDE DEF a
  <2>3. a \in DOMAIN g.head /\ RealSize(g.head[a]) = g.head[a].size
    BY <1>1, <2>2, FreeIs
  <2>4. g.head[a].size \in 0 .. SegmentSize
    BY <1>1, <2>3, BlockFits
  <2>5. FirstSize(g, used) = used
    BY <1>7, <2>2, <2>4, SizeFits DEF Index, FirstSize, a
  <2>6. p = TakeFirst(g, used, used)
    BY <1>7 DEF PlaceIn
  <2> QED
    BY <1>7, <2>1, <2>5, <2>6, FirstTaken
<1>8. CASE ~ (used < ExactNr /\ g.bucket[used] # 0) /\ g.dv # 0 /\ used = g.dvsize
  <2>1. p = [at |-> g.dv, rest |-> UseUpVictim(g)]
    BY <1>8 DEF PlaceIn
  <2>2. g.dv \in Nat \ {0}
    BY <1>1, <1>8, VictimFacts
  <2> QED
    BY <1>8, <2>1, <2>2, VictimTaken
<1>9. CASE /\ ~ (used < ExactNr /\ g.bucket[used] # 0)
           /\ ~ (g.dv # 0 /\ used = g.dvsize) /\ g.dv # 0 /\ used + MinObj <= g.dvsize
  <2>1. p = [at |-> g.dv, rest |-> SetVictim(g, g.dv + used, g.dvsize - used)]
    BY <1>9 DEF PlaceIn
  <2>2. g.dv \in Nat \ {0}
    BY <1>1, <1>9, VictimFacts
  <2> QED
    BY <1>9, <2>1, <2>2, VictimShared
<1>10. CASE /\ ~ (used < ExactNr /\ g.bucket[used] # 0)
            /\ ~ (g.dv # 0 /\ used = g.dvsize)
            /\ ~ (g.dv # 0 /\ used + MinObj <= g.dvsize) /\ exact # {}
  <2> DEFINE i == Min(exact)
  <2>1. exact \subseteq Nat
    BY <1>6 DEF Larger
  <2>2. i \in exact
    BY <1>10, <2>1, MinIsOne
  <2>3. p = TakeFirst(g, i, used)
    BY <1>10 DEF PlaceIn
  <2> HIDE DEF i
  <2>4. i \in Buckets /\ g.bucket[i] # 0 /\ FirstSize(g, i) >= used + MinObj
    BY <1>6, <2>2 DEF Larger
  <2>5. FirstSize(g, i) # used
    BY <1>2, <2>4 DEF MinObj
  <2> QED
    BY <2>3, <2>4, <2>5, FirstTaken
<1>11. CASE /\ ~ (used < ExactNr /\ g.bucket[used] # 0)
            /\ ~ (g.dv # 0 /\ used = g.dvsize)
            /\ ~ (g.dv # 0 /\ used + MinObj <= g.dvsize) /\ exact = {} /\ fits # {}
  <2> DEFINE i == Min(fits)
  <2>1. fits \subseteq Nat
    BY <1>6 DEF Larger, Exactly
  <2>2. i \in fits
    <3> HIDE DEF fits
    <3> QED
      BY <1>11, <2>1, MinIsOne
  <2>3. p = TakeFirst(g, i, used)
    BY <1>11 DEF PlaceIn
  <2> HIDE DEF i
  <2>4. i \in Buckets /\ g.bucket[i] # 0
        /\ (FirstSize(g, i) >= used + MinObj \/ FirstSize(g, i) = used)
    BY <1>6, <2>2 DEF Larger, Exactly
  <2>5. FirstSize(g, i) >= used + MinObj => FirstSize(g, i) # used
    BY <1>2 DEF MinObj
  <2> QED
    BY <2>3, <2>4, <2>5, FirstTaken
<1>12. CASE /\ ~ (used < ExactNr /\ g.bucket[used] # 0)
            /\ ~ (g.dv # 0 /\ used = g.dvsize)
            /\ ~ (g.dv # 0 /\ used + MinObj <= g.dvsize) /\ exact = {} /\ fits = {}
  <2>1. p = [at |-> 0, rest |-> g]
    BY <1>12 DEF PlaceIn
  <2> QED
    BY <2>1
<1> QED
  BY <1>7, <1>8, <1>9, <1>10, <1>11, <1>12

-----------------------------------------------------------------------------
(* New subareas: init_subarea_freespace, extend_varlen_area, the retries.    *)

\* A head that has the space an object takes for its length is as good.
LEMMA PaddedTidy ==
  ASSUME NEW H, NEW dv, NEW size, NEW t, Tidy(H, dv, size, t),
         NEW b \in DOMAIN H, IsUsed(H[b]),
         NEW K \in [DOMAIN H -> Block],
         K[b] = [size |-> UsedSize(H[b].size), mark |-> H[b].mark],
         \A x \in DOMAIN H \ {b} : K[x] = H[x]
  PROVE  /\ Tidy(K, dv, size, t) /\ EndsOf(K) = EndsOf(H) /\ ObjectsOf(K) = ObjectsOf(H)
         /\ FreeOf(K) = FreeOf(H)
<1>1. H[b] \in Block /\ H[b].size \in Nat /\ DOMAIN K = DOMAIN H
  BY TidyIs, BlockIs
<1>2. UsedSize(UsedSize(H[b].size)) = UsedSize(H[b].size)
  BY <1>1, UsedSizeIs
<1>3. IsUsed(K[b]) /\ RealSize(K[b]) = RealSize(H[b])
  BY <1>2 DEF IsUsed, RealSize
<1>4. \A x \in DOMAIN H : K[x].mark = H[x].mark /\ (IsUsed(K[x]) <=> IsUsed(H[x]))
                          /\ RealSize(K[x]) = RealSize(H[x])
  BY <1>3
<1>5. EndsOf(K) = EndsOf(H)
  BY <1>1, <1>4 DEF EndsOf
<1>6. ObjectsOf(K) = ObjectsOf(H)
  <2>1. {x \in DOMAIN K : IsUsed(K[x])} = {x \in DOMAIN H : IsUsed(H[x])}
    BY <1>1, <1>4
  <2>2. \A x \in DOMAIN H : UsedSize(K[x].size) = UsedSize(H[x].size)
    BY <1>2
  <2> QED
    BY <2>1, <2>2 DEF ObjectsOf
<1>7. FreeOf(K) = FreeOf(H)
  BY <1>1, <1>4 DEF FreeOf
<1>8. Tagged(K, dv, t)
  <2>1. Tagged(H, dv, t) /\ Laid(EndsOf(H), t.top) /\ Tiled(EndsOf(H), t.first, t.last)
    BY DEF Tidy
  <2>2. \A a \in DOMAIN H \ t.last : EndsOf(H)[a] \in DOMAIN H
    BY <2>1 DEF Tiled, EndsOf
  <2>3. t.first \cup t.last \subseteq DOMAIN H
    BY TidyIs
  <2> QED
    BY <1>1, <1>4, <1>5, <2>1, <2>2, <2>3 DEF Tagged, Vacant
<1>9. VictimIs(K, dv, size)
  <2>1. VictimIs(H, dv, size)
    BY DEF Tidy
  <2>2. dv \in DOMAIN H /\ H[dv] = [size |-> size, mark |-> "special"] => dv # b
    BY DEF IsUsed
  <2> QED
    BY <1>1, <2>1, <2>2 DEF VictimIs
<1> QED
  BY <1>1, <1>5, <1>6, <1>7, <1>8, <1>9 DEF Tidy

\* The old victim becomes a free block.
LEMMA VictimRetired ==
  ASSUME NEW g, NEW r, NEW m, HeapOK(g, r, m),
         NEW w, IsHeap(w), SameLinks(g, w), SameVictim(g, w), w.head = g.head,
         NEW u, u = RetireVictim(w)
  PROVE  /\ IsHeap(u) /\ SameAreas(w, u) /\ \E r2, m2 : Lists(u, r2, m2)
         /\ Tidy(u.head, 0, 0, Bounds(g)) /\ ObjectsOf(u.head) = ObjectsOf(g.head)
<1> DEFINE H == g.head
           t == Bounds(g)
           a == g.dv
           b == g.dv + g.dvsize
<1>1. IsHeap(g) /\ Tidy(H, g.dv, g.dvsize, t) /\ Lists(g, r, m) /\ H \in [DOMAIN H -> Block]
  BY DEF HeapOK, Tidy
<1>2. Lists(w, r, m)
  BY <1>1, ListsKept
<1>3. w.dv = g.dv /\ w.dvsize = g.dvsize
  BY DEF SameVictim
<1>4. CASE g.dv = 0
  <2>1. u = w
    BY <1>3, <1>4 DEF RetireVictim
  <2>2. g.dvsize = 0
    <3> HIDE DEF H, t
    <3> QED
      BY <1>1, <1>4, TidyIs
  <2>3. Tidy(u.head, 0, 0, t)
    BY <1>1, <1>4, <2>1, <2>2
  <2> QED
    BY <1>2, <2>1, <2>3 DEF SameAreas
<1>5. CASE g.dv # 0
  <2>1. /\ a \in DOMAIN H /\ a \in Nat \ {0} /\ a \notin t.first \cup t.last
        /\ H[a] = [size |-> g.dvsize, mark |-> "special"] /\ g.dvsize \in Nat /\ g.dvsize >= MinObj
        /\ RealSize(H[a]) = g.dvsize /\ b = EndsOf(H)[a] /\ b \in DOMAIN H \ t.first /\ b # a
        /\ (IsUsed(H[b]) => H[b].mark = "used") /\ a \notin FreeOf(H)
        /\ a \notin DOMAIN ObjectsOf(H)
    BY <1>5, VictimFacts
  <2>2. g.dvsize \in 0 .. SegmentSize
    BY <2>1, BlockFits
  <2> DEFINE padded == [size |-> UsedSize(H[b].size), mark |-> "prevfree"]
             g1 == IF IsUsed(H[b]) THEN PutHead(w, b, UsedSize(H[b].size), "prevfree") ELSE w
  <2>3. u = PushFree(g1, a, g.dvsize)
    BY <1>3, <1>5, <2>1 DEF RetireVictim
  <2>4. /\ IsHeap(g1) /\ SameLinks(w, g1) /\ SameVictim(w, g1) /\ SameAreas(w, g1)
        /\ g1.head = IF IsUsed(H[b]) THEN Put(H, b, padded) ELSE H
    <3>1. CASE IsUsed(H[b])
      <4>1. g1 = PutHead(w, b, UsedSize(H[b].size), "prevfree")
        BY <3>1
      <4> HIDE DEF g1
      <4>2. /\ IsHeap(g1) /\ SameLinks(w, g1) /\ SameVictim(w, g1) /\ SameAreas(w, g1)
            /\ g1.head = Put(w.head, b, padded)
        BY <4>1, PutHeadIs
      <4> QED
        BY <3>1, <4>2
    <3>2. CASE ~ IsUsed(H[b])
      BY <3>2 DEF SameLinks, SameVictim, SameAreas
    <3> QED
      BY <3>1, <3>2
  <2> HIDE DEF g1
  <2>5. /\ DOMAIN g1.head = DOMAIN H /\ \A x \in DOMAIN H \ {b} : g1.head[x] = H[x]
        /\ IsUsed(H[b]) => g1.head[b] = padded
        /\ ~ IsUsed(H[b]) => g1.head[b] = H[b]
    BY <2>1, <2>4 DEF Put
  <2>6. /\ IsHeap(u) /\ SameAreas(g1, u)
        /\ u.head = Put(g1.head, a, [size |-> g.dvsize, mark |-> "free"])
    BY <2>3, <2>4, PushHead
  <2> DEFINE K == u.head
             H1 == [x \in DOMAIN H |->
                      IF x = b /\ IsUsed(H[b]) THEN [size |-> UsedSize(H[b].size), mark |-> H[b].mark]
                      ELSE H[x]]
  <2>7. /\ K[a] = [size |-> g.dvsize, mark |-> "free"] /\ K = [x \in DOMAIN H |-> K[x]]
        /\ \A x \in DOMAIN H \ {a} : K[x] = g1.head[x]
    BY <2>1, <2>5, <2>6 DEF Put
  <2>8. H[b] \in Block /\ H[b].size \in Nat /\ UsedSize(H[b].size) \in Nat /\ H[b].mark \in Marks
    BY <1>1, <2>1, BlockIs, UsedSizeIs
  <2>9. padded \in Block /\ [size |-> UsedSize(H[b].size), mark |-> H[b].mark] \in Block
        /\ [size |-> g.dvsize, mark |-> "free"] \in Block
    BY <2>1, <2>8 DEF Block, Marks
  <2>10. K \in [DOMAIN H -> Block]
    <3>1. \A x \in DOMAIN H : K[x] \in Block
      <4> TAKE x \in DOMAIN H
      <4>1. CASE x = a
        BY <2>7, <2>9, <4>1
      <4>2. CASE x = b
        BY <2>1, <2>5, <2>7, <2>8, <2>9, <4>2
      <4>3. CASE x # a /\ x # b
        BY <1>1, <2>5, <2>7, <4>3
      <4> QED
        BY <4>1, <4>2, <4>3
    <3> QED
      BY <2>7, <3>1
  <2>11. H1 \in [DOMAIN H -> Block] /\ (\A x \in DOMAIN H \ {b} : H1[x] = H[x])
         /\ H1[b] = IF IsUsed(H[b]) THEN [size |-> UsedSize(H[b].size), mark |-> H[b].mark] ELSE H[b]
    BY <1>1, <2>1, <2>9
  <2> HIDE DEF H1, padded, b, t
  <2>12. /\ Tidy(H1, g.dv, g.dvsize, t) /\ EndsOf(H1) = EndsOf(H) /\ ObjectsOf(H1) = ObjectsOf(H)
         /\ FreeOf(H1) = FreeOf(H)
    <3>1. CASE IsUsed(H[b])
      <4> HIDE DEF H
      <4> QED
        BY <1>1, <2>1, <2>11, <3>1, PaddedTidy
    <3>2. CASE ~ IsUsed(H[b])
      <4>1. H1 = H
        BY <1>1, <2>11, <3>2
      <4> QED
        BY <1>1, <4>1
    <3> QED
      BY <3>1, <3>2
  <2>13. H1[a] = H[a] /\ DOMAIN H1 = DOMAIN H /\ RealSize(H1[a]) = g.dvsize
    BY <2>1, <2>11
  <2>14. K[b] = Marked(H1[b], "prevfree")
    <3>1. CASE IsUsed(H[b])
      <4>1. IsUsed(H1[b]) /\ H1[b].size = UsedSize(H[b].size)
        BY <2>11, <3>1 DEF IsUsed
      <4>2. K[b] = padded
        BY <2>1, <2>5, <2>7, <3>1
      <4> QED
        BY <4>1, <4>2 DEF Marked, padded
    <3>2. CASE ~ IsUsed(H[b])
      BY <2>1, <2>5, <2>7, <2>11, <3>2 DEF Marked
    <3> QED
      BY <3>1, <3>2
  <2>15. ~ IsUsed(K[a]) /\ K[a].mark = "free" /\ RealSize(K[a]) = g.dvsize
    BY <2>7 DEF IsUsed, RealSize
  <2>16. PrevQuiet(H1, g.dv, t, a) /\ NextQuiet(H1, g.dv, a)
    <3>1. Vacant(H1, g.dv, a)
      BY DEF Vacant
    <3> QED
      BY <2>1, <2>12, <2>13, <3>1, VacantQuiet
  <2> HIDE DEF K, H
  <2>17. /\ Tidy(K, 0, 0, t)
         /\ ObjectsOf(K) = IF IsUsed(K[a]) THEN Put(ObjectsOf(H1), a, RealSize(H1[a]))
                           ELSE Without(ObjectsOf(H1), a)
    <3> DEFINE told == IF K[a].mark = "free" THEN "prevfree" ELSE "used"
    <3>1. b \in DOMAIN H1 => K[b] = Marked(H1[b], told)
      BY <2>14, <2>15
    <3>2. Vacant(K, 0, a) => PrevQuiet(H1, g.dv, t, a) /\ NextQuiet(H1, g.dv, a)
      BY <2>16
    <3>3. IsUsed(K[a]) => K[a].mark = "used" /\ PrevQuiet(H1, g.dv, t, a)
      BY <2>15
    <3>4. VictimIs(K, 0, 0)
      BY DEF VictimIs
    <3>5. \A x \in DOMAIN H1 \ {a} : x = 0 <=> x = g.dv
      BY <2>12, TidyIs
    <3>6. b = a + RealSize(H1[a]) /\ RealSize(K[a]) = RealSize(H1[a])
      BY <2>13, <2>15 DEF b
    <3>7. \A x \in DOMAIN H1 \ {a, b} : K[x] = H1[x]
      BY <2>5, <2>7, <2>11, <2>13
    <3>8. K \in [DOMAIN H1 -> Block] /\ a \in DOMAIN H1 /\ a \notin t.first \cup t.last
      BY <2>1, <2>10, <2>13
    <3> HIDE DEF a
    <3> QED
      BY <2>12, <3>1, <3>2, <3>3, <3>4, <3>5, <3>6, <3>7, <3>8, Remarked
  <2>18. ObjectsOf(K) = ObjectsOf(H)
    <3>1. ObjectsOf(K) = Without(ObjectsOf(H), a)
      BY <2>12, <2>15, <2>17
    <3>2. Without(ObjectsOf(H), a) = ObjectsOf(H)
      BY <2>1 DEF Without, Restrict, ObjectsOf
    <3> QED
      BY <3>1, <3>2
  <2>19. Lists(g1, r, m)
    <3>1. FreeOf(g1.head) = FreeOf(H)
      <4>1. padded.mark # "free"
        BY DEF padded
      <4>2. IsUsed(H[b]) => H[b].mark # "free"
        BY DEF IsUsed
      <4> QED
        BY <2>5, <4>1, <4>2 DEF FreeOf
    <3>2. \A x \in FreeOf(H) : g1.head[x] = H[x]
      BY <2>5 DEF FreeOf, IsUsed
    <3> QED
      BY <1>2, <2>4, <3>1, <3>2, ListsKept DEF H
  <2>20. Lists(u, [r EXCEPT ![a] = m], m + 1)
    <3>1. FreeOf(g1.head) = FreeOf(H)
      <4>1. padded.mark # "free"
        BY DEF padded
      <4>2. IsUsed(H[b]) => H[b].mark # "free"
        BY DEF IsUsed
      <4> QED
        BY <2>5, <4>1, <4>2 DEF FreeOf
    <3>2. BucketIndex(g.dvsize) \in Buckets
      BY <2>2, SizeFits
    <3>3. \A x \in FreeOf(g1.head) : EndOf(g1, x) # a + g.dvsize
      <4> TAKE x \in FreeOf(g1.head)
      <4>1. x \in FreeOf(H) /\ x # a /\ g1.head[x] = H[x]
        BY <2>1, <2>5, <3>1 DEF FreeOf, IsUsed
      <4>2. EndOf(g, x) # a + RealSize(H[a])
        BY <2>1, <4>1, EndsAlone DEF H
      <4> QED
        BY <2>1, <4>1, <4>2 DEF EndOf, H
    <3> QED
      BY <2>1, <2>3, <2>4, <2>19, <3>1, <3>2, <3>3, Pushed
  <2>21. SameAreas(w, u)
    BY <2>4, <2>6 DEF SameAreas
  <2> QED
    BY <2>6, <2>17, <2>18, <2>20, <2>21 DEF K, H, t
<1> QED
  BY <1>4, <1>5

\* What of a subarea is used lies within it.
LEMMA AreaFits ==
  ASSUME NEW offset \in Nat, NEW size \in Nat, size >= MinimalSubarea
  PROVE  /\ RoundUp(offset, Align) \in Nat /\ offset <= RoundUp(offset, Align)
         /\ AlignedSize(offset, size) \in Nat /\ AlignedSize(offset, size) >= 3 * MinObj
         /\ RoundUp(offset, Align) + AlignedSize(offset, size) <= offset + size
<1> DEFINE start == RoundUp(offset, Align)
           left == size - (start - offset)
           rest == left % MinObj
<1>1. start \in Nat /\ start >= offset /\ start < offset + Align
  BY Rounded
<1>2. MinimalSubarea \in Nat /\ MinimalSubarea >= 12 + Align /\ Align \in Nat
  BY SizesAssumption, AlignAssumption DEF MinObj
<1> HIDE DEF start
<1>3. left \in Nat /\ left >= 12 /\ start + left = offset + size
  BY <1>1, <1>2
<1>4. AlignedSize(offset, size) = left - rest
  BY DEF AlignedSize, start
<1> HIDE DEF left
<1>5. rest \in 0 .. 3 /\ rest = left % 4
  BY <1>3 DEF MinObj
<1>6. left - rest >= 12
  BY <1>3
     DEF MinObj
<1> HIDE DEF rest
<1> QED
  BY <1>1, <1>3, <1>4, <1>5, <1>6 DEF start, MinObj

\* A subarea more.
LEMMA SubareaAdded ==
  ASSUME NEW g, Good(g), NEW size \in Nat, size >= MinimalSubarea, SegmentHas(g, size),
         NEW k, k = InitDbSubarea(g, size)
  PROVE  Good(k) /\ ObjectsOf(k.head) = ObjectsOf(g.head)
<1> DEFINE t == Bounds(g)
           o == g.segfree
           s == RoundUp(o, Align)
           sz == AlignedSize(o, size)
           mid == s + MinObj
           l == s + sz - MinObj
           above == NextFree(g, size)
           w == [g EXCEPT !.subs = Append(@, [offset |-> o, size |-> size]), !.segfree = above]
           u == RetireVictim(w)
           p == PutHead(u, s, MinObj, "special")
           q == PutHead(p, l, MinObj, "special")
<1>1. PICK r, m : HeapOK(g, r, m)
  BY DEF Good
<1>2. /\ IsHeap(g) /\ o \in Nat /\ 0 < o /\ o <= SegmentSize /\ g.subs \in Seq(Subarea)
      /\ AreasApart(g)
  BY <1>1 DEF HeapOK, AreasApart
<1>3. /\ s \in Nat /\ o <= s /\ sz \in Nat /\ sz >= 3 * MinObj /\ s + sz <= o + size
  BY <1>2, AreaFits
<1>4. above \in Nat /\ o + size <= above /\ above <= SegmentSize
  <2>1. above = RoundUp(o + size, Align) /\ above < SegmentSize
    BY DEF NextFree, SegmentHas
  <2>2. o + size \in Nat
    BY <1>2
  <2>3. above \in Nat /\ above >= o + size
    BY <2>1, <2>2, Rounded
  <2> QED
    BY <2>1, <2>3, SizesAssumption
<1>5. /\ IsHeap(w) /\ SameLinks(g, w) /\ SameVictim(g, w) /\ w.head = g.head
      /\ w.subs = Append(g.subs, [offset |-> o, size |-> size]) /\ w.segfree = above
  BY <1>2 DEF IsHeap, SameLinks, SameVictim
<1>6. k = SetVictim(q, s + MinObj, sz - 2 * MinObj)
  BY DEF InitDbSubarea, InitSubareaFreespace
<1> HIDE DEF w, s, sz, o, above
<1>7. /\ IsHeap(u) /\ SameAreas(w, u) /\ (\E r2, m2 : Lists(u, r2, m2))
      /\ Tidy(u.head, 0, 0, t) /\ ObjectsOf(u.head) = ObjectsOf(g.head)
  <2> HIDE DEF t
  <2> QED
    BY <1>1, <1>5, VictimRetired DEF t
<1> HIDE DEF u
<1>8. PICK r2, m2 : Lists(u, r2, m2)
  BY <1>7
<1>9. mid \in Nat /\ l \in Nat /\ mid # s /\ l # s /\ l # mid /\ s + 2 * MinObj <= l
      /\ l + MinObj <= above /\ sz - 2 * MinObj = l - mid /\ sz - 2 * MinObj \in Nat
      /\ 0 < s /\ t.top <= s
  BY <1>2, <1>3, <1>4 DEF MinObj, Bounds, o
<1>10. /\ IsHeap(p) /\ SameLinks(u, p) /\ SameVictim(u, p) /\ SameAreas(u, p)
       /\ p.head = Put(u.head, s, [size |-> MinObj, mark |-> "special"])
  BY <1>7, PutHeadIs
<1> HIDE DEF p, l
<1>11. /\ IsHeap(q) /\ SameLinks(p, q) /\ SameVictim(p, q) /\ SameAreas(p, q)
       /\ q.head = Put(p.head, l, [size |-> MinObj, mark |-> "special"])
  BY <1>10, PutHeadIs
<1> HIDE DEF q, mid
<1>12. /\ IsHeap(k) /\ SameLinks(q, k) /\ SameAreas(q, k)
       /\ k.head = Put(q.head, mid, [size |-> l - mid, mark |-> "special"])
       /\ k.dv = mid /\ k.dvsize = l - mid
  <2>1. k = SetVictim(q, mid, l - mid)
    BY <1>6, <1>9 DEF mid
  <2> QED
    BY <1>11, <2>1, SetVictimIs
<1> DEFINE K == k.head
           H == u.head
<1>13. /\ K[s] = [size |-> MinObj, mark |-> "special"] /\ K[l] = [size |-> MinObj, mark |-> "special"]
       /\ K[mid] = [size |-> l - mid, mark |-> "special"]
       /\ DOMAIN K = DOMAIN H \cup {s, mid, l} /\ K = [x \in DOMAIN K |-> K[x]]
  BY <1>9, <1>10, <1>11, <1>12 DEF Put
<1>13a. \A x \in DOMAIN H : x \notin {s, mid, l} => K[x] = H[x]
  BY <1>10, <1>11, <1>12 DEF Put
<1>14. {s, mid, l} \cap DOMAIN H = {}
  <2>1. \A x \in DOMAIN H : x \in Nat /\ x + MinObj <= t.top
    <3> HIDE DEF t
    <3>1. \A x \in DOMAIN H : x \in Nat /\ EndsOf(H)[x] \in Nat
                            /\ x + MinObj <= EndsOf(H)[x] /\ EndsOf(H)[x] <= t.top
      BY <1>7, TidyIs
    <3>2. t.top \in Nat
      BY <1>2 DEF t, Bounds, o
    <3> QED
      BY <3>1, <3>2 DEF MinObj
  <2>2. \A x \in DOMAIN H : x < s
    BY <1>3, <1>9, <2>1, <1>2 DEF MinObj, Bounds, o
  <2> QED
    BY <1>3, <1>9, <2>2 DEF mid, MinObj
<1> HIDE DEF K, H, t
<1>15. K \in [DOMAIN H \cup {s, mid, l} -> Block]
  <2>1. [size |-> MinObj, mark |-> "special"] \in Block /\ [size |-> l - mid, mark |-> "special"] \in Block
    BY <1>9 DEF Block, Marks, MinObj
  <2>2. H \in [DOMAIN H -> Block]
    BY <1>7 DEF Tidy, H
  <2>3. \A x \in DOMAIN H \cup {s, mid, l} : K[x] \in Block
    BY <1>13, <1>13a, <2>1, <2>2
  <2> QED
    BY <1>13, <2>3
<1> DEFINE t2 == [first |-> t.first \cup {s}, last |-> t.last \cup {l}, top |-> above]
<1>16. Tidy(K, mid, l - mid, t2) /\ ObjectsOf(K) = ObjectsOf(H)
  <2>1. \A x \in DOMAIN H : K[x] = H[x]
    BY <1>13a, <1>14
  <2>2. Tidy(H, 0, 0, t) /\ mid = s + MinObj
    BY <1>7 DEF H, mid
  <2> QED
    <3>1. /\ s \in Nat /\ l \in Nat /\ above \in Nat /\ t.top <= s /\ 0 < s
          /\ s + 2 * MinObj <= l /\ l + MinObj <= above
      BY <1>3, <1>4, <1>9
    <3>2. /\ K[s] = [size |-> MinObj, mark |-> "special"]
          /\ K[mid] = [size |-> l - mid, mark |-> "special"]
          /\ K[l] = [size |-> MinObj, mark |-> "special"]
      BY <1>13
    <3> DEFINE z == l - mid
    <3>3. K[mid] = [size |-> z, mark |-> "special"] /\ z = l - mid
      BY <3>2
    <3> HIDE DEF z, t2
    <3>4. t2.first = t.first \cup {s} /\ t2.last = t.last \cup {l} /\ t2.top = above
      BY DEF t2
    <3> QED
      BY <1>15, <2>1, <2>2, <3>1, <3>2, <3>3, <3>4, AreaTidy DEF z
<1>17. k.subs = Append(g.subs, [offset |-> o, size |-> size]) /\ k.segfree = above
  BY <1>5, <1>7, <1>10, <1>11, <1>12 DEF SameAreas
<1> DEFINE N == Len(g.subs)
           sub == [offset |-> o, size |-> size]
<1>18. /\ k.subs \in Seq(Subarea) /\ Len(k.subs) = N + 1 /\ N \in Nat
       /\ k.subs[N + 1] = sub /\ \A i \in 1 .. N : k.subs[i] = g.subs[i]
  <2>1. sub \in Subarea
    BY <1>2 DEF Subarea
  <2> QED
    BY <1>2, <1>17, <2>1
<1>19. Bounds(k) = t2
  <2>1. 1 .. Len(k.subs) = (1 .. N) \cup {N + 1}
    BY <1>18
  <2>2. FirstOf(sub) = s /\ LastOf(sub) = l
    BY DEF FirstOf, LastOf, s, l, sz
  <2>3. {FirstOf(k.subs[i]) : i \in 1 .. Len(k.subs)} = t.first \cup {s}
    <3>1. t.first = {FirstOf(g.subs[i]) : i \in 1 .. N}
      BY DEF t, Bounds
    <3>2. \A i \in 1 .. N : FirstOf(k.subs[i]) = FirstOf(g.subs[i])
      BY <1>18
    <3>3. FirstOf(k.subs[N + 1]) = s
      BY <1>18, <2>2
    <3> QED
      BY <2>1, <3>1, <3>2, <3>3
  <2>4. {LastOf(k.subs[i]) : i \in 1 .. Len(k.subs)} = t.last \cup {l}
    <3>1. t.last = {LastOf(g.subs[i]) : i \in 1 .. N}
      BY DEF t, Bounds
    <3>2. \A i \in 1 .. N : LastOf(k.subs[i]) = LastOf(g.subs[i])
      BY <1>18
    <3>3. LastOf(k.subs[N + 1]) = l
      BY <1>18, <2>2
    <3> QED
      BY <2>1, <3>1, <3>2, <3>3
  <2> QED
    BY <1>17, <2>3, <2>4 DEF Bounds
<1>20. AreasApart(k)
  <2>1. 0 < above
    BY <1>2, <1>4
  <2>2. \A i \in 1 .. N : g.subs[i].offset \in Nat /\ g.subs[i].size \in Nat
    <3> TAKE i \in 1 .. N
    <3>1. g.subs[i] \in Subarea
      BY <1>2
    <3> QED
      BY <3>1 DEF Subarea
  <2>3. \A i \in 1 .. Len(k.subs) : /\ k.subs[i].size >= MinimalSubarea
                                    /\ k.subs[i].offset + k.subs[i].size <= k.segfree
    <3> TAKE i \in 1 .. Len(k.subs)
    <3>1. CASE i = N + 1
      BY <1>4, <1>17, <1>18, <3>1
    <3>2. CASE i # N + 1
      <4>1. i \in 1 .. N /\ k.subs[i] = g.subs[i]
        BY <1>18, <3>2
      <4>2. g.subs[i].size >= MinimalSubarea /\ g.subs[i].offset + g.subs[i].size <= o
        BY <1>2, <4>1 DEF AreasApart, o
      <4> QED
        BY <1>2, <1>4, <1>17, <2>2, <4>1, <4>2
    <3> QED
      BY <3>1, <3>2
  <2>4. \A i, j \in 1 .. Len(k.subs) :
          i < j => k.subs[i].offset + k.subs[i].size <= k.subs[j].offset
    <3> TAKE i, j \in 1 .. Len(k.subs)
    <3> HAVE i < j
    <3>1. i \in 1 .. N /\ k.subs[i] = g.subs[i]
      BY <1>18
    <3>2. CASE j = N + 1
      <4>1. g.subs[i].offset + g.subs[i].size <= o
        BY <1>2, <3>1 DEF AreasApart, o
      <4> QED
        BY <1>18, <3>1, <3>2, <4>1
    <3>3. CASE j # N + 1
      <4>1. j \in 1 .. N /\ k.subs[j] = g.subs[j]
        BY <1>18, <3>3
      <4> QED
        BY <1>2, <3>1, <4>1 DEF AreasApart
    <3> QED
      BY <3>2, <3>3
  <2> QED
    BY <1>4, <1>17, <1>18, <2>1, <2>3, <2>4 DEF AreasApart
<1>21. Lists(k, r2, m2)
  <2>1. SameLinks(u, k)
    BY <1>10, <1>11, <1>12 DEF SameLinks
  <2>2. K[s].mark # "free" /\ K[mid].mark # "free" /\ K[l].mark # "free"
    BY <1>13
  <2>3. \A x \in DOMAIN H : K[x] = H[x]
    BY <1>13a, <1>14
  <2>4. FreeOf(K) = FreeOf(H)
    BY <1>13, <2>2, <2>3 DEF FreeOf
  <2>5. \A x \in FreeOf(H) : K[x] = H[x]
    BY <2>3 DEF FreeOf
  <2> QED
    BY <1>8, <2>1, <2>4, <2>5, ListsKept DEF K, H
<1>22. HeapOK(k, r2, m2)
  BY <1>12, <1>16, <1>19, <1>20, <1>21 DEF HeapOK, K
<1> QED
  BY <1>7, <1>16, <1>22 DEF Good, K, H

\* An extension is at least the minimum, which is as large as any subarea.
LEMMA MinSizeIs ==
  ASSUME NEW used \in Nat
  PROVE  MinSize(used) \in Nat /\ MinSize(used) >= MinimalSubarea
<1> DEFINE x == used + Align + 2 * MinObj
           T == {x, MinimalSubarea}
<1>1. x \in Nat /\ MinimalSubarea \in Nat
  BY SizesAssumption, AlignAssumption DEF MinObj
<1> HIDE DEF x
<1>2. \E y \in T : \A z \in T : y >= z
  BY <1>1
<1>3. MinSize(used) = CHOOSE y \in T : \A z \in T : y >= z
  BY DEF MinSize, Max, x
<1>4. MinSize(used) \in T /\ \A z \in T : MinSize(used) >= z
  BY <1>2, <1>3
<1> QED
  BY <1>1, <1>4

\* extend_varlen_area keeps the heap good and moves no object.
LEMMA Extended ==
  ASSUME NEW g, Good(g), NEW used \in Nat, Extensible(g, used),
         NEW k, k = ExtendVarlenArea(g, used)
  PROVE  Good(k) /\ ObjectsOf(k.head) = ObjectsOf(g.head)
<1> DEFINE T == Fitting(g, used)
           size == Max(T)
           lo == MinSize(used)
<1>1. lo \in Nat /\ lo >= MinimalSubarea /\ SegmentSize \in Nat /\ MinimalSubarea \in Nat
  BY MinSizeIs, SizesAssumption
<1>2. T # {} /\ T \in SUBSET (lo .. SegmentSize) /\ \A s \in T : SegmentHas(g, s)
  BY DEF Extensible, Fitting
<1> HIDE DEF T, lo
<1>3. size \in T
  <2>1. lo \in Int /\ SegmentSize \in Int
    BY <1>1
  <2> QED
    BY <1>2, <2>1, MaxIsOne
<1>4. k = InitDbSubarea(g, size)
  BY DEF ExtendVarlenArea, T
<1> HIDE DEF size
<1>5. size \in Nat /\ size >= MinimalSubarea /\ SegmentHas(g, size)
  BY <1>1, <1>2, <1>3
<1> QED
  BY <1>4, <1>5, SubareaAdded

\* Extending until there is a place does no harm.
LEMMA TriedIs ==
  ASSUME NEW g, Good(g), NEW n \in Lengths, NEW k, k = Tried(g, n)
  PROVE  Good(k) /\ ObjectsOf(k.head) = ObjectsOf(g.head)
<1> DEFINE used == UsedSize(n)
           Step(e) == IF PlaceIn(e, n).at = 0 /\ Extensible(e, used)
                      THEN ExtendVarlenArea(e, used) ELSE e
           Is(f, N) == f = [j \in 0 .. N |-> IF j = 0 THEN g ELSE Step(f[j - 1])]
           heap == CHOOSE f : Is(f, SubareaArray)
<1>1. used \in Nat /\ SubareaArray \in Nat
  BY UsedSizeIs, SizesAssumption
<1>2. k = heap[SubareaArray]
  BY DEF Tried
<1>3. \A e : Good(e) => Good(Step(e)) /\ ObjectsOf(Step(e).head) = ObjectsOf(e.head)
  BY <1>1, Extended
<1> HIDE DEF Step
<1>4. \A N \in Nat : \E f : Is(f, N)
  <2> DEFINE T == {N \in Nat : ~ \E f : Is(f, N)}
  <2>1. SUFFICES ASSUME T # {} PROVE FALSE
    OBVIOUS
  <2>2. PICK i \in T : \A j \in T : i <= j
    BY <2>1, LeastOf
  <2>3. CASE i = 0
    <3> DEFINE f == [j \in 0 .. 0 |-> g]
    <3>1. Is(f, 0)
      OBVIOUS
    <3> QED
      BY <2>2, <2>3, <3>1
  <2>4. CASE i # 0
    <3>0. T \subseteq Nat
      OBVIOUS
    <3>1. i - 1 \in Nat /\ i - 1 \notin T
      <4> HIDE DEF T
      <4> QED
        BY <2>2, <2>4, <3>0
    <3>2. PICK f : Is(f, i - 1)
      BY <3>1
    <3> DEFINE f2 == [j \in 0 .. i |-> IF j = i THEN Step(f[i - 1]) ELSE f[j]]
    <3>3. \A j \in 0 .. i : f2[j] = IF j = 0 THEN g ELSE Step(f2[j - 1])
      <4> TAKE j \in 0 .. i
      <4>1. CASE j = i
        BY <2>2, <2>4, <4>1
      <4>2. CASE j # i
        <5>1. j \in 0 .. i - 1 /\ f2[j] = f[j] /\ (j # 0 => f2[j - 1] = f[j - 1])
          BY <2>2, <4>2
        <5>2. f[j] = IF j = 0 THEN g ELSE Step(f[j - 1])
          BY <3>2, <5>1
        <5> QED
          BY <5>1, <5>2
      <4> QED
        BY <4>1, <4>2
    <3>4. Is(f2, i)
      <4>1. f2 = [j \in 0 .. i |-> f2[j]]
        OBVIOUS
      <4> HIDE DEF f2
      <4> QED
        BY <3>3, <4>1
    <3> QED
      BY <2>2, <3>4
  <2> QED
    BY <2>3, <2>4
<1>5. Is(heap, SubareaArray)
  <2> HIDE DEF Is
  <2> QED
    BY <1>1, <1>4
<1> HIDE DEF heap
<1>6. heap[0] = g /\ \A j \in 1 .. SubareaArray : heap[j] = Step(heap[j - 1])
  BY <1>1, <1>5
<1> HIDE DEF Is
<1> DEFINE Same(j) == Good(heap[j]) /\ ObjectsOf(heap[j].head) = ObjectsOf(g.head)
           T == {j \in 0 .. SubareaArray : ~ Same(j)}
<1>7. T = {}
  <2>1. SUFFICES ASSUME T # {} PROVE FALSE
    OBVIOUS
  <2>2. PICK i \in T : \A j \in T : i <= j
    <3>1. T \subseteq Nat
      BY <1>1
    <3> HIDE DEF T
    <3> QED
      BY <2>1, <3>1, LeastOf
  <2>3. CASE i = 0
    BY <1>6, <2>2, <2>3
  <2>4. CASE i # 0
    <3>1. i - 1 \in 0 .. SubareaArray /\ i - 1 \notin T /\ i \in 1 .. SubareaArray
      BY <1>1, <2>2, <2>4
    <3>2. Same(i - 1) /\ heap[i] = Step(heap[i - 1])
      BY <1>6, <3>1
    <3>3. Same(i)
      BY <1>3, <3>2
    <3> QED
      BY <2>2, <3>3
  <2> QED
    BY <2>3, <2>4
<1> QED
  BY <1>1, <1>2, <1>7

\* An allocation adds one object, or none.
LEMMA AllocIs ==
  ASSUME NEW g, Good(g), NEW n \in Lengths, NEW k, k = AllocGints(g, n)
  PROVE  /\ Good(k)
         /\ \/ ObjectsOf(k.head) = ObjectsOf(g.head)
            \/ \E a \in Nat \ {0} : /\ a \notin DOMAIN ObjectsOf(g.head)
                                    /\ ObjectsOf(k.head) = Put(ObjectsOf(g.head), a, UsedSize(n))
<1> DEFINE last == Tried(g, n)
           p == PlaceIn(last, n)
<1>1. Good(last) /\ ObjectsOf(last.head) = ObjectsOf(g.head)
  BY TriedIs
<1> HIDE DEF last
<1>2. k = IF p.at = 0 THEN last ELSE PutHead(p.rest, p.at, n, "used")
  BY DEF AllocGints, last
<1>3. CASE p.at = 0
  BY <1>1, <1>2, <1>3
<1>4. CASE p.at # 0
  <2>1. Allocated(last, PutHead(p.rest, p.at, n, "used"), p.at, n) /\ p.at \in Nat \ {0}
    BY <1>1, <1>4, Placed
  <2> QED
    BY <1>1, <1>2, <1>4, <2>1 DEF Allocated
<1> QED
  BY <1>3, <1>4

-----------------------------------------------------------------------------
(* wg_free_object: how blocks merge.                                         *)

\* An object becomes a block that is neither in use nor vacant yet.
LEMMA Emptied ==
  ASSUME NEW H, NEW dv, NEW size, NEW t, Tidy(H, dv, size, t),
         NEW o \in DOMAIN H, IsUsed(H[o]), NEW K \in [DOMAIN H -> Block],
         K[o] = [size |-> UsedSize(H[o].size), mark |-> "special"],
         \A x \in DOMAIN H \ {o} : K[x] = H[x]
  PROVE  /\ Tidy(K, dv, size, t) /\ EndsOf(K) = EndsOf(H)
         /\ ObjectsOf(K) = Without(ObjectsOf(H), o)
         /\ o \notin t.first \cup t.last /\ o # dv
         /\ \A x \in DOMAIN H : Vacant(K, dv, x) <=> Vacant(H, dv, x)
<1> DEFINE b == EndsOf(H)[o]
<1>1. /\ H[o] \in Block /\ o \in Nat \ {0} /\ b = o + RealSize(H[o])
      /\ dv # 0 => H[dv].mark = "special"
      /\ H[o].mark # "special" => o \notin t.first \cup t.last
  BY TidyIs
<1>2. o \notin t.first \cup t.last /\ o # dv /\ ~ Vacant(H, dv, o)
  BY <1>1 DEF IsUsed, Vacant
<1> HIDE DEF b
<1>3. /\ b \in DOMAIN H /\ b # o
      /\ IsUsed(H[b]) => (H[b].mark = "prevfree" <=> H[o].mark = "free")
  BY <1>2, NextIs DEF b
<1>4. H[b] \in Block
  BY <1>3, TidyIs
<1>5. K[b] = Marked(H[b], "used")
  <2>1. H[b] = [size |-> H[b].size, mark |-> H[b].mark]
    BY <1>4, BlockIs
  <2>2. IsUsed(H[b]) => H[b].mark = "used"
    BY <1>3 DEF IsUsed
  <2>3. K[b] = H[b]
    BY <1>3
  <2> QED
    BY <2>1, <2>2, <2>3 DEF Marked
<1>6. ~ IsUsed(K[o]) /\ K[o].mark = "special" /\ RealSize(K[o]) = RealSize(H[o])
  BY DEF IsUsed, RealSize
<1>7. VictimIs(K, dv, size)
  <2>1. VictimIs(H, dv, size)
    BY DEF Tidy
  <2> QED
    BY <1>2, <2>1 DEF VictimIs
<1>8. /\ Tidy(K, dv, size, t) /\ EndsOf(K) = EndsOf(H)
      /\ ObjectsOf(K) = IF IsUsed(K[o]) THEN Put(ObjectsOf(H), o, RealSize(H[o]))
                        ELSE Without(ObjectsOf(H), o)
  <2> DEFINE told == IF K[o].mark = "free" THEN "prevfree" ELSE "used"
  <2>1. b \in DOMAIN H => K[b] = Marked(H[b], told)
    BY <1>5, <1>6
  <2>2. Vacant(K, dv, o) => PrevQuiet(H, dv, t, o) /\ NextQuiet(H, dv, o)
    BY <1>2, <1>6 DEF Vacant
  <2>3. IsUsed(K[o]) => K[o].mark = "used" /\ PrevQuiet(H, dv, t, o)
    BY <1>6
  <2>4. \A x \in DOMAIN H \ {o} : x = dv <=> x = dv
    OBVIOUS
  <2>5. \A x \in DOMAIN H \ {o, b} : K[x] = H[x]
    OBVIOUS
  <2> QED
    BY <1>1, <1>2, <1>6, <1>7, <2>1, <2>2, <2>3, <2>4, <2>5, Remarked
<1>9. \A x \in DOMAIN H : Vacant(K, dv, x) <=> Vacant(H, dv, x)
  BY <1>2, <1>6 DEF Vacant
<1> QED
  BY <1>2, <1>6, <1>8, <1>9

\* A block takes up a vacant one behind it.
LEMMA NextAbsorbed ==
  ASSUME NEW G, NEW dv, NEW size, NEW t, Tidy(G, dv, size, t),
         NEW a \in DOMAIN G, a \notin t.first \cup t.last, G[a].mark = "special", a # dv,
         PrevQuiet(G, dv, t, a), NEW b, b = EndsOf(G)[a], Vacant(G, dv, b),
         NEW c, c = EndsOf(G)[b], NEW K \in [DOMAIN G \ {b} -> Block],
         K[a] = [size |-> G[a].size + RealSize(G[b]), mark |-> "special"],
         K[c] = Marked(G[c], "used"), \A x \in DOMAIN G \ {a, b, c} : K[x] = G[x],
         NEW dv2, dv2 = NoVictim(dv, b), NEW size2, size2 = IF dv = b THEN 0 ELSE size
  PROVE  /\ Tidy(K, dv2, size2, t) /\ ObjectsOf(K) = ObjectsOf(G) /\ EndsOf(K)[a] = c
         /\ b \in DOMAIN G /\ b # a /\ c \in DOMAIN K /\ c # a /\ a # dv2
         /\ PrevQuiet(K, dv2, t, a) /\ NextQuiet(K, dv2, a)
         /\ IsUsed(G[c]) => (G[c].mark = "prevfree" <=> G[b].mark = "free")
<1> DEFINE G1 == [x \in DOMAIN G |-> IF x = b THEN [size |-> RealSize(G[b]), mark |-> "special"]
                                     ELSE IF x = c THEN Marked(G[c], "used") ELSE G[x]]
<1>1. /\ \A x \in DOMAIN G : /\ G[x] \in Block /\ x \in Nat \ {0} /\ EndsOf(G)[x] \in Nat
                             /\ x + MinObj <= EndsOf(G)[x] /\ EndsOf(G)[x] = x + RealSize(G[x])
                             /\ RealSize(G[x]) \in Nat
      /\ DOMAIN EndsOf(G) = DOMAIN G
  BY TidyIs
<1>2. b \in DOMAIN G /\ b # a
  BY NextIs
<1>3. b \notin t.first \cup t.last
  BY <1>2, VacantQuiet
<1>4. c \in DOMAIN G /\ c # b
  BY <1>2, <1>3, NextIs
<1>5. a < b /\ b < c
  BY <1>1, <1>2 DEF MinObj
<1>6. [size |-> RealSize(G[b]), mark |-> "special"] \in Block /\ Marked(G[c], "used") \in Block
  BY <1>1, <1>2, <1>4, MarkedIs DEF Block, Marks
<1>7. /\ G1 \in [DOMAIN G -> Block] /\ G1[b] = [size |-> RealSize(G[b]), mark |-> "special"]
      /\ G1[c] = Marked(G[c], "used") /\ \A x \in DOMAIN G \ {b, c} : G1[x] = G[x]
  BY <1>1, <1>2, <1>4, <1>6
<1> HIDE DEF G1
<1>8. /\ Tidy(G1, dv2, size2, t) /\ EndsOf(G1) = EndsOf(G) /\ ObjectsOf(G1) = ObjectsOf(G)
      /\ \A x \in DOMAIN G \ {b} : Vacant(G1, dv2, x) <=> Vacant(G, dv, x)
      /\ b # dv2 /\ NextQuiet(G1, dv2, b)
      /\ IsUsed(G[c]) => (G[c].mark = "prevfree" <=> G[b].mark = "free")
  BY <1>2, <1>7, Quieted
<1>9. a \in Nat \ {0} /\ a # c /\ G1[a] = G[a] /\ a # dv2 /\ DOMAIN G1 = DOMAIN G
  <2>1. a \in Nat /\ b \in Nat /\ c \in Nat
    BY <1>1, <1>2, <1>4
  <2>2. a # c
    BY <1>5, <2>1
  <2> QED
    BY <1>1, <1>2, <1>7, <2>2 DEF NoVictim
<1>10. PrevQuiet(G1, dv2, t, a)
  <2>1. EndsOf(G)[b] # a
    BY <1>9
  <2> QED
    BY <1>8, <1>9, <2>1 DEF PrevQuiet
<1>11. b = a + RealSize(G1[a]) /\ G1[a].size = RealSize(G1[a])
  <2>1. RealSize(G1[a]) = RealSize(G[a]) /\ RealSize(G[a]) = G[a].size
    BY <1>9 DEF RealSize, IsUsed
  <2> QED
    BY <1>1, <1>9, <2>1
<1>12. /\ K[a] = [size |-> G1[a].size + G1[b].size, mark |-> "special"]
       /\ G1[b].mark = "special" /\ G1[a].mark = "special"
       /\ \A x \in DOMAIN G1 \ {a, b} : K[x] = G1[x]
  <2>1. \A x \in DOMAIN G1 \ {a, b} : K[x] = G1[x]
    BY <1>4, <1>7, <1>9
  <2> QED
    BY <1>7, <1>9, <2>1
<1>13. /\ Tidy(K, dv2, size2, t) /\ EndsOf(K)[a] = EndsOf(G1)[b]
       /\ PrevQuiet(G1, dv2, t, a) => PrevQuiet(K, dv2, t, a)
       /\ NextQuiet(G1, dv2, b) => NextQuiet(K, dv2, a)
       /\ ObjectsOf(K) = ObjectsOf(G1)
  <2>1. K \in [DOMAIN G1 \ {b} -> Block] /\ a \in DOMAIN G1 /\ b \notin t.last /\ b # dv2
    BY <1>3, <1>8, <1>9
  <2> QED
    BY <1>8, <1>9, <1>11, <1>12, <2>1, JoinTidy
<1> QED
  BY <1>2, <1>4, <1>8, <1>9, <1>10, <1>13

\* A vacant block takes up one behind it that is neither vacant nor in use.
LEMMA PrevAbsorbed ==
  ASSUME NEW G, NEW dv, NEW size, NEW t, Tidy(G, dv, size, t),
         NEW p \in DOMAIN G, Vacant(G, dv, p), NEW o, o = EndsOf(G)[p],
         o \notin t.last, G[o].mark = "special",
         NEW K \in [DOMAIN G \ {o} -> Block],
         K[p] = [size |-> RealSize(G[p]) + G[o].size, mark |-> "special"],
         \A x \in DOMAIN G \ {p, o} : K[x] = G[x],
         NEW dv2, dv2 = NoVictim(dv, p), NEW size2, size2 = IF dv = p THEN 0 ELSE size
  PROVE  /\ Tidy(K, dv2, size2, t) /\ ObjectsOf(K) = ObjectsOf(G)
         /\ EndsOf(K)[p] = EndsOf(G)[o] /\ PrevQuiet(K, dv2, t, p)
         /\ o \in DOMAIN G /\ o # p /\ p \notin t.first \cup t.last /\ p # dv2
<1> DEFINE G1 == [x \in DOMAIN G |-> IF x = p THEN [size |-> RealSize(G[p]), mark |-> "special"]
                                     ELSE G[x]]
<1>1. /\ G[p] \in Block /\ G \in [DOMAIN G -> Block] /\ RealSize(G[p]) \in Nat
      /\ o = p + RealSize(G[p]) /\ p \in Nat \ {0}
  BY TidyIs DEF Tidy
<1>2. p \notin t.first \cup t.last
  BY VacantQuiet
<1>3. o \in DOMAIN G /\ o # p /\ ~ Vacant(G, dv, o)
  BY <1>2, NextIs
<1>4. [size |-> RealSize(G[p]), mark |-> "special"] \in Block
  BY <1>1 DEF Block, Marks
<1>5. /\ G1 \in [DOMAIN G -> Block] /\ G1[p] = [size |-> RealSize(G[p]), mark |-> "special"]
      /\ \A x \in DOMAIN G \ {p} : G1[x] = G[x]
  BY <1>1, <1>4
<1> HIDE DEF G1
<1>6. G1[o] = Marked(G[o], "used")
  BY <1>3, <1>5 DEF Marked, IsUsed
<1>7. /\ Tidy(G1, dv2, size2, t) /\ EndsOf(G1) = EndsOf(G) /\ ObjectsOf(G1) = ObjectsOf(G)
      /\ PrevQuiet(G1, dv2, t, p) /\ p # dv2
      /\ \A x \in DOMAIN G \ {p} : Vacant(G1, dv2, x) <=> Vacant(G, dv, x)
  <2>1. \A x \in DOMAIN G \ {p, o} : G1[x] = G[x]
    BY <1>5
  <2> QED
    BY <1>5, <1>6, <2>1, Quieted
<1>8. G1[o] = G[o] /\ o # dv2 /\ DOMAIN G1 = DOMAIN G
  BY <1>3, <1>5, <1>7 DEF Vacant
<1>9. o = p + RealSize(G1[p]) /\ G1[p].size = RealSize(G[p]) /\ G1[p].mark = "special"
  BY <1>1, <1>5 DEF RealSize, IsUsed
<1>10. /\ Tidy(K, dv2, size2, t) /\ EndsOf(K)[p] = EndsOf(G1)[o]
       /\ PrevQuiet(G1, dv2, t, p) => PrevQuiet(K, dv2, t, p)
       /\ ObjectsOf(K) = ObjectsOf(G1)
  <2>1. /\ K \in [DOMAIN G1 \ {o} -> Block] /\ p \in DOMAIN G1
        /\ K[p] = [size |-> G1[p].size + G1[o].size, mark |-> "special"]
        /\ \A x \in DOMAIN G1 \ {p, o} : K[x] = G1[x]
        /\ G1[o].mark = "special" /\ G1[p].mark = "special" /\ o # dv2 /\ o \notin t.last
        /\ p \notin t.first \cup t.last /\ p # dv2 /\ o = p + RealSize(G1[p])
    BY <1>2, <1>5, <1>7, <1>8, <1>9
  <2>2. Tidy(G1, dv2, size2, t)
    BY <1>7
  <2> HIDE <1>1
  <2> QED
    BY <2>1, <2>2, JoinTidy
<1> QED
  BY <1>2, <1>3, <1>7, <1>10

\* Where there is no victim, a block between quiet neighbours becomes one.
LEMMA BecomesVictim ==
  ASSUME NEW G, NEW t, Tidy(G, 0, 0, t), NEW a \in DOMAIN G, a \notin t.first \cup t.last,
         NEW z, G[a] = [size |-> z, mark |-> "special"],
         PrevQuiet(G, 0, t, a), NextQuiet(G, 0, a)
  PROVE  Tidy(G, a, z, t)
<1> DEFINE b == EndsOf(G)[a]
<1>1. /\ G[a] \in Block /\ a \in Nat \ {0} /\ b = a + RealSize(G[a]) /\ RealSize(G[a]) >= MinObj
      /\ \A x \in DOMAIN G : x \in Nat \ {0}
  BY TidyIs
<1> HIDE DEF b
<1>2. /\ b \in DOMAIN G
      /\ IsUsed(G[b]) => (G[b].mark = "prevfree" <=> G[a].mark = "free")
  BY NextIs DEF b
<1>3. ~ IsUsed(G[a]) /\ G[a].mark = "special" /\ RealSize(G[a]) = z
  BY DEF IsUsed, RealSize
<1>4. G[b] = Marked(G[b], "used")
  <2>1. G[b] \in Block
    BY <1>2, TidyIs
  <2>2. G[b] = [size |-> G[b].size, mark |-> G[b].mark]
    BY <2>1, BlockIs
  <2>3. IsUsed(G[b]) => G[b].mark = "used"
    BY <1>2, <1>3 DEF IsUsed
  <2> QED
    BY <2>2, <2>3 DEF Marked
<1>5. VictimIs(G, a, z)
  BY <1>1, <1>3 DEF VictimIs
<1> DEFINE told == IF G[a].mark = "free" THEN "prevfree" ELSE "used"
<1>6. b \in DOMAIN G => G[b] = Marked(G[b], told)
  BY <1>3, <1>4
<1>7. /\ Vacant(G, a, a) => PrevQuiet(G, 0, t, a) /\ NextQuiet(G, 0, a)
      /\ IsUsed(G[a]) => G[a].mark = "used" /\ PrevQuiet(G, 0, t, a)
  BY <1>3
<1>8. G \in [DOMAIN G -> Block]
  BY DEF Tidy
<1>9. \A x \in DOMAIN G \ {a} : x = a <=> x = 0
  BY <1>1
<1> QED
  BY <1>1, <1>5, <1>6, <1>7, <1>8, <1>9, Remarked

\* A block between quiet neighbours becomes free.
LEMMA BecomesFree ==
  ASSUME NEW G, NEW dv, NEW size, NEW t, Tidy(G, dv, size, t),
         NEW a \in DOMAIN G, a \notin t.first \cup t.last, a # dv,
         NEW z, G[a] = [size |-> z, mark |-> "special"],
         PrevQuiet(G, dv, t, a), NextQuiet(G, dv, a),
         NEW K \in [DOMAIN G -> Block], K[a] = [size |-> z, mark |-> "free"],
         NEW b, b = a + z, K[b] = Marked(G[b], "prevfree"),
         \A x \in DOMAIN G \ {a, b} : K[x] = G[x]
  PROVE  /\ Tidy(K, dv, size, t) /\ ObjectsOf(K) = ObjectsOf(G)
         /\ b \in DOMAIN G /\ b # a /\ b = EndsOf(G)[a]
<1>1. ~ IsUsed(G[a]) /\ RealSize(G[a]) = z /\ ~ IsUsed(K[a]) /\ RealSize(K[a]) = z
      /\ K[a].mark = "free"
  BY DEF IsUsed, RealSize
<1>2. b = EndsOf(G)[a]
  BY <1>1 DEF EndsOf
<1>3. b \in DOMAIN G /\ b # a /\ ~ Vacant(G, dv, b)
  BY <1>2, NextIs DEF NextQuiet
<1>4. VictimIs(K, dv, size)
  <2>1. VictimIs(G, dv, size)
    BY DEF Tidy
  <2>2. dv # b
    BY <1>3 DEF Vacant
  <2> QED
    BY <2>1, <2>2 DEF VictimIs
<1> DEFINE told == IF K[a].mark = "free" THEN "prevfree" ELSE "used"
<1>5. b \in DOMAIN G => K[b] = Marked(G[b], told)
  BY <1>1
<1>6. IsUsed(K[a]) => K[a].mark = "used" /\ PrevQuiet(G, dv, t, a)
  BY <1>1
<1>7. \A x \in DOMAIN G \ {a} : x = dv <=> x = dv
  OBVIOUS
<1>8. /\ Tidy(K, dv, size, t)
      /\ ObjectsOf(K) = IF IsUsed(K[a]) THEN Put(ObjectsOf(G), a, RealSize(G[a]))
                        ELSE Without(ObjectsOf(G), a)
  BY <1>1, <1>4, <1>5, <1>6, <1>7, Remarked
<1>9. Without(ObjectsOf(G), a) = ObjectsOf(G)
  BY <1>1 DEF Without, Restrict, ObjectsOf
<1> QED
  BY <1>1, <1>2, <1>3, <1>8, <1>9

\* The victim as a block that is not idle.
LEMMA VictimLeaves ==
  ASSUME NEW H, NEW dv, NEW size, NEW t, Tidy(H, dv, size, t), dv # 0
  PROVE  /\ Tidy(H, 0, 0, t) /\ PrevQuiet(H, 0, t, dv) /\ NextQuiet(H, 0, dv)
         /\ dv \in DOMAIN H /\ dv \notin t.first \cup t.last
<1> DEFINE b == EndsOf(H)[dv]
<1>1. /\ dv \in DOMAIN H /\ H[dv] = [size |-> size, mark |-> "special"]
      /\ H \in [DOMAIN H -> Block]
  BY DEF Tidy, VictimIs
<1>2. Vacant(H, dv, dv)
  BY DEF Vacant
<1>3. H[dv] = [size |-> RealSize(H[dv]), mark |-> "special"] /\ H[dv].mark = "special"
  BY <1>1 DEF RealSize, IsUsed
<1>4. dv \notin t.first \cup t.last
  BY <1>1, <1>2, VacantQuiet
<1> HIDE DEF b
<1>5. b \in DOMAIN H /\ (IsUsed(H[b]) => (H[b].mark = "prevfree" <=> H[dv].mark = "free"))
  BY <1>1, <1>4, NextIs DEF b
<1>6. H[b] = Marked(H[b], "used")
  <2>1. H[b] = [size |-> H[b].size, mark |-> H[b].mark]
    BY <1>1, <1>5, BlockIs
  <2>2. IsUsed(H[b]) => H[b].mark = "used"
    BY <1>3, <1>5 DEF IsUsed
  <2> QED
    BY <2>1, <2>2 DEF Marked
<1>7. NoVictim(dv, dv) = 0 /\ 0 = (IF dv = dv THEN 0 ELSE size)
  BY DEF NoVictim
<1>8. \A x \in DOMAIN H \ {dv, b} : H[x] = H[x]
  OBVIOUS
<1>9. Tidy(H, 0, 0, t) /\ PrevQuiet(H, 0, t, dv) /\ NextQuiet(H, 0, dv)
  BY <1>1, <1>2, <1>3, <1>6, <1>7, <1>8, Quieted DEF b
<1> QED
  BY <1>1, <1>4, <1>9

\* No block is longer than the segment.
LEMMA GhostFits ==
  ASSUME NEW w, AreasApart(w), NEW G, NEW dv, NEW size, Tidy(G, dv, size, Bounds(w)),
         NEW a \in DOMAIN G
  PROVE  RealSize(G[a]) \in 0 .. SegmentSize
<1> DEFINE t == Bounds(w)
<1>1. t.top = w.segfree /\ w.segfree \in Nat /\ w.segfree <= SegmentSize
  BY DEF AreasApart, Bounds
<1> HIDE DEF t
<1>2. /\ a \in Nat /\ EndsOf(G)[a] = a + RealSize(G[a]) /\ EndsOf(G)[a] <= t.top
      /\ RealSize(G[a]) \in Nat
  BY TidyIs DEF t
<1> QED
  BY <1>1, <1>2, SizesAssumption

\* No two blocks end at the same place.
LEMMA GhostAlone ==
  ASSUME NEW G, NEW dv, NEW size, NEW t, Tidy(G, dv, size, t),
         NEW a \in DOMAIN G, NEW x \in DOMAIN G, x # a
  PROVE  x + RealSize(G[x]) # a + RealSize(G[a])
<1>1. Laid(EndsOf(G), t.top)
  BY DEF Tidy
<1>2. EndsOf(G)[a] = a + RealSize(G[a]) /\ EndsOf(G)[x] = x + RealSize(G[x])
      /\ DOMAIN EndsOf(G) = DOMAIN G
  BY DEF EndsOf
<1>3. EndsOf(G)[x] # EndsOf(G)[a]
  BY <1>1, <1>2, EndsDiffer
<1> QED
  BY <1>2, <1>3

-----------------------------------------------------------------------------
(* wg_free_object: what becomes of the merged block.                         *)

\* The heads G are those of w with block a, of z gints and marked so.
Beside(w, G, a, z, mark) ==
  /\ Tidy(G, w.dv, w.dvsize, Bounds(w))
  /\ a \in DOMAIN G /\ G[a] = [size |-> z, mark |-> mark]
  /\ DOMAIN w.head \cup {a} = DOMAIN G /\ a \notin FreeOf(w.head)
  /\ \A x \in DOMAIN G \ {a} : w.head[x] = G[x]
Sound(w, r, m) == IsHeap(w) /\ AreasApart(w) /\ Lists(w, r, m)

\* A block that is free already is put on its list.
LEMMA Enlisted ==
  ASSUME NEW w, NEW r, NEW m, Sound(w, r, m), NEW G, NEW a, NEW z, Beside(w, G, a, z, "free"),
         NEW k, k = PushFree(w, a, z)
  PROVE  Good(k) /\ k.head = G
<1> DEFINE t == Bounds(w)
<1>1. /\ Tidy(G, w.dv, w.dvsize, t) /\ a \in DOMAIN G /\ G[a] = [size |-> z, mark |-> "free"]
      /\ DOMAIN w.head \cup {a} = DOMAIN G /\ a \notin FreeOf(w.head)
      /\ \A x \in DOMAIN G \ {a} : w.head[x] = G[x]
  BY DEF Beside
<1>2. IsHeap(w) /\ AreasApart(w) /\ Lists(w, r, m)
  BY DEF Sound
<1>3. /\ IsHeap(k) /\ SameVictim(w, k) /\ SameAreas(w, k)
      /\ k.head = Put(w.head, a, [size |-> z, mark |-> "free"])
  BY <1>2, PushHead
<1>4. RealSize(G[a]) = z
  BY <1>1 DEF RealSize, IsUsed
<1>5. z \in 0 .. SegmentSize /\ BucketIndex(z) \in Buckets
  BY <1>1, <1>2, <1>4, GhostFits, SizeFits
<1>6. a \in Nat \ {0} /\ z \in Nat
  <2> HIDE DEF t
  <2> QED
    BY <1>1, <1>4, TidyIs
<1>7. \A x \in FreeOf(w.head) : EndOf(w, x) # a + z
  <2> TAKE x \in FreeOf(w.head)
  <2>1. x \in DOMAIN G /\ x # a /\ w.head[x] = G[x] /\ w.head[x].mark = "free"
    BY <1>1 DEF FreeOf
  <2>2. RealSize(G[x]) = G[x].size
    BY <2>1 DEF RealSize, IsUsed
  <2> HIDE DEF t
  <2>3. x + RealSize(G[x]) # a + RealSize(G[a])
    BY <1>1, <2>1, GhostAlone
  <2> QED
    BY <1>4, <2>1, <2>2, <2>3 DEF EndOf
<1>8. Lists(k, [r EXCEPT ![a] = m], m + 1)
  BY <1>1, <1>2, <1>5, <1>6, <1>7, Pushed
<1>9. k.head = G
  <2>1. G = [x \in DOMAIN G |-> G[x]]
    BY <1>1 DEF Tidy
  <2> QED
    BY <1>1, <1>3, <2>1 DEF Put
<1>10. k.dv = w.dv /\ k.dvsize = w.dvsize /\ k.subs = w.subs /\ k.segfree = w.segfree
  BY <1>3 DEF SameVictim, SameAreas
<1>11. HeapOK(k, [r EXCEPT ![a] = m], m + 1)
  <2>1. Tidy(k.head, k.dv, k.dvsize, Bounds(k))
    BY <1>1, <1>9, <1>10 DEF Bounds
  <2> QED
    BY <1>2, <1>3, <1>8, <1>10, <2>1 DEF HeapOK, AreasApart
<1> QED
  BY <1>9, <1>11 DEF Good

\* A free block that is on no list yet becomes a quiet one in its place.
LEMMA Unfreed ==
  ASSUME NEW w, NEW r, NEW m, Sound(w, r, m), NEW G, NEW a, NEW z, Beside(w, G, a, z, "free"),
         a \notin DOMAIN w.head,
         NEW k, k = MarkNext(SetVictim(w, a, z), a + z, "used")
  PROVE  LET t == Bounds(w)
         IN  /\ Sound(k, r, m) /\ k.dv = a /\ k.dvsize = z /\ Bounds(k) = t
             /\ Tidy(k.head, w.dv, w.dvsize, t) /\ ObjectsOf(k.head) = ObjectsOf(G)
             /\ DOMAIN k.head = DOMAIN G /\ k.head[a] = [size |-> z, mark |-> "special"]
             /\ a \notin t.first \cup t.last /\ a # w.dv /\ a \in Nat \ {0} /\ z \in Nat
             /\ PrevQuiet(k.head, w.dv, t, a) /\ NextQuiet(k.head, w.dv, a)
<1> DEFINE t == Bounds(w)
           s == SetVictim(w, a, z)
           b == a + z
           H == k.head
<1>1. /\ Tidy(G, w.dv, w.dvsize, t) /\ a \in DOMAIN G /\ G[a] = [size |-> z, mark |-> "free"]
      /\ DOMAIN w.head \cup {a} = DOMAIN G /\ a \notin FreeOf(w.head)
      /\ \A x \in DOMAIN G \ {a} : w.head[x] = G[x]
  BY DEF Beside
<1>2. IsHeap(w) /\ AreasApart(w) /\ Lists(w, r, m)
  BY DEF Sound
<1>3. /\ IsHeap(s) /\ SameLinks(w, s) /\ SameAreas(w, s) /\ s.dv = a /\ s.dvsize = z
      /\ s.head = Put(w.head, a, [size |-> z, mark |-> "special"])
  BY <1>2, SetVictimIs
<1>4. RealSize(G[a]) = z /\ Vacant(G, w.dv, a)
  BY <1>1 DEF RealSize, IsUsed, Vacant
<1>5. a \in Nat \ {0} /\ z \in Nat /\ b = EndsOf(G)[a] /\ G \in [DOMAIN G -> Block]
  <2> HIDE DEF t
  <2>1. a \in Nat \ {0} /\ z \in Nat /\ EndsOf(G)[a] = a + RealSize(G[a])
    BY <1>1, <1>4, TidyIs
  <2> QED
    BY <1>1, <1>4, <2>1 DEF Tidy
<1>6. b \in DOMAIN G /\ b # a
  <2> HIDE DEF t
  <2> QED
    BY <1>1, <1>4, <1>5, VacantQuiet, NextIs
<1>7. /\ DOMAIN s.head = DOMAIN G /\ s.head[a] = [size |-> z, mark |-> "special"]
      /\ \A x \in DOMAIN G \ {a} : s.head[x] = G[x]
  BY <1>1, <1>3 DEF Put
<1>8. s.head \in [DOMAIN s.head -> Block]
  <2>1. s.head = [x \in DOMAIN G |-> s.head[x]]
    BY <1>3, <1>7 DEF Put
  <2>2. [size |-> z, mark |-> "special"] \in Block
    BY <1>5 DEF Block, Marks
  <2>3. \A x \in DOMAIN G : s.head[x] \in Block
    BY <1>5, <1>7, <2>2
  <2> QED
    BY <1>7, <2>1, <2>3
<1> HIDE DEF s, b
<1>9. k = MarkNext(s, b, "used")
  BY DEF s, b
<1>10. /\ IsHeap(k) /\ SameLinks(s, k) /\ SameVictim(s, k) /\ SameAreas(s, k)
       /\ DOMAIN H = DOMAIN s.head /\ H[b] = Marked(s.head[b], "used")
       /\ \A x \in DOMAIN s.head \ {b} : H[x] = s.head[x]
  BY <1>3, <1>6, <1>7, <1>8, <1>9, MarkNextIs
<1>11. H \in [DOMAIN G -> Block]
  BY <1>3, <1>6, <1>7, <1>8, <1>9, MarkNextFcn
<1>12. /\ H[a] = [size |-> z, mark |-> "special"] /\ H[b] = Marked(G[b], "used")
       /\ \A x \in DOMAIN G \ {a, b} : H[x] = G[x]
  BY <1>1, <1>6, <1>7, <1>10
<1>13. w.dv # a
  <2> HIDE DEF t
  <2>1. w.dv # 0 => G[w.dv].mark = "special"
    BY <1>1, TidyIs
  <2> QED
    BY <1>1, <1>5, <2>1
<1>14. w.dv = NoVictim(w.dv, a) /\ w.dvsize = IF w.dv = a THEN 0 ELSE w.dvsize
  BY <1>13 DEF NoVictim
<1>15. /\ Tidy(H, w.dv, w.dvsize, t) /\ ObjectsOf(H) = ObjectsOf(G)
       /\ a \notin t.first \cup t.last
       /\ PrevQuiet(H, w.dv, t, a) /\ NextQuiet(H, w.dv, a)
  <2> HIDE DEF t, H
  <2> QED
    BY <1>1, <1>4, <1>5, <1>11, <1>12, <1>14, Quieted
<1>16. k.dv = a /\ k.dvsize = z /\ k.subs = w.subs /\ k.segfree = w.segfree
  BY <1>3, <1>10 DEF SameVictim, SameAreas
<1>17. FreeOf(H) = FreeOf(w.head) /\ \A x \in FreeOf(w.head) : H[x] = w.head[x]
  <2>1. H[a].mark = "special" /\ DOMAIN H = DOMAIN w.head \cup {a} /\ a \notin DOMAIN w.head
    BY <1>1, <1>7, <1>10, <1>12
  <2>2. \A x \in DOMAIN w.head \ {b} : H[x] = w.head[x]
    BY <1>1, <1>7, <1>10, <2>1
  <2>3. b \in DOMAIN w.head /\ H[b] = Marked(w.head[b], "used")
    BY <1>1, <1>6, <1>12
  <2>4. /\ IsUsed(w.head[b]) => H[b].mark = "used" /\ w.head[b].mark # "free"
        /\ ~ IsUsed(w.head[b]) => H[b] = w.head[b]
    BY <2>3 DEF Marked, IsUsed
  <2> HIDE DEF H
  <2>5. \A x \in DOMAIN w.head : H[x].mark = "free" <=> w.head[x].mark = "free"
    BY <2>2, <2>4
  <2>6. \A x \in DOMAIN w.head : w.head[x].mark = "free" => H[x] = w.head[x]
    BY <2>2, <2>4
  <2> QED
    BY <2>1, <2>5, <2>6 DEF FreeOf
<1>18. Lists(k, r, m)
  <2>1. SameLinks(w, k)
    BY <1>3, <1>10 DEF SameLinks
  <2> QED
    BY <1>2, <1>17, <2>1, ListsKept
<1>19. Bounds(k) = t
  BY <1>16 DEF Bounds
<1>20. Sound(k, r, m)
  BY <1>2, <1>10, <1>16, <1>18 DEF Sound, AreasApart
<1>21. DOMAIN H = DOMAIN G
  BY <1>7, <1>10
<1> HIDE DEF t, H
<1> QED
  BY <1>5, <1>12, <1>13, <1>15, <1>16, <1>19, <1>20, <1>21 DEF t, H

\* The old victim is listed once there is a new one.
LEMMA VictimListed ==
  ASSUME NEW g, NEW r, NEW m, Sound(g, r, m), NEW H, H = g.head,
         NEW d, NEW size, d # 0, NEW t, t = Bounds(g), Tidy(H, d, size, t),
         NEW a \in DOMAIN H, a \notin t.first \cup t.last, a # d, a = g.dv,
         H[a] = [size |-> g.dvsize, mark |-> "special"],
         PrevQuiet(H, d, t, a), NextQuiet(H, d, a),
         NEW k, k = PushFree(MarkNext(g, d + size, "prevfree"), d, size)
  PROVE  Good(k) /\ ObjectsOf(k.head) = ObjectsOf(H)
<1> DEFINE e == d + size
           u == MarkNext(g, e, "prevfree")
           G == [x \in DOMAIN H |-> IF x = d THEN [size |-> size, mark |-> "free"] ELSE u.head[x]]
<1>1. IsHeap(g) /\ AreasApart(g) /\ Lists(g, r, m)
  BY DEF Sound
<1>2. /\ Tidy(H, 0, 0, t) /\ PrevQuiet(H, 0, t, d) /\ NextQuiet(H, 0, d)
      /\ d \in DOMAIN H /\ d \notin t.first \cup t.last
  BY VictimLeaves
<1>3. /\ \A x \in DOMAIN H : x \in Nat \ {0} /\ EndsOf(H)[x] = x + RealSize(H[x])
      /\ H[d] = [size |-> size, mark |-> "special"]
  BY <1>2, TidyIs DEF Tidy, VictimIs
<1>4. RealSize(H[d]) = size /\ e = EndsOf(H)[d] /\ size \in Nat
  <2>1. RealSize(H[d]) = size
    BY <1>3 DEF RealSize, IsUsed
  <2> QED
    BY <1>2, <1>3, <2>1, TidyIs
<1>5. Tidy(H, a, g.dvsize, t)
  <2>1. PrevQuiet(H, 0, t, a) /\ NextQuiet(H, 0, a)
    <3>1. \A x \in DOMAIN H : Vacant(H, 0, x) => Vacant(H, d, x)
      BY <1>3 DEF Vacant
    <3>2. EndsOf(H)[a] \in DOMAIN H
      BY NextIs
    <3> QED
      BY <3>1, <3>2 DEF PrevQuiet, NextQuiet
  <2> QED
    BY <1>2, <2>1, BecomesVictim
<1>6. PrevQuiet(H, a, t, d) /\ NextQuiet(H, a, d)
  <2>1. EndsOf(H)[a] # d
    BY DEF NextQuiet, Vacant
  <2>2. EndsOf(H)[d] # a
    BY <1>2 DEF PrevQuiet, Vacant
  <2> QED
    BY <1>2, <2>1, <2>2 DEF PrevQuiet, NextQuiet, Vacant
<1>7. e \in DOMAIN H /\ e # d
  BY <1>2, <1>4, NextIs
<1>8. H \in [DOMAIN H -> Block]
  BY DEF Tidy
<1> HIDE DEF u, e
<1>9. u = MarkNext(g, e, "prevfree")
  BY DEF u
<1>10. /\ IsHeap(u) /\ SameLinks(g, u) /\ SameVictim(g, u) /\ SameAreas(g, u)
       /\ DOMAIN u.head = DOMAIN H /\ u.head[e] = Marked(H[e], "prevfree")
       /\ \A x \in DOMAIN H \ {e} : u.head[x] = H[x]
  BY <1>1, <1>7, <1>8, <1>9, MarkNextIs
<1>11. u.head \in [DOMAIN H -> Block]
  BY <1>1, <1>7, <1>8, <1>9, MarkNextFcn
<1>12. [size |-> size, mark |-> "free"] \in Block
  BY <1>4 DEF Block, Marks
<1>13. /\ G \in [DOMAIN H -> Block] /\ G[d] = [size |-> size, mark |-> "free"]
       /\ \A x \in DOMAIN H \ {d} : G[x] = u.head[x]
  BY <1>2, <1>11, <1>12
<1> HIDE DEF G
<1>14. G[e] = Marked(H[e], "prevfree") /\ \A x \in DOMAIN H \ {d, e} : G[x] = H[x]
  BY <1>7, <1>10, <1>13
<1>15. Tidy(G, a, g.dvsize, t) /\ ObjectsOf(G) = ObjectsOf(H)
  <2>1. e = d + size
    BY DEF e
  <2> QED
    BY <1>2, <1>3, <1>5, <1>6, <1>13, <1>14, <2>1, BecomesFree
<1>16. FreeOf(u.head) = FreeOf(H) /\ \A x \in FreeOf(H) : u.head[x] = H[x]
  <2>1. /\ IsUsed(H[e]) => u.head[e].mark = "prevfree" /\ H[e].mark # "free"
        /\ ~ IsUsed(H[e]) => u.head[e] = H[e]
    BY <1>10 DEF Marked, IsUsed
  <2>2. \A x \in DOMAIN H : u.head[x].mark = "free" <=> H[x].mark = "free"
    BY <1>10, <2>1
  <2>3. \A x \in DOMAIN H : H[x].mark = "free" => u.head[x] = H[x]
    BY <1>10, <2>1
  <2> QED
    BY <1>10, <2>2, <2>3 DEF FreeOf
<1>17. Lists(u, r, m)
  BY <1>1, <1>10, <1>16, ListsKept
<1>18. u.dv = a /\ u.dvsize = g.dvsize /\ u.subs = g.subs /\ u.segfree = g.segfree
  BY <1>10 DEF SameVictim, SameAreas
<1>19. Sound(u, r, m)
  BY <1>1, <1>10, <1>17, <1>18 DEF Sound, AreasApart
<1>20. Beside(u, G, d, size, "free")
  <2>1. d \notin FreeOf(u.head)
    BY <1>3, <1>16 DEF FreeOf
  <2>2. Tidy(G, u.dv, u.dvsize, Bounds(u))
    BY <1>15, <1>18 DEF Bounds
  <2>3. DOMAIN G = DOMAIN H
    BY <1>13
  <2> QED
    BY <1>2, <1>10, <1>13, <2>1, <2>2, <2>3 DEF Beside
<1>21. k = PushFree(u, d, size)
  BY <1>9 DEF e
<1>22. Good(k) /\ k.head = G
  BY <1>19, <1>20, <1>21, Enlisted
<1> QED
  BY <1>15, <1>22

\* A block that has been merged becomes the victim or is listed.
LEMMA Settled ==
  ASSUME NEW w, NEW r, NEW m, Sound(w, r, m), NEW G, NEW a, NEW z, Beside(w, G, a, z, "free"),
         a \notin DOMAIN w.head, NEW k, k = Settle(w, a, z)
  PROVE  Good(k) /\ ObjectsOf(k.head) = ObjectsOf(G)
<1> DEFINE u == MarkNext(SetVictim(w, a, z), a + z, "used")
           t == Bounds(w)
           H == u.head
<1>1. CASE z <= w.dvsize
  BY <1>1, Enlisted DEF Settle
<1>2. CASE ~ (z <= w.dvsize)
  <2>1. /\ Sound(u, r, m) /\ u.dv = a /\ u.dvsize = z /\ Bounds(u) = t
        /\ Tidy(H, w.dv, w.dvsize, t) /\ ObjectsOf(H) = ObjectsOf(G)
        /\ DOMAIN H = DOMAIN G /\ H[a] = [size |-> z, mark |-> "special"]
        /\ a \notin t.first \cup t.last /\ a # w.dv /\ a \in Nat \ {0} /\ z \in Nat
        /\ PrevQuiet(H, w.dv, t, a) /\ NextQuiet(H, w.dv, a)
    BY Unfreed
  <2>2. a \in DOMAIN H
    BY <2>1 DEF Beside
  <2>3. CASE w.dv = 0
    <3>1. k = u
      BY <1>2, <2>3 DEF Settle
    <3> HIDE DEF u, t, H
    <3>2. w.dvsize = 0
      BY <2>1, <2>3, TidyIs
    <3>3. Tidy(H, a, z, t)
      BY <2>1, <2>2, <2>3, <3>2, BecomesVictim
    <3>4. HeapOK(u, r, m)
      BY <2>1, <3>3 DEF HeapOK, Sound, H
    <3> QED
      BY <2>1, <3>1, <3>4 DEF Good, H
  <2>4. CASE w.dv # 0
    <3>1. k = PushFree(MarkNext(u, w.dv + w.dvsize, "prevfree"), w.dv, w.dvsize)
      BY <1>2, <2>4 DEF Settle
    <3> HIDE DEF u, t
    <3>2. t = Bounds(u)
      BY <2>1
    <3>3. Good(k) /\ ObjectsOf(k.head) = ObjectsOf(H)
      BY <2>1, <2>2, <2>4, <3>1, <3>2, VictimListed
    <3> QED
      BY <2>1, <3>3
  <2> QED
    BY <2>3, <2>4
<1> QED
  BY <1>1, <1>2

\* A block of no list that is not merged with the one behind it yet.
Pending(w, G, a, z) ==
  /\ Beside(w, G, a, z, "special") /\ a \notin DOMAIN w.head /\ a # w.dv
  /\ w.head \in [DOMAIN w.head -> Block]
  /\ a \notin Bounds(w).first \cup Bounds(w).last
  /\ PrevQuiet(G, w.dv, Bounds(w), a)

\* What is behind such a block.
LEMMA PendingIs ==
  ASSUME NEW w, NEW G, NEW a, NEW z, Pending(w, G, a, z), NEW t, t = Bounds(w)
  PROVE  /\ Tidy(G, w.dv, w.dvsize, t) /\ a \in DOMAIN G /\ a \in Nat \ {0}
         /\ G[a] = [size |-> z, mark |-> "special"] /\ z \in Nat /\ RealSize(G[a]) = z
         /\ a \notin t.first \cup t.last /\ a # w.dv /\ PrevQuiet(G, w.dv, t, a)
         /\ a + z = EndsOf(G)[a] /\ a + z \in DOMAIN G /\ a + z # a
         /\ DOMAIN w.head = DOMAIN G \ {a} /\ \A x \in DOMAIN G \ {a} : w.head[x] = G[x]
         /\ G \in [DOMAIN G -> Block]
<1>1. /\ Tidy(G, w.dv, w.dvsize, t) /\ a \in DOMAIN G /\ G[a] = [size |-> z, mark |-> "special"]
      /\ a \notin t.first \cup t.last /\ a # w.dv /\ PrevQuiet(G, w.dv, t, a)
      /\ DOMAIN w.head = DOMAIN G \ {a} /\ \A x \in DOMAIN G \ {a} : w.head[x] = G[x]
  BY DEF Pending, Beside
<1>2. RealSize(G[a]) = z
  BY <1>1 DEF RealSize, IsUsed
<1>3. a \in Nat \ {0} /\ z \in Nat /\ EndsOf(G)[a] = a + RealSize(G[a])
  BY <1>1, <1>2, TidyIs
<1>4. a + z \in DOMAIN G /\ a + z # a
  BY <1>1, <1>2, <1>3, NextIs
<1>5. G \in [DOMAIN G -> Block]
  BY <1>1 DEF Tidy
<1> QED
  BY <1>1, <1>2, <1>3, <1>4, <1>5

\* A free block behind it is taken off its list and merged.
LEMMA FreeMerged ==
  ASSUME NEW w, NEW r, NEW m, Sound(w, r, m), NEW G, NEW a, NEW z, Pending(w, G, a, z),
         NEW b, b = a + z, w.head[b].mark = "free",
         NEW k, k = Settle(Unlink(w, b), a, z + w.head[b].size)
  PROVE  Good(k) /\ ObjectsOf(k.head) = ObjectsOf(G)
<1> DEFINE t == Bounds(w)
           c == EndsOf(G)[b]
           y == z + w.head[b].size
           u == Unlink(w, b)
           K == [x \in DOMAIN G \ {b} |-> IF x = a THEN [size |-> y, mark |-> "special"]
                                          ELSE IF x = c THEN Marked(G[c], "used") ELSE G[x]]
           L == [x \in DOMAIN G \ {b} |-> IF x = a THEN [size |-> y, mark |-> "free"] ELSE G[x]]
<1>1. /\ Tidy(G, w.dv, w.dvsize, t) /\ a \in DOMAIN G /\ a \in Nat \ {0}
      /\ G[a] = [size |-> z, mark |-> "special"] /\ z \in Nat /\ RealSize(G[a]) = z
      /\ a \notin t.first \cup t.last /\ a # w.dv /\ PrevQuiet(G, w.dv, t, a)
      /\ b = EndsOf(G)[a] /\ b \in DOMAIN G /\ b # a
      /\ DOMAIN w.head = DOMAIN G \ {a} /\ \A x \in DOMAIN G \ {a} : w.head[x] = G[x]
      /\ G \in [DOMAIN G -> Block]
  BY PendingIs
<1>2. IsHeap(w) /\ AreasApart(w) /\ Lists(w, r, m)
  BY DEF Sound
<1> HIDE DEF t
<1>3. /\ G[b] = w.head[b] /\ G[b].mark = "free" /\ RealSize(G[b]) = G[b].size
      /\ Vacant(G, w.dv, b) /\ b # w.dv
  <2>1. G[b] = w.head[b] /\ G[b].mark = "free"
    BY <1>1
  <2>2. b # w.dv
    BY <1>1, <2>1, TidyIs
  <2> QED
    BY <2>1, <2>2 DEF RealSize, IsUsed, Vacant
<1>4. G[b].size \in Nat /\ c \in DOMAIN G /\ c # b /\ c # a /\ c = b + G[b].size
  <2>1. b \notin t.first \cup t.last
    BY <1>1, <1>3, VacantQuiet
  <2>2. c \in DOMAIN G /\ c # b
    BY <1>1, <2>1, NextIs
  <2>3. /\ a + MinObj <= b /\ b + MinObj <= c /\ b \in Nat /\ c \in Nat
        /\ c = b + RealSize(G[b]) /\ RealSize(G[b]) \in Nat
    BY <1>1, TidyIs
  <2> QED
    BY <1>1, <1>3, <2>2, <2>3 DEF MinObj
<1>5. y \in Nat /\ y = G[a].size + RealSize(G[b]) /\ a + y = c
  BY <1>1, <1>3, <1>4
<1> HIDE DEF y, c
<1>6. /\ [size |-> y, mark |-> "special"] \in Block /\ [size |-> y, mark |-> "free"] \in Block
      /\ Marked(G[c], "used") \in Block
  BY <1>1, <1>4, <1>5, MarkedIs DEF Block, Marks
<1>7. /\ K \in [DOMAIN G \ {b} -> Block] /\ K[a] = [size |-> y, mark |-> "special"]
      /\ K[c] = Marked(G[c], "used") /\ \A x \in DOMAIN G \ {a, b, c} : K[x] = G[x]
  BY <1>1, <1>4, <1>6
<1>8. /\ L \in [DOMAIN G \ {b} -> Block] /\ L[a] = [size |-> y, mark |-> "free"]
      /\ \A x \in DOMAIN G \ {a, b} : L[x] = G[x]
  BY <1>1, <1>6
<1> HIDE DEF K, L
<1>9. /\ Tidy(K, w.dv, w.dvsize, t) /\ ObjectsOf(K) = ObjectsOf(G) /\ EndsOf(K)[a] = c
      /\ PrevQuiet(K, w.dv, t, a) /\ NextQuiet(K, w.dv, a)
      /\ IsUsed(G[c]) => G[c].mark = "prevfree"
  <2>1. w.dv = NoVictim(w.dv, b) /\ w.dvsize = IF w.dv = b THEN 0 ELSE w.dvsize
    BY <1>3 DEF NoVictim
  <2>2. c = EndsOf(G)[b] /\ K[a] = [size |-> G[a].size + RealSize(G[b]), mark |-> "special"]
    BY <1>5, <1>7 DEF c
  <2>3. G[a].mark = "special"
    BY <1>1
  <2>4. b = EndsOf(G)[a]
    BY <1>1
  <2>5. /\ Tidy(K, w.dv, w.dvsize, t) /\ ObjectsOf(K) = ObjectsOf(G) /\ EndsOf(K)[a] = c
        /\ PrevQuiet(K, w.dv, t, a) /\ NextQuiet(K, w.dv, a)
        /\ IsUsed(G[c]) => (G[c].mark = "prevfree" <=> G[b].mark = "free")
    BY <1>1, <1>3, <1>7, <2>1, <2>2, <2>3, <2>4, NextAbsorbed
  <2> QED
    BY <1>3, <2>5
<1>10. L[c] = Marked(K[c], "prevfree") /\ \A x \in DOMAIN K \ {a, c} : L[x] = K[x]
  <2>1. G[c] = [size |-> G[c].size, mark |-> G[c].mark]
    BY <1>1, <1>4, BlockIs
  <2>2. Marked(Marked(G[c], "used"), "prevfree") = G[c]
    BY <1>9, <2>1 DEF Marked, IsUsed
  <2> QED
    BY <1>4, <1>7, <1>8, <2>2
<1>11. Tidy(L, w.dv, w.dvsize, t) /\ ObjectsOf(L) = ObjectsOf(G)
  <2>1. L \in [DOMAIN K -> Block] /\ a \in DOMAIN K /\ c = a + y
    BY <1>1, <1>5, <1>7, <1>8
  <2> QED
    BY <1>1, <1>7, <1>8, <1>9, <1>10, <2>1, BecomesFree
<1>12. IsHeap(u) /\ SameVictim(w, u) /\ SameAreas(w, u) /\ u.head = Without(w.head, b)
  BY <1>2, UnlinkHead
<1>13. Lists(u, r, m)
  <2>1. b \in FreeOf(w.head)
    BY <1>1 DEF FreeOf
  <2> QED
    BY <1>2, <2>1, Unlinked
<1>14. u.dv = w.dv /\ u.dvsize = w.dvsize /\ u.subs = w.subs /\ u.segfree = w.segfree
  BY <1>12 DEF SameVictim, SameAreas
<1>15. Sound(u, r, m)
  BY <1>2, <1>12, <1>13, <1>14 DEF Sound, AreasApart
<1>16. DOMAIN u.head = DOMAIN G \ {a, b} /\ \A x \in DOMAIN G \ {a, b} : u.head[x] = G[x]
  <2>1. /\ DOMAIN u.head = DOMAIN w.head \ {b}
        /\ \A x \in DOMAIN w.head \ {b} : u.head[x] = w.head[x]
    BY <1>12 DEF Without, Restrict
  <2> HIDE DEF u
  <2> QED
    BY <1>1, <2>1
<1>17. Beside(u, L, a, y, "free") /\ a \notin DOMAIN u.head
  <2>1. Tidy(L, u.dv, u.dvsize, Bounds(u))
    BY <1>11, <1>14 DEF Bounds, t
  <2>2. a \notin FreeOf(u.head)
    BY <1>16 DEF FreeOf
  <2> QED
    BY <1>1, <1>8, <1>16, <2>1, <2>2 DEF Beside
<1>18. k = Settle(u, a, y)
  BY DEF y
<1> HIDE DEF u
<1> QED
  BY <1>11, <1>15, <1>17, <1>18, Settled

\* The victim behind it is merged: the victim starts here then.
LEMMA VictimMerged ==
  ASSUME NEW w, NEW r, NEW m, Sound(w, r, m), NEW G, NEW a, NEW z, Pending(w, G, a, z),
         NEW b, b = a + z, b = w.dv,
         NEW k, k = SetVictim(DropHead(w, b), a, z + w.dvsize)
  PROVE  Good(k) /\ ObjectsOf(k.head) = ObjectsOf(G)
<1> DEFINE t == Bounds(w)
           c == EndsOf(G)[b]
           y == z + w.dvsize
           u == DropHead(w, b)
           K == k.head
<1>1. /\ Tidy(G, w.dv, w.dvsize, t) /\ a \in DOMAIN G /\ a \in Nat \ {0}
      /\ G[a] = [size |-> z, mark |-> "special"] /\ z \in Nat /\ RealSize(G[a]) = z
      /\ a \notin t.first \cup t.last /\ a # w.dv /\ PrevQuiet(G, w.dv, t, a)
      /\ b = EndsOf(G)[a] /\ b \in DOMAIN G /\ b # a
      /\ DOMAIN w.head = DOMAIN G \ {a} /\ \A x \in DOMAIN G \ {a} : w.head[x] = G[x]
      /\ G \in [DOMAIN G -> Block]
  BY PendingIs
<1>2. IsHeap(w) /\ AreasApart(w) /\ Lists(w, r, m)
  BY DEF Sound
<1> HIDE DEF t
<1>3. /\ G[b].mark = "special" /\ RealSize(G[b]) = w.dvsize /\ Vacant(G, w.dv, b)
      /\ w.dvsize \in Nat /\ b \in Nat \ {0}
  BY <1>1, TidyIs DEF Vacant
<1>4. c \in DOMAIN G /\ c # b /\ c # a /\ (IsUsed(G[c]) => (G[c].mark = "prevfree" <=> G[b].mark = "free"))
  <2>1. b \notin t.first \cup t.last
    BY <1>1, <1>3, VacantQuiet
  <2>2. c \in DOMAIN G /\ c # b /\ (IsUsed(G[c]) => (G[c].mark = "prevfree" <=> G[b].mark = "free"))
    BY <1>1, <2>1, NextIs
  <2>3. a + MinObj <= b /\ b + MinObj <= c /\ b \in Nat /\ c \in Nat
    BY <1>1, TidyIs
  <2> QED
    BY <1>1, <2>2, <2>3 DEF MinObj
<1>5. y \in Nat /\ y = G[a].size + RealSize(G[b])
  BY <1>1, <1>3
<1>6. IsHeap(u) /\ SameLinks(w, u) /\ SameVictim(w, u) /\ SameAreas(w, u) /\ u.head = Without(w.head, b)
  BY <1>2, DropHeadIs
<1>7. k = SetVictim(u, a, y)
  OBVIOUS
<1> HIDE DEF y, c, u
<1>8. /\ IsHeap(k) /\ SameLinks(u, k) /\ SameAreas(u, k) /\ k.dv = a /\ k.dvsize = y
      /\ K = Put(u.head, a, [size |-> y, mark |-> "special"])
  BY <1>6, <1>7, SetVictimIs
<1>9. DOMAIN u.head = DOMAIN G \ {a, b} /\ \A x \in DOMAIN G \ {a, b} : u.head[x] = G[x]
  <2>1. /\ DOMAIN u.head = DOMAIN w.head \ {b}
        /\ \A x \in DOMAIN w.head \ {b} : u.head[x] = w.head[x]
    BY <1>6 DEF Without, Restrict
  <2> HIDE DEF u
  <2> QED
    BY <1>1, <2>1
<1>10. /\ DOMAIN K = DOMAIN G \ {b} /\ K[a] = [size |-> y, mark |-> "special"]
       /\ \A x \in DOMAIN G \ {a, b} : K[x] = G[x]
  BY <1>1, <1>8, <1>9 DEF Put
<1>11. K \in [DOMAIN G \ {b} -> Block]
  <2>1. [size |-> y, mark |-> "special"] \in Block
    BY <1>5 DEF Block, Marks
  <2>2. \A x \in DOMAIN G \ {b} : K[x] \in Block
    BY <1>1, <1>10, <2>1
  <2>3. K = [x \in DOMAIN G \ {b} |-> K[x]]
    BY <1>8, <1>10 DEF Put
  <2> QED
    BY <2>2, <2>3
<1>12. K[c] = Marked(G[c], "used")
  <2>1. G[c] = [size |-> G[c].size, mark |-> G[c].mark]
    BY <1>1, <1>4, BlockIs
  <2>2. G[c] = Marked(G[c], "used")
    BY <1>3, <1>4, <2>1 DEF Marked, IsUsed
  <2> QED
    BY <1>4, <1>10, <2>2
<1>13. FreeOf(K) = FreeOf(w.head) /\ \A x \in FreeOf(w.head) : K[x] = w.head[x]
  <2>1. w.head[b].mark # "free" /\ K[a].mark # "free"
    BY <1>1, <1>3, <1>10
  <2>2. DOMAIN K = (DOMAIN w.head \ {b}) \cup {a}
    BY <1>1, <1>10
  <2>3. \A x \in DOMAIN w.head \ {b} : K[x] = w.head[x] /\ x # a
    BY <1>1, <1>10
  <2> HIDE DEF K
  <2> QED
    BY <2>1, <2>2, <2>3 DEF FreeOf
<1> HIDE DEF K
<1>14. /\ Tidy(K, 0, 0, t) /\ ObjectsOf(K) = ObjectsOf(G)
       /\ PrevQuiet(K, 0, t, a) /\ NextQuiet(K, 0, a)
  <2>1. 0 = NoVictim(w.dv, b) /\ 0 = IF w.dv = b THEN 0 ELSE w.dvsize
    BY DEF NoVictim
  <2>2. c = EndsOf(G)[b] /\ K[a] = [size |-> G[a].size + RealSize(G[b]), mark |-> "special"]
    BY <1>5, <1>10 DEF c
  <2>3. G[a].mark = "special"
    BY <1>1
  <2>4. \A x \in DOMAIN G \ {a, b, c} : K[x] = G[x]
    BY <1>10
  <2>5. b = EndsOf(G)[a]
    BY <1>1
  <2> QED
    BY <1>1, <1>3, <1>11, <1>12, <2>1, <2>2, <2>3, <2>4, <2>5, NextAbsorbed
<1>15. Tidy(K, a, y, t)
  BY <1>1, <1>10, <1>14, BecomesVictim
<1>16. k.subs = w.subs /\ k.segfree = w.segfree /\ SameLinks(w, k)
  BY <1>6, <1>8 DEF SameAreas, SameLinks
<1>17. Lists(k, r, m)
  BY <1>2, <1>13, <1>16, ListsKept DEF K
<1>18. HeapOK(k, r, m)
  <2>1. Tidy(k.head, k.dv, k.dvsize, Bounds(k))
    BY <1>8, <1>15, <1>16 DEF Bounds, t, K
  <2> QED
    BY <1>2, <1>8, <1>16, <1>17, <2>1 DEF HeapOK, AreasApart
<1> QED
  BY <1>14, <1>18 DEF Good, K

\* The block behind it stays and is told.
LEMMA NoneMerged ==
  ASSUME NEW w, NEW r, NEW m, Sound(w, r, m), NEW G, NEW a, NEW z, Pending(w, G, a, z),
         NEW b, b = a + z, w.head[b].mark # "free", b # w.dv,
         NEW k, k = Settle(MarkNext(w, b, "prevfree"), a, z)
  PROVE  Good(k) /\ ObjectsOf(k.head) = ObjectsOf(G)
<1> DEFINE t == Bounds(w)
           u == MarkNext(w, b, "prevfree")
           L == [x \in DOMAIN G |-> IF x = a THEN [size |-> z, mark |-> "free"] ELSE u.head[x]]
<1>1. /\ Tidy(G, w.dv, w.dvsize, t) /\ a \in DOMAIN G /\ a \in Nat \ {0}
      /\ G[a] = [size |-> z, mark |-> "special"] /\ z \in Nat /\ RealSize(G[a]) = z
      /\ a \notin t.first \cup t.last /\ a # w.dv /\ PrevQuiet(G, w.dv, t, a)
      /\ b = EndsOf(G)[a] /\ b \in DOMAIN G /\ b # a
      /\ DOMAIN w.head = DOMAIN G \ {a} /\ \A x \in DOMAIN G \ {a} : w.head[x] = G[x]
      /\ G \in [DOMAIN G -> Block]
  BY PendingIs
<1>2. IsHeap(w) /\ AreasApart(w) /\ Lists(w, r, m)
  BY DEF Sound
<1> HIDE DEF t
<1>3. w.head \in [DOMAIN w.head -> Block] /\ b \in DOMAIN w.head
  BY <1>1 DEF Pending
<1> HIDE DEF u
<1>4. u = MarkNext(w, b, "prevfree")
  BY DEF u
<1>5. /\ IsHeap(u) /\ SameLinks(w, u) /\ SameVictim(w, u) /\ SameAreas(w, u)
      /\ DOMAIN u.head = DOMAIN w.head /\ u.head[b] = Marked(w.head[b], "prevfree")
      /\ \A x \in DOMAIN w.head \ {b} : u.head[x] = w.head[x]
  BY <1>2, <1>3, <1>4, MarkNextIs
<1>6. u.head \in [DOMAIN w.head -> Block]
  BY <1>2, <1>3, <1>4, <1>5, MarkNextFcn
<1>7. [size |-> z, mark |-> "free"] \in Block
  BY <1>1 DEF Block, Marks
<1>8. /\ L \in [DOMAIN G -> Block] /\ L[a] = [size |-> z, mark |-> "free"]
      /\ \A x \in DOMAIN G \ {a} : L[x] = u.head[x]
  BY <1>1, <1>6, <1>7
<1> HIDE DEF L
<1>9. L[b] = Marked(G[b], "prevfree") /\ \A x \in DOMAIN G \ {a, b} : L[x] = G[x]
  BY <1>1, <1>5, <1>8
<1>10. NextQuiet(G, w.dv, a)
  BY <1>1 DEF NextQuiet, Vacant
<1>11. Tidy(L, w.dv, w.dvsize, t) /\ ObjectsOf(L) = ObjectsOf(G)
  BY <1>1, <1>8, <1>9, <1>10, BecomesFree
<1>12. FreeOf(u.head) = FreeOf(w.head) /\ \A x \in FreeOf(w.head) : u.head[x] = w.head[x]
  <2>1. /\ IsUsed(w.head[b]) => u.head[b].mark = "prevfree" /\ w.head[b].mark # "free"
        /\ ~ IsUsed(w.head[b]) => u.head[b] = w.head[b]
    BY <1>5 DEF Marked, IsUsed
  <2>2. \A x \in DOMAIN w.head : u.head[x].mark = "free" <=> w.head[x].mark = "free"
    BY <1>5, <2>1
  <2>3. \A x \in DOMAIN w.head : w.head[x].mark = "free" => u.head[x] = w.head[x]
    BY <1>5, <2>1
  <2> QED
    BY <1>5, <2>2, <2>3 DEF FreeOf
<1>13. Lists(u, r, m)
  BY <1>2, <1>5, <1>12, ListsKept
<1>14. u.dv = w.dv /\ u.dvsize = w.dvsize /\ u.subs = w.subs /\ u.segfree = w.segfree
  BY <1>5 DEF SameVictim, SameAreas
<1>15. Sound(u, r, m)
  BY <1>2, <1>5, <1>13, <1>14 DEF Sound, AreasApart
<1>16. Beside(u, L, a, z, "free") /\ a \notin DOMAIN u.head
  <2>1. Tidy(L, u.dv, u.dvsize, Bounds(u))
    BY <1>11, <1>14 DEF Bounds, t
  <2>2. a \notin FreeOf(u.head) /\ a \notin DOMAIN u.head
    BY <1>1, <1>5 DEF FreeOf
  <2> QED
    BY <1>1, <1>5, <1>8, <2>1, <2>2 DEF Beside
<1>17. k = Settle(u, a, z)
  BY <1>4
<1> QED
  BY <1>11, <1>15, <1>16, <1>17, Settled

\* Whatever is behind it.
LEMMA NextMerged ==
  ASSUME NEW w, NEW r, NEW m, Sound(w, r, m), NEW G, NEW a, NEW z, Pending(w, G, a, z),
         NEW k, k = MergeNext(w, a, z)
  PROVE  Good(k) /\ ObjectsOf(k.head) = ObjectsOf(G)
<1> DEFINE b == a + z
<1>1. CASE w.head[b].mark = "free"
  <2>1. k = Settle(Unlink(w, b), a, z + w.head[b].size)
    BY <1>1 DEF MergeNext
  <2> HIDE DEF b
  <2> QED
    BY <1>1, <2>1, FreeMerged DEF b
<1>2. CASE w.head[b].mark # "free" /\ b = w.dv
  <2>1. k = SetVictim(DropHead(w, b), a, z + w.dvsize)
    BY <1>2 DEF MergeNext
  <2> HIDE DEF b
  <2> QED
    BY <1>2, <2>1, VictimMerged DEF b
<1>3. CASE w.head[b].mark # "free" /\ b # w.dv
  <2>1. k = Settle(MarkNext(w, b, "prevfree"), a, z)
    BY <1>3 DEF MergeNext
  <2> HIDE DEF b
  <2> QED
    BY <1>3, <2>1, NoneMerged DEF b
<1> QED
  BY <1>1, <1>2, <1>3

\* The heads with object o as a block that is not in use.
Loosen(H, o) ==
  [x \in DOMAIN H |-> IF x = o THEN [size |-> UsedSize(H[o].size), mark |-> "special"] ELSE H[x]]

\* An object that loses its head.
LEMMA Loosened ==
  ASSUME NEW g, NEW r, NEW m, HeapOK(g, r, m), NEW o \in DOMAIN ObjectsOf(g.head),
         NEW G, G = Loosen(g.head, o), NEW w, w = DropHead(g, o),
         NEW t, t = Bounds(g), NEW z, z = UsedSize(g.head[o].size)
  PROVE  /\ Sound(w, r, m) /\ Beside(w, G, o, z, "special") /\ o \notin DOMAIN w.head
         /\ o # w.dv /\ Bounds(w) = t /\ o \notin t.first \cup t.last
         /\ w.head \in [DOMAIN w.head -> Block] /\ w.dv = g.dv /\ w.dvsize = g.dvsize
         /\ Tidy(G, g.dv, g.dvsize, t) /\ ObjectsOf(G) = Without(ObjectsOf(g.head), o)
         /\ EndsOf(G) = EndsOf(g.head) /\ G \in [DOMAIN g.head -> Block]
         /\ G[o] = [size |-> z, mark |-> "special"]
         /\ \A x \in DOMAIN g.head \ {o} : G[x] = g.head[x] /\ w.head[x] = g.head[x]
         /\ \A x \in DOMAIN g.head : Vacant(G, g.dv, x) <=> Vacant(g.head, g.dv, x)
         /\ o \in DOMAIN g.head /\ IsUsed(g.head[o]) /\ z \in Nat /\ RealSize(g.head[o]) = z
         /\ o \in Nat \ {0} /\ DOMAIN w.head = DOMAIN g.head \ {o}
         /\ w.foot = g.foot
<1> DEFINE H == g.head
<1>1. IsHeap(g) /\ AreasApart(g) /\ Lists(g, r, m) /\ Tidy(H, g.dv, g.dvsize, t) /\ H \in [DOMAIN H -> Block]
  BY DEF HeapOK, Tidy
<1>2. o \in DOMAIN H /\ IsUsed(H[o])
  BY DEF ObjectsOf
<1>3. /\ H[o].size \in Nat /\ z \in Nat /\ o \in Nat \ {0} /\ RealSize(H[o]) = z
      /\ RealSize(H[o]) \in Nat
  <2>1. H[o] \in Block
    BY <1>1, <1>2
  <2> HIDE DEF H
  <2>2. o \in Nat \ {0}
    BY <1>1, <1>2, TidyIs
  <2> QED
    BY <1>2, <2>1, <2>2, BlockIs, UsedSizeIs DEF H
<1>4. [size |-> z, mark |-> "special"] \in Block
  BY <1>3 DEF Block, Marks
<1>5. /\ G \in [DOMAIN H -> Block] /\ G[o] = [size |-> z, mark |-> "special"]
      /\ \A x \in DOMAIN H \ {o} : G[x] = H[x]
  BY <1>1, <1>2, <1>4 DEF Loosen
<1>6. /\ Tidy(G, g.dv, g.dvsize, t) /\ EndsOf(G) = EndsOf(H)
      /\ ObjectsOf(G) = Without(ObjectsOf(H), o)
      /\ o \notin t.first \cup t.last /\ o # g.dv
      /\ \A x \in DOMAIN H : Vacant(G, g.dv, x) <=> Vacant(H, g.dv, x)
  <2> HIDE DEF H
  <2>1. G[o] = [size |-> UsedSize(H[o].size), mark |-> "special"]
    BY <1>5 DEF H
  <2> QED
    BY <1>1, <1>2, <1>5, <2>1, Emptied
<1>7. /\ IsHeap(w) /\ SameLinks(g, w) /\ SameVictim(g, w) /\ SameAreas(g, w)
      /\ w.head = Without(H, o)
  BY <1>1, DropHeadIs
<1>8. /\ DOMAIN w.head = DOMAIN H \ {o} /\ \A x \in DOMAIN H \ {o} : w.head[x] = H[x]
      /\ w.head \in [DOMAIN w.head -> Block]
  BY <1>1, <1>7 DEF Without, Restrict
<1>9. w.dv = g.dv /\ w.dvsize = g.dvsize /\ w.subs = g.subs /\ w.segfree = g.segfree /\ w.foot = g.foot
  BY <1>7 DEF SameVictim, SameAreas, SameLinks
<1>10. Lists(w, r, m)
  <2>1. H[o].mark # "free"
    BY <1>2 DEF IsUsed
  <2>2. FreeOf(w.head) = FreeOf(H)
    BY <1>8, <2>1 DEF FreeOf
  <2>3. \A x \in FreeOf(H) : w.head[x] = H[x]
    BY <1>8, <2>1 DEF FreeOf
  <2> QED
    BY <1>1, <1>7, <2>2, <2>3, ListsKept
<1>11. Sound(w, r, m)
  BY <1>1, <1>7, <1>9, <1>10 DEF Sound, AreasApart
<1>12. Bounds(w) = t
  BY <1>9 DEF Bounds
<1>13. Beside(w, G, o, z, "special")
  <2>1. o \notin FreeOf(w.head)
    BY <1>8 DEF FreeOf
  <2>2. DOMAIN w.head \cup {o} = DOMAIN G /\ \A x \in DOMAIN G \ {o} : w.head[x] = G[x]
    BY <1>2, <1>5, <1>8
  <2>3. Tidy(G, w.dv, w.dvsize, Bounds(w))
    BY <1>6, <1>9, <1>12
  <2> QED
    BY <1>2, <1>5, <2>1, <2>2, <2>3 DEF Beside
<1> QED
  BY <1>2, <1>3, <1>5, <1>6, <1>8, <1>9, <1>11, <1>12, <1>13

\* An object before which there is nothing to merge.
LEMMA FreedAlone ==
  ASSUME NEW g, NEW r, NEW m, HeapOK(g, r, m), NEW o \in DOMAIN ObjectsOf(g.head),
         g.head[o].mark # "prevfree", g.dv + g.dvsize # o,
         NEW k, k = MergeNext(DropHead(g, o), o, UsedSize(g.head[o].size))
  PROVE  Good(k) /\ ObjectsOf(k.head) = Without(ObjectsOf(g.head), o)
<1> DEFINE H == g.head
           t == Bounds(g)
           z == UsedSize(g.head[o].size)
           G == Loosen(H, o)
           w == DropHead(g, o)
<1>1. /\ Sound(w, r, m) /\ Beside(w, G, o, z, "special") /\ o \notin DOMAIN w.head
      /\ o # w.dv /\ Bounds(w) = t /\ o \notin t.first \cup t.last
      /\ w.head \in [DOMAIN w.head -> Block] /\ w.dv = g.dv
      /\ ObjectsOf(G) = Without(ObjectsOf(H), o)
      /\ EndsOf(G) = EndsOf(H) /\ G \in [DOMAIN H -> Block]
      /\ \A x \in DOMAIN H : Vacant(G, g.dv, x) <=> Vacant(H, g.dv, x)
      /\ IsUsed(H[o]) /\ o \in DOMAIN H
  <2> HIDE DEF t, z, G, w
  <2>1. G = Loosen(g.head, o) /\ w = DropHead(g, o) /\ t = Bounds(g) /\ z = UsedSize(g.head[o].size)
    BY DEF t, z, G, w
  <2>2. /\ Sound(w, r, m) /\ Beside(w, G, o, z, "special") /\ o \notin DOMAIN w.head
        /\ o # w.dv /\ Bounds(w) = t /\ o \notin t.first \cup t.last
        /\ w.head \in [DOMAIN w.head -> Block] /\ w.dv = g.dv
        /\ Tidy(G, g.dv, g.dvsize, t) /\ ObjectsOf(G) = Without(ObjectsOf(g.head), o)
        /\ EndsOf(G) = EndsOf(g.head) /\ G \in [DOMAIN g.head -> Block]
        /\ G[o] = [size |-> z, mark |-> "special"]
        /\ \A x \in DOMAIN g.head : Vacant(G, g.dv, x) <=> Vacant(g.head, g.dv, x)
        /\ IsUsed(g.head[o]) /\ o \in DOMAIN g.head
    BY <2>1, Loosened
  <2> QED
    BY <2>2
<1>2. Tidy(H, g.dv, g.dvsize, t)
  BY DEF HeapOK
<1> HIDE DEF t, H, G
<1>3. \A x \in DOMAIN H \ t.last : EndsOf(H)[x] = o => ~ Vacant(H, g.dv, x)
  <2> TAKE x \in DOMAIN H \ t.last
  <2> HAVE EndsOf(H)[x] = o
  <2>1. H[x].mark # "free"
    <3>1. H[o].mark = "prevfree" <=> H[x].mark = "free"
      BY <1>1, <1>2, NextIs
    <3> QED
      BY <3>1 DEF H
  <2>2. x # g.dv
    <3>1. /\ x \in Nat \ {0} /\ EndsOf(H)[x] = x + RealSize(H[x])
          /\ g.dv # 0 => RealSize(H[g.dv]) = g.dvsize
      BY <1>2, TidyIs
    <3> QED
      BY <3>1
  <2> QED
    BY <2>1, <2>2 DEF Vacant
<1>4. PrevQuiet(G, g.dv, t, o)
  BY <1>1, <1>3 DEF PrevQuiet
<1>5. Pending(w, G, o, z)
  BY <1>1, <1>4 DEF Pending
<1>6. k = MergeNext(w, o, z)
  OBVIOUS
<1> HIDE DEF w, z
<1> QED
  BY <1>1, <1>5, <1>6, NextMerged DEF H

\* An object behind a free block, which the footer before it tells.
LEMMA FreedBehindFree ==
  ASSUME NEW g, NEW r, NEW m, HeapOK(g, r, m), NEW o \in DOMAIN ObjectsOf(g.head),
         g.head[o].mark = "prevfree", NEW before, before = g.foot[o],
         NEW k, k = MergeNext(Unlink(DropHead(g, o), o - before), o - before,
                              UsedSize(g.head[o].size) + before)
  PROVE  Good(k) /\ ObjectsOf(k.head) = Without(ObjectsOf(g.head), o)
<1> DEFINE H == g.head
           t == Bounds(g)
           z == UsedSize(g.head[o].size)
           G == Loosen(H, o)
           w == DropHead(g, o)
           y == z + before
<1>1. /\ Sound(w, r, m) /\ o \notin DOMAIN w.head
      /\ Bounds(w) = t /\ o \notin t.first \cup t.last
      /\ w.head \in [DOMAIN w.head -> Block] /\ w.dv = g.dv /\ w.dvsize = g.dvsize
      /\ Tidy(G, g.dv, g.dvsize, t) /\ ObjectsOf(G) = Without(ObjectsOf(H), o)
      /\ EndsOf(G) = EndsOf(H) /\ G \in [DOMAIN H -> Block]
      /\ G[o] = [size |-> z, mark |-> "special"]
      /\ \A x \in DOMAIN H \ {o} : G[x] = H[x] /\ w.head[x] = H[x]
      /\ \A x \in DOMAIN H : Vacant(G, g.dv, x) <=> Vacant(H, g.dv, x)
      /\ o \in DOMAIN H /\ IsUsed(H[o]) /\ z \in Nat /\ o \in Nat \ {0}
      /\ DOMAIN w.head = DOMAIN H \ {o}
  BY Loosened
<1>2. Tidy(H, g.dv, g.dvsize, t) /\ Footed(g)
  BY DEF HeapOK, Lists
<1> HIDE DEF G, t, w
<1>3. PICK p \in DOMAIN H \ t.last : EndsOf(H)[p] = o
  <2>1. Tiled(EndsOf(H), t.first, t.last) /\ DOMAIN EndsOf(H) = DOMAIN H
    BY <1>2 DEF Tidy, EndsOf
  <2> HIDE DEF H
  <2> QED
    BY <1>1, <2>1 DEF Tiled
<1>4. H[p].mark = "free"
  <2> HIDE DEF H
  <2>1. H[o].mark = "prevfree" <=> H[p].mark = "free"
    BY <1>1, <1>2, <1>3, NextIs
  <2> QED
    BY <2>1 DEF H
<1>5. /\ p \in FreeOf(H) /\ p # o /\ p \in DOMAIN H /\ p # g.dv /\ Vacant(H, g.dv, p)
      /\ RealSize(H[p]) = H[p].size /\ p \in Nat \ {0} /\ H[p].size \in Nat
      /\ o = p + H[p].size
  <2>1. H[p].mark # "special" /\ RealSize(H[p]) = H[p].size /\ ~ IsUsed(H[p])
    BY <1>4 DEF RealSize, IsUsed
  <2> HIDE DEF H
  <2>2. /\ p \in Nat \ {0} /\ RealSize(H[p]) \in Nat /\ EndsOf(H)[p] = p + RealSize(H[p])
        /\ g.dv # 0 => H[g.dv].mark = "special"
    BY <1>2, <1>3, TidyIs
  <2> QED
    BY <1>1, <1>3, <1>4, <2>1, <2>2 DEF FreeOf, Vacant
<1>6. before = H[p].size /\ o - before = p
  <2>1. EndOf(g, p) = o
    BY <1>5 DEF EndOf
  <2>2. g.foot[o] = H[p].size
    BY <1>2, <1>5, <2>1 DEF Footed
  <2> HIDE DEF H
  <2> QED
    BY <1>5, <2>2
<1> DEFINE u == Unlink(w, p)
           K == [x \in DOMAIN H \ {o} |-> IF x = p THEN [size |-> y, mark |-> "special"] ELSE G[x]]
<1>7. y \in Nat /\ [size |-> y, mark |-> "special"] \in Block
  <2>1. before \in Nat /\ z \in Nat
    BY <1>1, <1>5, <1>6
  <2> HIDE DEF z
  <2>2. y \in Nat
    BY <2>1
  <2> HIDE DEF y
  <2> QED
    BY <2>2 DEF Block, Marks
<1>8. DOMAIN G = DOMAIN H /\ G[p] = H[p]
  BY <1>1, <1>5
<1> HIDE DEF H, z
<1>9. /\ K \in [DOMAIN G \ {o} -> Block] /\ K[p] = [size |-> y, mark |-> "special"]
      /\ \A x \in DOMAIN G \ {p, o} : K[x] = G[x]
  BY <1>1, <1>5, <1>7, <1>8
<1>10. y = RealSize(G[p]) + G[o].size
  BY <1>1, <1>5, <1>6, <1>8
<1> HIDE DEF K, y
<1>11. /\ Tidy(K, g.dv, g.dvsize, t) /\ ObjectsOf(K) = ObjectsOf(G)
       /\ PrevQuiet(K, g.dv, t, p) /\ p \notin t.first \cup t.last
  <2>1. g.dv = NoVictim(g.dv, p) /\ g.dvsize = IF g.dv = p THEN 0 ELSE g.dvsize
    BY <1>5 DEF NoVictim
  <2>2. /\ Tidy(G, g.dv, g.dvsize, t) /\ p \in DOMAIN G /\ Vacant(G, g.dv, p)
        /\ o = EndsOf(G)[p] /\ o \notin t.last /\ G[o].mark = "special"
        /\ K[p] = [size |-> RealSize(G[p]) + G[o].size, mark |-> "special"]
    BY <1>1, <1>3, <1>5, <1>8, <1>9, <1>10
  <2> QED
    BY <1>9, <2>1, <2>2, PrevAbsorbed
<1>12. IsHeap(w) /\ AreasApart(w) /\ Lists(w, r, m)
  BY <1>1 DEF Sound
<1>13. /\ IsHeap(u) /\ SameVictim(w, u) /\ SameAreas(w, u) /\ u.head = Without(w.head, p)
  BY <1>12, UnlinkHead
<1>14. Lists(u, r, m)
  <2>1. p \in FreeOf(w.head)
    BY <1>1, <1>4, <1>5 DEF FreeOf
  <2> QED
    BY <1>12, <2>1, Unlinked
<1>15. u.dv = g.dv /\ u.dvsize = g.dvsize /\ u.subs = w.subs /\ u.segfree = w.segfree
  BY <1>1, <1>13 DEF SameVictim, SameAreas
<1>16. Sound(u, r, m) /\ Bounds(u) = t
  <2>1. Sound(u, r, m)
    BY <1>12, <1>13, <1>14, <1>15 DEF Sound, AreasApart
  <2>2. Bounds(u) = Bounds(w)
    BY <1>15 DEF Bounds
  <2> QED
    BY <1>1, <2>1, <2>2
<1>17. /\ DOMAIN u.head = DOMAIN w.head \ {p} /\ u.head \in [DOMAIN u.head -> Block]
       /\ \A x \in DOMAIN w.head \ {p} : u.head[x] = w.head[x]
  BY <1>1, <1>13 DEF Without, Restrict
<1>18. /\ DOMAIN u.head \cup {p} = DOMAIN K /\ p \notin DOMAIN u.head
       /\ \A x \in DOMAIN K \ {p} : u.head[x] = K[x]
  <2>1. DOMAIN K = DOMAIN H \ {o}
    BY <1>8, <1>9
  <2>2. \A x \in DOMAIN H \ {o, p} : u.head[x] = K[x]
    BY <1>1, <1>8, <1>9, <1>17
  <2> QED
    BY <1>1, <1>5, <1>17, <2>1, <2>2
<1>19. Pending(u, K, p, y)
  <2>1. Tidy(K, u.dv, u.dvsize, Bounds(u)) /\ p \notin Bounds(u).first \cup Bounds(u).last
        /\ PrevQuiet(K, u.dv, Bounds(u), p) /\ p # u.dv
    BY <1>5, <1>11, <1>15, <1>16
  <2>2. p \notin FreeOf(u.head)
    BY <1>18 DEF FreeOf
  <2>3. p \in DOMAIN K
    BY <1>18
  <2> QED
    BY <1>9, <1>17, <1>18, <2>1, <2>2, <2>3 DEF Pending, Beside
<1>20. k = MergeNext(u, p, y)
  BY <1>6 DEF w, y, z, H
<1> HIDE DEF u
<1> QED
  BY <1>1, <1>11, <1>16, <1>19, <1>20, NextMerged DEF H

\* The subareas stay apart if they and the end of what is taken stay.
LEMMA AreasKept ==
  ASSUME NEW g, AreasApart(g), NEW k, k.subs = g.subs, k.segfree = g.segfree
  PROVE  AreasApart(k)
BY DEF AreasApart

\* The victim takes up the object behind it; it is none until it is done.
\* What is left of the heap w has the heads K, the victim at p apart.
Growing(g, w, K, p, y) ==
  /\ g.dv = p /\ p # 0 /\ Tidy(K, 0, 0, Bounds(g)) /\ p \in DOMAIN K
  /\ K[p] = [size |-> y, mark |-> "special"] /\ p \notin Bounds(g).first \cup Bounds(g).last
  /\ PrevQuiet(K, 0, Bounds(g), p) /\ Bounds(w) = Bounds(g)
  /\ DOMAIN w.head = DOMAIN K /\ w.head \in [DOMAIN w.head -> Block]
  /\ \A x \in DOMAIN K \ {p} : w.head[x] = K[x]
  /\ w.head[p].mark = "special"

\* The victim grows over the free block behind it, too.
LEMMA GrownOverFree ==
  ASSUME NEW g, NEW w, NEW r, NEW m, Sound(w, r, m), NEW K, NEW p, NEW y, Growing(g, w, K, p, y),
         NEW b, b = p + y, w.head[b].mark = "free", NEW size, size = w.head[b].size,
         NEW k, k = MarkNext(SetVictim(Unlink(w, b), p, y + size), b + size, "used")
  PROVE  Good(k) /\ ObjectsOf(k.head) = ObjectsOf(K)
<1> DEFINE t == Bounds(g)
           c == b + size
           u == Unlink(w, b)
           s == SetVictim(u, p, y + size)
           L == k.head
<1>1. /\ Tidy(K, 0, 0, t) /\ p \in DOMAIN K /\ K[p] = [size |-> y, mark |-> "special"] /\ p # 0
      /\ p \notin t.first \cup t.last /\ PrevQuiet(K, 0, t, p) /\ Bounds(w) = t
      /\ DOMAIN w.head = DOMAIN K /\ \A x \in DOMAIN K \ {p} : w.head[x] = K[x]
      /\ w.head[p].mark = "special" /\ w.head \in [DOMAIN w.head -> Block]
  BY DEF Growing
<1>2. IsHeap(w) /\ AreasApart(w) /\ Lists(w, r, m)
  BY DEF Sound
<1> HIDE DEF t
<1>3. RealSize(K[p]) = y /\ K[p].mark = "special" /\ K[p].size = y
  BY <1>1 DEF RealSize, IsUsed
<1>4. /\ p \in Nat \ {0} /\ y \in Nat /\ b = EndsOf(K)[p] /\ b \in DOMAIN K /\ b # p
      /\ K \in [DOMAIN K -> Block]
  <2>1. p \in Nat \ {0} /\ RealSize(K[p]) \in Nat /\ EndsOf(K)[p] = p + RealSize(K[p])
    BY <1>1, TidyIs
  <2>2. b = EndsOf(K)[p] /\ y \in Nat
    BY <1>3, <2>1
  <2>3. b \in DOMAIN K /\ b # p
    BY <1>1, <2>2, NextIs
  <2> QED
    BY <1>1, <2>1, <2>2, <2>3 DEF Tidy
<1>5. K[b] = w.head[b] /\ K[b].mark = "free" /\ RealSize(K[b]) = size /\ Vacant(K, 0, b)
  <2>1. K[b] = w.head[b] /\ K[b].mark = "free"
    BY <1>1, <1>4
  <2> QED
    BY <2>1 DEF RealSize, IsUsed, Vacant
<1>6. /\ size \in Nat /\ c = EndsOf(K)[b] /\ c \in DOMAIN K /\ c # b /\ c # p /\ b \in Nat \ {0}
      /\ IsUsed(K[c]) => (K[c].mark = "prevfree" <=> K[b].mark = "free")
  <2>1. b \notin t.first \cup t.last
    BY <1>1, <1>4, <1>5, VacantQuiet
  <2>2. /\ b \in Nat \ {0} /\ EndsOf(K)[b] = b + RealSize(K[b]) /\ RealSize(K[b]) \in Nat
        /\ p + MinObj <= b /\ b + MinObj <= EndsOf(K)[b]
    BY <1>1, <1>4, TidyIs
  <2>3. c = EndsOf(K)[b] /\ size \in Nat
    BY <1>5, <2>2
  <2>4. /\ c \in DOMAIN K /\ c # b
        /\ IsUsed(K[c]) => (K[c].mark = "prevfree" <=> K[b].mark = "free")
    BY <1>1, <1>4, <2>1, <2>3, NextIs
  <2>5. c # p
    BY <1>4, <2>2, <2>3 DEF MinObj
  <2> QED
    BY <2>2, <2>3, <2>4, <2>5
<1> HIDE DEF c
<1>7. IsHeap(u) /\ SameVictim(w, u) /\ SameAreas(w, u) /\ u.head = Without(w.head, b)
  BY <1>2, UnlinkHead
<1>8. Lists(u, r, m)
  <2>1. b \in FreeOf(w.head)
    BY <1>1, <1>4 DEF FreeOf
  <2> QED
    BY <1>2, <2>1, Unlinked
<1>9. DOMAIN u.head = DOMAIN K \ {b} /\ \A x \in DOMAIN K \ {b} : u.head[x] = w.head[x]
  BY <1>1, <1>7 DEF Without, Restrict
<1> DEFINE z == y + size
<1>10. z \in Nat /\ z = K[p].size + RealSize(K[b])
  BY <1>3, <1>4, <1>5, <1>6
<1>11. s = SetVictim(u, p, z)
  OBVIOUS
<1> HIDE DEF u, z
<1>12. /\ IsHeap(s) /\ SameLinks(u, s) /\ SameAreas(u, s) /\ s.dv = p /\ s.dvsize = z
       /\ s.head = Put(u.head, p, [size |-> z, mark |-> "special"])
  BY <1>7, <1>11, SetVictimIs
<1>13. k = MarkNext(s, c, "used")
  BY DEF c, u
<1> HIDE DEF s
<1>14. /\ DOMAIN s.head = DOMAIN K \ {b} /\ s.head[p] = [size |-> z, mark |-> "special"]
       /\ \A x \in DOMAIN K \ {b, p} : s.head[x] = K[x]
  BY <1>1, <1>4, <1>9, <1>12 DEF Put
<1>15. s.head \in [DOMAIN s.head -> Block]
  <2>1. [size |-> z, mark |-> "special"] \in Block
    BY <1>10 DEF Block, Marks
  <2>2. \A x \in DOMAIN K \ {b} : s.head[x] \in Block
    BY <1>4, <1>14, <2>1
  <2>3. s.head = [x \in DOMAIN s.head |-> s.head[x]]
    BY <1>12, <1>14 DEF Put
  <2> QED
    BY <1>14, <2>2, <2>3
<1>16. c \in DOMAIN s.head
  BY <1>6, <1>14
<1>17. /\ IsHeap(k) /\ SameLinks(s, k) /\ SameVictim(s, k) /\ SameAreas(s, k)
       /\ DOMAIN L = DOMAIN s.head /\ L[c] = Marked(s.head[c], "used")
       /\ \A x \in DOMAIN s.head \ {c} : L[x] = s.head[x]
  BY <1>12, <1>13, <1>15, <1>16, MarkNextIs
<1>18. L \in [DOMAIN K \ {b} -> Block]
  BY <1>12, <1>13, <1>14, <1>15, <1>16, MarkNextFcn
<1> HIDE DEF L
<1>19. /\ L[p] = [size |-> z, mark |-> "special"] /\ L[c] = Marked(K[c], "used")
       /\ \A x \in DOMAIN K \ {p, b, c} : L[x] = K[x]
  BY <1>1, <1>4, <1>6, <1>14, <1>17
<1>20. Tidy(L, 0, 0, t) /\ ObjectsOf(L) = ObjectsOf(K) /\ PrevQuiet(L, 0, t, p) /\ NextQuiet(L, 0, p)
  <2>1. 0 = NoVictim(0, b) /\ 0 = IF 0 = b THEN 0 ELSE 0
    BY DEF NoVictim
  <2>2. L[p] = [size |-> K[p].size + RealSize(K[b]), mark |-> "special"]
    BY <1>10, <1>19
  <2> QED
    BY <1>1, <1>3, <1>4, <1>5, <1>6, <1>18, <1>19, <2>1, <2>2, NextAbsorbed
<1>21. p \in DOMAIN L
  BY <1>1, <1>4, <1>18
<1>22. Tidy(L, p, z, t)
  BY <1>1, <1>19, <1>20, <1>21, BecomesVictim
<1>23. FreeOf(L) = FreeOf(u.head) /\ \A x \in FreeOf(u.head) : L[x] = u.head[x]
  <2>1. /\ DOMAIN L = DOMAIN u.head /\ L[p].mark # "free" /\ u.head[p].mark # "free"
        /\ c \in DOMAIN u.head /\ L[c] = Marked(u.head[c], "used")
        /\ \A x \in DOMAIN u.head \ {p, c} : L[x] = u.head[x]
    BY <1>1, <1>4, <1>6, <1>9, <1>14, <1>17, <1>19
  <2>2. /\ IsUsed(u.head[c]) => L[c].mark = "used" /\ u.head[c].mark # "free"
        /\ ~ IsUsed(u.head[c]) => L[c] = u.head[c]
    BY <2>1 DEF Marked, IsUsed
  <2>3. \A x \in DOMAIN u.head : L[x].mark = "free" <=> u.head[x].mark = "free"
    BY <2>1, <2>2
  <2>4. \A x \in DOMAIN u.head : u.head[x].mark = "free" => L[x] = u.head[x]
    BY <2>1, <2>2
  <2> QED
    BY <2>1, <2>3, <2>4 DEF FreeOf
<1>24. Lists(k, r, m)
  <2>1. SameLinks(u, k)
    BY <1>12, <1>17 DEF SameLinks
  <2> QED
    BY <1>8, <1>23, <2>1, ListsKept DEF L
<1>25. k.dv = p /\ k.dvsize = z /\ k.subs = w.subs /\ k.segfree = w.segfree
  BY <1>7, <1>12, <1>17 DEF SameVictim, SameAreas
<1>26. HeapOK(k, r, m)
  <2>1. Bounds(k) = t
    <3>1. Bounds(k) = Bounds(w)
      BY <1>25 DEF Bounds
    <3> QED
      BY <1>1, <3>1
  <2>2. Tidy(k.head, k.dv, k.dvsize, Bounds(k))
    BY <1>22, <1>25, <2>1 DEF L
  <2>3. AreasApart(k)
    BY <1>2, <1>25, AreasKept
  <2> QED
    BY <1>17, <1>24, <2>2, <2>3 DEF HeapOK
<1> QED
  BY <1>20, <1>26 DEF Good, L

\* The victim grows over the object alone.
LEMMA GrownOverObject ==
  ASSUME NEW g, NEW w, NEW r, NEW m, Sound(w, r, m), NEW K, NEW p, NEW y, Growing(g, w, K, p, y),
         w.head[p + y].mark # "free", NEW k, k = SetVictim(w, p, y)
  PROVE  Good(k) /\ ObjectsOf(k.head) = ObjectsOf(K)
<1> DEFINE t == Bounds(g)
<1>1. /\ Tidy(K, 0, 0, t) /\ p \in DOMAIN K /\ K[p] = [size |-> y, mark |-> "special"] /\ p # 0
      /\ p \notin t.first \cup t.last /\ PrevQuiet(K, 0, t, p) /\ Bounds(w) = t
      /\ DOMAIN w.head = DOMAIN K /\ \A x \in DOMAIN K \ {p} : w.head[x] = K[x]
      /\ w.head[p].mark = "special"
  BY DEF Growing
<1>2. IsHeap(w) /\ AreasApart(w) /\ Lists(w, r, m)
  BY DEF Sound
<1> HIDE DEF t
<1>3. RealSize(K[p]) = y
  BY <1>1 DEF RealSize, IsUsed
<1>4. /\ p \in Nat \ {0} /\ p + y = EndsOf(K)[p] /\ p + y \in DOMAIN K /\ p + y # p /\ p + y # 0
      /\ K = [x \in DOMAIN K |-> K[x]]
  <2>1. p \in Nat \ {0} /\ EndsOf(K)[p] = p + RealSize(K[p]) /\ RealSize(K[p]) \in Nat
    BY <1>1, TidyIs
  <2>2. p + y \in DOMAIN K /\ p + y # p
    BY <1>1, <1>3, <2>1, NextIs
  <2> QED
    BY <1>1, <1>3, <2>1, <2>2 DEF Tidy
<1>5. NextQuiet(K, 0, p)
  BY <1>1, <1>4 DEF NextQuiet, Vacant
<1>6. Tidy(K, p, y, t)
  BY <1>1, <1>5, BecomesVictim
<1>7. /\ IsHeap(k) /\ SameLinks(w, k) /\ SameAreas(w, k) /\ k.dv = p /\ k.dvsize = y
      /\ k.head = Put(w.head, p, [size |-> y, mark |-> "special"])
  BY <1>2, SetVictimIs
<1>8. k.head = K
  BY <1>1, <1>4, <1>7 DEF Put
<1>9. FreeOf(K) = FreeOf(w.head) /\ \A x \in FreeOf(w.head) : K[x] = w.head[x]
  BY <1>1 DEF FreeOf
<1>10. Lists(k, r, m)
  BY <1>2, <1>7, <1>8, <1>9, ListsKept
<1>11. HeapOK(k, r, m)
  <2>1. k.subs = w.subs /\ k.segfree = w.segfree
    BY <1>7 DEF SameAreas
  <2>2. Bounds(k) = Bounds(w)
    BY <2>1 DEF Bounds
  <2>3. Tidy(k.head, k.dv, k.dvsize, Bounds(k))
    BY <1>1, <1>6, <1>7, <1>8, <2>2
  <2> QED
    BY <1>2, <1>7, <1>10, <2>1, <2>3 DEF HeapOK, AreasApart
<1> QED
  BY <1>8, <1>11 DEF Good

\* An object behind the victim.
LEMMA FreedBehindVictim ==
  ASSUME NEW g, NEW r, NEW m, HeapOK(g, r, m), NEW o \in DOMAIN ObjectsOf(g.head),
         g.dv + g.dvsize = o,
         NEW k, k = GrowVictim(DropHead(g, o), g.dvsize + UsedSize(g.head[o].size))
  PROVE  Good(k) /\ ObjectsOf(k.head) = Without(ObjectsOf(g.head), o)
<1> DEFINE H == g.head
           t == Bounds(g)
           z == UsedSize(g.head[o].size)
           G == Loosen(H, o)
           w == DropHead(g, o)
           p == g.dv
           y == g.dvsize + z
           K == [x \in DOMAIN H \ {o} |-> IF x = p THEN [size |-> y, mark |-> "special"] ELSE G[x]]
<1>1. /\ Sound(w, r, m) /\ o \notin DOMAIN w.head
      /\ Bounds(w) = t /\ o \notin t.first \cup t.last
      /\ w.head \in [DOMAIN w.head -> Block] /\ w.dv = g.dv /\ w.dvsize = g.dvsize
      /\ Tidy(G, g.dv, g.dvsize, t) /\ ObjectsOf(G) = Without(ObjectsOf(H), o)
      /\ EndsOf(G) = EndsOf(H) /\ G \in [DOMAIN H -> Block]
      /\ G[o] = [size |-> z, mark |-> "special"]
      /\ \A x \in DOMAIN H \ {o} : G[x] = H[x] /\ w.head[x] = H[x]
      /\ \A x \in DOMAIN H : Vacant(G, g.dv, x) <=> Vacant(H, g.dv, x)
      /\ o \in DOMAIN H /\ IsUsed(H[o]) /\ z \in Nat /\ o \in Nat \ {0}
      /\ DOMAIN w.head = DOMAIN H \ {o}
  BY Loosened
<1>2. Tidy(H, g.dv, g.dvsize, t)
  BY DEF HeapOK
<1> HIDE DEF G, t, w
<1>3. p # 0
  <2>1. g.dv = 0 => g.dvsize = 0
    <3> HIDE DEF H
    <3> QED
      BY <1>2, TidyIs
  <2> QED
    BY <1>1, <2>1
<1>4. /\ p \in DOMAIN H /\ p \in Nat \ {0} /\ p \notin t.first \cup t.last
      /\ H[p] = [size |-> g.dvsize, mark |-> "special"] /\ g.dvsize \in Nat
      /\ RealSize(H[p]) = g.dvsize /\ o = EndsOf(H)[p] /\ o # p
  BY <1>3, VictimFacts DEF t
<1>5. y \in Nat /\ [size |-> y, mark |-> "special"] \in Block
  <2> HIDE DEF z
  <2>1. y \in Nat
    BY <1>1, <1>4
  <2> HIDE DEF y
  <2> QED
    BY <2>1 DEF Block, Marks
<1>6. DOMAIN G = DOMAIN H /\ G[p] = H[p]
  BY <1>1, <1>4
<1> HIDE DEF H, z
<1>7. y = RealSize(G[p]) + G[o].size
  BY <1>1, <1>4, <1>6
<1>8. /\ K \in [DOMAIN G \ {o} -> Block] /\ K[p] = [size |-> y, mark |-> "special"]
      /\ \A x \in DOMAIN G \ {p, o} : K[x] = G[x]
  BY <1>1, <1>4, <1>5, <1>6
<1> HIDE DEF K, y
<1>9. /\ Tidy(K, 0, 0, t) /\ ObjectsOf(K) = ObjectsOf(G) /\ PrevQuiet(K, 0, t, p)
  <2>1. 0 = NoVictim(p, p) /\ 0 = IF p = p THEN 0 ELSE g.dvsize
    BY DEF NoVictim
  <2>2. /\ Tidy(G, p, g.dvsize, t) /\ p \in DOMAIN G /\ Vacant(G, p, p)
        /\ o = EndsOf(G)[p] /\ o \notin t.last /\ G[o].mark = "special"
        /\ K[p] = [size |-> RealSize(G[p]) + G[o].size, mark |-> "special"]
    BY <1>1, <1>4, <1>6, <1>7, <1>8 DEF Vacant
  <2> HIDE DEF p
  <2> QED
    BY <1>8, <2>1, <2>2, PrevAbsorbed
<1>10. Growing(g, w, K, p, y)
  <2>1. DOMAIN K = DOMAIN H \ {o}
    BY <1>6, <1>8
  <2>2. \A x \in DOMAIN K \ {p} : w.head[x] = K[x]
    BY <1>1, <1>6, <1>8, <2>1
  <2>3. w.head[p].mark = "special"
    BY <1>1, <1>4
  <2> QED
    BY <1>1, <1>3, <1>4, <1>8, <1>9, <2>1, <2>2, <2>3 DEF Growing, t
<1> DEFINE b == p + y
<1>11. CASE w.head[b].mark = "free"
  <2>1. k = MarkNext(SetVictim(Unlink(w, b), p, y + w.head[b].size), b + w.head[b].size, "used")
    BY <1>1, <1>11 DEF GrowVictim, w, y, z, H
  <2> HIDE DEF b
  <2>2. Good(k) /\ ObjectsOf(k.head) = ObjectsOf(K)
    BY <1>1, <1>10, <1>11, <2>1, GrownOverFree DEF b
  <2> QED
    BY <1>1, <1>9, <2>2 DEF H
<1>12. CASE w.head[b].mark # "free"
  <2>1. k = SetVictim(w, p, y)
    BY <1>1, <1>12 DEF GrowVictim, w, y, z, H
  <2>2. Good(k) /\ ObjectsOf(k.head) = ObjectsOf(K)
    BY <1>1, <1>10, <1>12, <2>1, GrownOverObject
  <2> QED
    BY <1>1, <1>9, <2>2 DEF H
<1> QED
  BY <1>11, <1>12

\* A release takes one object away, and nothing else.
LEMMA FreedIs ==
  ASSUME NEW g, Good(g), NEW o \in DOMAIN ObjectsOf(g.head), NEW k, k = FreeObject(g, o)
  PROVE  Good(k) /\ ObjectsOf(k.head) = Without(ObjectsOf(g.head), o)
<1> DEFINE z == UsedSize(g.head[o].size)
<1>1. PICK r, m : HeapOK(g, r, m)
  BY DEF Good
<1>2. CASE g.head[o].mark = "prevfree"
  <2>1. k = MergeNext(Unlink(DropHead(g, o), o - g.foot[o]), o - g.foot[o], z + g.foot[o])
    BY <1>2 DEF FreeObject
  <2> QED
    BY <1>1, <1>2, <2>1, FreedBehindFree
<1>3. CASE g.head[o].mark # "prevfree" /\ g.dv + g.dvsize = o
  <2>1. k = GrowVictim(DropHead(g, o), g.dvsize + z)
    BY <1>3 DEF FreeObject
  <2> QED
    BY <1>1, <1>3, <2>1, FreedBehindVictim
<1>4. CASE g.head[o].mark # "prevfree" /\ g.dv + g.dvsize # o
  <2>1. k = MergeNext(DropHead(g, o), o, z)
    BY <1>4 DEF FreeObject
  <2> QED
    BY <1>1, <1>4, <2>1, FreedAlone
<1> QED
  BY <1>2, <1>3, <1>4

-----------------------------------------------------------------------------
(* Every heap the area reaches.                                              *)

\* Before there is a subarea.
LEMMA EmptyIs == Good(EmptyHeap) /\ ObjectsOf(EmptyHeap.head) = <<>>
<1> DEFINE g == EmptyHeap
           r == [x \in Nat |-> 0]
           t == Bounds(g)
           e == RoundUp(HeaderSize, Align)
<1>1. /\ IsHeap(g) /\ g.head = <<>> /\ g.foot = <<>> /\ g.nxt = <<>> /\ g.prv = <<>>
      /\ g.bucket = [i \in Buckets |-> 0] /\ g.dv = 0 /\ g.dvsize = 0
      /\ g.subs = <<>> /\ g.segfree = e
  BY DEF EmptyHeap, IsHeap
<1>2. e \in Nat /\ e >= HeaderSize /\ e < HeaderSize + Align
  BY SizesAssumption, Rounded
<1>3. 0 < e /\ e <= SegmentSize
  BY <1>2, SizesAssumption, AlignAssumption
<1> HIDE DEF g, e
<1>4. Len(g.subs) = 0 /\ g.subs \in Seq(Subarea)
  BY <1>1
<1>5. t.first = {} /\ t.last = {} /\ t.top = e
  BY <1>1, <1>4 DEF Bounds
<1>6. AreasApart(g)
  BY <1>1, <1>2, <1>3, <1>4 DEF AreasApart
<1>7. DOMAIN g.head = {} /\ g.head \in [{} -> Block]
  BY <1>1
<1>8. FreeOf(g.head) = {}
  BY <1>7 DEF FreeOf
<1>9. Lists(g, r, 0)
  <2>1. DOMAIN g.nxt = {} /\ DOMAIN g.prv = {} /\ DOMAIN g.foot = {}
    BY <1>1
  <2>2. g.foot = [x \in DOMAIN g.foot |-> g.foot[x]]
    BY <1>1
  <2>3. Linked(g, r, 0)
    BY <1>1, <1>8, <2>1 DEF Linked
  <2>4. Footed(g)
    BY <1>8, <2>1, <2>2 DEF Footed
  <2> QED
    BY <2>3, <2>4 DEF Lists
<1>10. Tidy(g.head, 0, 0, t)
  <2>1. DOMAIN EndsOf(g.head) = {}
    BY <1>7 DEF EndsOf
  <2> DEFINE f == EndsOf(g.head)
  <2> HIDE DEF f, t
  <2>2. Laid(f, t.top) /\ Tiled(f, t.first, t.last)
    BY <1>2, <1>5, <2>1 DEF Laid, Tiled, f
  <2>3. Tagged(g.head, 0, t) /\ VictimIs(g.head, 0, 0)
    BY <1>5, <1>7 DEF Tagged, VictimIs
  <2> QED
    BY <1>7, <2>2, <2>3 DEF Tidy, f
<1>11. HeapOK(g, r, 0)
  BY <1>1, <1>6, <1>9, <1>10 DEF HeapOK
<1>12. ObjectsOf(g.head) = <<>>
  BY <1>7 DEF ObjectsOf
<1> QED
  BY <1>11, <1>12 DEF Good, g

\* The first subarea makes a good heap without objects.
LEMMA InitIs == Init => Good(h) /\ ObjectsOf(h.head) = <<>>
<1> SUFFICES ASSUME Init PROVE Good(h) /\ ObjectsOf(h.head) = <<>>
  OBVIOUS
<1> DEFINE g == EmptyHeap
<1>1. g.segfree = RoundUp(HeaderSize, Align)
  BY DEF EmptyHeap
<1>2. g.segfree \in Nat /\ g.segfree < HeaderSize + Align
  BY <1>1, SizesAssumption, Rounded
<1> HIDE DEF g
<1> DEFINE n == g.segfree + InitialSubarea
<1>3. n \in Nat
  BY <1>2, SizesAssumption
<1> HIDE DEF n
<1>4. RoundUp(n, Align) \in Nat /\ RoundUp(n, Align) < n + Align
  BY <1>3, Rounded
<1>5. SegmentHas(g, InitialSubarea)
  <2>1. n < HeaderSize + Align + InitialSubarea
    BY <1>2, SizesAssumption, AlignAssumption DEF n
  <2>2. NextFree(g, InitialSubarea) = RoundUp(n, Align)
    BY DEF NextFree, n
  <2> HIDE DEF SegmentHas
  <2>3. RoundUp(n, Align) < SegmentSize
    BY <1>3, <1>4, <2>1, SizesAssumption, AlignAssumption
  <2> QED
    BY <2>2, <2>3 DEF SegmentHas
<1>6. Good(g) /\ ObjectsOf(g.head) = <<>>
  BY EmptyIs DEF g
<1>7. h = InitDbSubarea(g, InitialSubarea) /\ InitialSubarea \in Nat /\ InitialSubarea >= MinimalSubarea
  BY SizesAssumption DEF Init, g
<1> QED
  BY <1>5, <1>6, <1>7, SubareaAdded

\* What another area takes is behind all of this one's.
LEMMA OtherAreaIs ==
  ASSUME NEW g, Good(g), SegmentHas(g, MinimalSubarea),
         NEW k, k = [g EXCEPT !.segfree = NextFree(g, MinimalSubarea)]
  PROVE  Good(k) /\ k.head = g.head
<1>1. PICK r, m : HeapOK(g, r, m)
  BY DEF Good
<1> DEFINE t == Bounds(g)
           u == Bounds(k)
<1>2. IsHeap(g) /\ AreasApart(g) /\ Lists(g, r, m) /\ Tidy(g.head, g.dv, g.dvsize, t)
  BY <1>1 DEF HeapOK
<1>3. /\ IsHeap(k) /\ SameLinks(g, k) /\ k.dv = g.dv /\ k.dvsize = g.dvsize /\ k.head = g.head
      /\ k.subs = g.subs /\ k.segfree = NextFree(g, MinimalSubarea)
  BY <1>2 DEF IsHeap, SameLinks
<1>4. /\ k.segfree \in Nat /\ g.segfree <= k.segfree /\ k.segfree <= SegmentSize
      /\ g.segfree \in Nat
  <2> DEFINE n == g.segfree + MinimalSubarea
  <2>1. n \in Nat /\ g.segfree <= n /\ g.segfree \in Nat
    BY <1>2, SizesAssumption DEF AreasApart
  <2>2. NextFree(g, MinimalSubarea) = RoundUp(n, Align)
    BY DEF NextFree
  <2> HIDE DEF n
  <2>3. RoundUp(n, Align) \in Nat /\ RoundUp(n, Align) >= n
    BY <2>1, Rounded
  <2>4. RoundUp(n, Align) < SegmentSize
    BY <2>2 DEF SegmentHas
  <2> QED
    BY <1>3, <2>1, <2>2, <2>3, <2>4, SizesAssumption
<1>5. AreasApart(k)
  <2>1. \A i \in 1 .. Len(g.subs) : g.subs[i] \in Subarea
    BY <1>2 DEF AreasApart
  <2>2. \A i \in 1 .. Len(g.subs) : g.subs[i].offset + g.subs[i].size \in Nat
    BY <2>1 DEF Subarea
  <2>3. \A i \in 1 .. Len(g.subs) : g.subs[i].offset + g.subs[i].size <= k.segfree
    BY <1>2, <1>4, <2>2 DEF AreasApart
  <2>4. 0 < k.segfree
    BY <1>2, <1>4 DEF AreasApart
  <2> QED
    BY <1>2, <1>3, <1>4, <2>3, <2>4 DEF AreasApart
<1>6. Lists(k, r, m)
  BY <1>2, <1>3, ListsKept
<1>7. t.first = u.first /\ t.last = u.last /\ t.top = g.segfree /\ u.top = k.segfree
  BY <1>3 DEF Bounds
<1> HIDE DEF t, u
<1>8. Tidy(g.head, g.dv, g.dvsize, u)
  <2> DEFINE H == g.head
             e == EndsOf(H)
  <2>1. Tiled(e, u.first, u.last) /\ Tagged(H, g.dv, u) /\ VictimIs(H, g.dv, g.dvsize)
        /\ H \in [DOMAIN H -> Block]
    BY <1>2, <1>7 DEF Tidy, Tagged
  <2>2. Laid(e, t.top)
    BY <1>2 DEF Tidy
  <2> HIDE DEF e
  <2>3. Laid(e, u.top)
    BY <1>4, <1>7, <2>2 DEF Laid
  <2> QED
    BY <2>1, <2>3 DEF Tidy, e
<1>9. HeapOK(k, r, m)
  BY <1>3, <1>5, <1>6, <1>8 DEF HeapOK, u
<1> QED
  BY <1>3, <1>9 DEF Good

\* What a step does to the objects: one comes, one goes, or none does.
Comes(f, k) ==
  \E n \in Lengths, a \in Nat \ {0} : a \notin DOMAIN f /\ k = Put(f, a, UsedSize(n))
Goes(f, k) == \E o \in DOMAIN f : k = Without(f, o)

\* Every step keeps the heap good and changes at most one object.
LEMMA StepIs ==
  ASSUME Good(h), [Next]_h
  PROVE  /\ Good(h')
         /\ \/ ObjectsOf(h.head)' = ObjectsOf(h.head)
            \/ Comes(ObjectsOf(h.head), ObjectsOf(h.head)')
            \/ Goes(ObjectsOf(h.head), ObjectsOf(h.head)')
<1> DEFINE f == ObjectsOf(h.head)
           k == ObjectsOf(h'.head)
<1>1. ObjectsOf(h.head)' = k
  BY DEF ObjectsOf, IsUsed, UsedSize
<1>2. ASSUME NEW n \in Lengths, Alloc(n) PROVE Good(h') /\ (k = f \/ Comes(f, k))
  <2>1. h' = AllocGints(h, n)
    BY <1>2 DEF Alloc
  <2>2. /\ Good(h')
        /\ \/ k = f
           \/ \E a \in Nat \ {0} : a \notin DOMAIN f /\ k = Put(f, a, UsedSize(n))
    BY <2>1, AllocIs
  <2> HIDE DEF k, f
  <2> QED
    BY <2>2 DEF Comes
<1>3. ASSUME NEW o \in Objects, Free(o) PROVE Good(h') /\ Goes(f, k)
  <2>1. h' = FreeObject(h, o)
    BY <1>3 DEF Free
  <2>2. o \in DOMAIN f
    BY DEF Objects, ObjectsOf
  <2>3. Good(h') /\ k = Without(f, o)
    BY <2>1, <2>2, FreedIs
  <2> HIDE DEF k, f
  <2> QED
    BY <2>2, <2>3 DEF Goes
<1>4. ASSUME OtherAreaGrows PROVE Good(h') /\ k = f
  <2>1. SegmentHas(h, MinimalSubarea) /\ h' = [h EXCEPT !.segfree = NextFree(h, MinimalSubarea)]
    BY <1>4 DEF OtherAreaGrows
  <2>2. Good(h') /\ h'.head = h.head
    BY <2>1, OtherAreaIs
  <2> QED
    BY <2>2
<1>5. ASSUME h' = h PROVE Good(h') /\ k = f
  BY <1>5
<1> HIDE DEF k, f
<1>6. Good(h') /\ (k = f \/ Comes(f, k) \/ Goes(f, k))
  BY <1>2, <1>3, <1>4, <1>5 DEF Next
<1> QED
  BY <1>1, <1>6 DEF f

-----------------------------------------------------------------------------
(* What every such heap is.                                                  *)

LEMMA HeapIs ==
  ASSUME NEW g, NEW r, NEW m, HeapOK(g, r, m), NEW t, t = Bounds(g), NEW e, e = EndsOf(g.head)
  PROVE  /\ Laid(e, t.top) /\ Tiled(e, t.first, t.last) /\ Tidy(g.head, g.dv, g.dvsize, t)
         /\ DOMAIN e = DOMAIN g.head /\ \A a \in DOMAIN g.head : e[a] = a + RealSize(g.head[a])
<1>1. Tidy(g.head, g.dv, g.dvsize, t)
  BY DEF HeapOK
<1>2. Laid(e, t.top) /\ Tiled(e, t.first, t.last)
  BY <1>1 DEF Tidy
<1>3. DOMAIN e = DOMAIN g.head /\ \A a \in DOMAIN g.head : e[a] = a + RealSize(g.head[a])
  BY DEF EndsOf
<1> QED
  BY <1>1, <1>2, <1>3

\* Idle neighbours are merged.
LEMMA CoalescedIs == Good(h) => Coalesced
<1> SUFFICES ASSUME Good(h), NEW a \in Heads, Idle(a) PROVE ~ Idle(Behind(a))
  BY DEF Coalesced
<1> DEFINE H == h.head
           t == Bounds(h)
           b == Behind(a)
<1>1. PICK r, m : HeapOK(h, r, m)
  BY DEF Good
<1>2. Tidy(H, h.dv, h.dvsize, t)
  BY <1>1 DEF HeapOK
<1>3. a \in DOMAIN H /\ Vacant(H, h.dv, a)
  BY DEF Heads, Idle, FreeBlocks, Vacant
<1>4. NextQuiet(H, h.dv, a)
  <2> HIDE DEF H, t
  <2> QED
    BY <1>2, <1>3, VacantQuiet
<1>5. b = EndsOf(H)[a]
  BY DEF Behind, EndsOf, Heads
<1>6. ~ Vacant(H, h.dv, b)
  BY <1>4, <1>5 DEF NextQuiet
<1> QED
  BY <1>6 DEF Idle, FreeBlocks, Vacant

\* The marks and the footers tell what is in front.
LEMMA TagsAre == Good(h) => BoundaryTags
<1> SUFFICES ASSUME Good(h) PROVE BoundaryTags
  OBVIOUS
<1> DEFINE H == h.head
           t == Bounds(h)
           e == EndsOf(H)
           F == FreeBlocks
<1>1. PICK r, m : HeapOK(h, r, m)
  BY DEF Good
<1>2. /\ Laid(e, t.top) /\ Tiled(e, t.first, t.last) /\ Tidy(H, h.dv, h.dvsize, t)
      /\ DOMAIN e = DOMAIN H /\ \A a \in DOMAIN H : e[a] = a + RealSize(H[a])
  BY <1>1, HeapIs
<1>3. F = FreeOf(H) /\ Footed(h)
  BY <1>1 DEF FreeBlocks, FreeOf, Heads, HeapOK, Lists
<1>4. \A a \in F : a \in DOMAIN H /\ a \notin t.last /\ Behind(a) = e[a] /\ EndOf(h, a) = e[a]
  <2> TAKE a \in F
  <2>1. a \notin t.first \cup t.last /\ RealSize(H[a]) = H[a].size /\ a \in DOMAIN H
    BY <1>1, <1>3, FreeIs
  <2> QED
    BY <1>2, <2>1 DEF Behind, EndOf
<1>5. ASSUME NEW o \in Objects PROVE H[o].mark = "prevfree" <=> \E a \in F : Behind(a) = o
  <2>1. o \in DOMAIN H /\ IsUsed(H[o])
    BY DEF Objects
  <2>2. o \notin t.first
    <3>1. H[o].mark # "special"
      BY <2>1 DEF IsUsed
    <3> HIDE DEF H, t, e
    <3> QED
      BY <1>2, <2>1, <3>1, TidyIs
  <2> HIDE DEF t, e
  <2>3. PICK x \in DOMAIN e \ t.last : e[x] = o
    BY <1>2, <2>1, <2>2 DEF Tiled
  <2>4. H[o].mark = "prevfree" <=> H[x].mark = "free"
    <3> HIDE DEF H
    <3>1. x \in DOMAIN H \ t.last /\ o = EndsOf(H)[x]
      BY <1>2, <2>3 DEF e
    <3> QED
      BY <1>2, <2>1, <3>1, NextIs
  <2>5. \A a \in F : Behind(a) = o => a = x
    BY <1>2, <1>4, <2>3, EndsDiffer
  <2>6. H[x].mark = "free" <=> x \in F
    BY <1>2, <2>3 DEF FreeBlocks, Heads
  <2> QED
    BY <1>4, <2>3, <2>4, <2>5, <2>6
<1> DEFINE sizes == [y \in {Behind(a) : a \in F} |-> H[CHOOSE a \in F : Behind(a) = y].size]
<1>6. h.foot = sizes
  <2> HIDE DEF F, t, e
  <2>1. \A a, b \in F : Behind(a) = Behind(b) => a = b
    BY <1>2, <1>4, EndsDiffer
  <2>2. DOMAIN h.foot = {Behind(a) : a \in F}
    <3>1. \A a \in F : EndOf(h, a) = Behind(a)
      BY <1>4
    <3>2. DOMAIN h.foot = {EndOf(h, a) : a \in F}
      BY <1>3 DEF Footed
    <3> QED
      BY <3>1, <3>2
  <2>3. ASSUME NEW y \in DOMAIN h.foot PROVE h.foot[y] = sizes[y]
    <3>1. PICK a \in F : Behind(a) = y
      BY <2>2
    <3>2. (CHOOSE b \in F : Behind(b) = y) = a
      BY <2>1, <3>1
    <3>3. h.foot[EndOf(h, a)] = H[a].size
      BY <1>3 DEF Footed
    <3>4. sizes[y] = H[a].size
      BY <3>1, <3>2
    <3>5. EndOf(h, a) = y
      BY <1>4, <3>1
    <3> QED
      BY <3>3, <3>4, <3>5
  <2>4. h.foot = [y \in DOMAIN h.foot |-> h.foot[y]]
    BY <1>3 DEF Footed
  <2> QED
    BY <2>2, <2>3, <2>4
<1> QED
  BY <1>5, <1>6 DEF BoundaryTags

\* Subarea i of g has its marks within it, in order.
LEMMA MarksOf ==
  ASSUME NEW g, AreasApart(g), NEW i \in 1 .. Len(g.subs), NEW s, s = g.subs[i]
  PROVE  /\ FirstOf(s) \in Nat /\ LastOf(s) \in Nat /\ s.offset \in Nat /\ s.size \in Nat
         /\ s.offset <= FirstOf(s) /\ FirstOf(s) < LastOf(s)
         /\ LastOf(s) + MinObj <= s.offset + s.size
<1>1. s \in Subarea /\ s.size >= MinimalSubarea
  BY DEF AreasApart
<1>2. s.offset \in Nat /\ s.size \in Nat
  BY <1>1 DEF Subarea
<1> DEFINE f == RoundUp(s.offset, Align)
           z == AlignedSize(s.offset, s.size)
<1>3. /\ f \in Nat /\ s.offset <= f /\ z \in Nat /\ z >= 3 * MinObj
      /\ f + z <= s.offset + s.size
  BY <1>1, <1>2, AreaFits
<1>4. FirstOf(s) = f /\ LastOf(s) = f + z - MinObj
  BY DEF FirstOf, LastOf
<1> HIDE DEF f, z
<1> QED
  BY <1>2, <1>3, <1>4 DEF MinObj

\* Two subareas lie apart.
LEMMA AreasDiffer ==
  ASSUME NEW g, AreasApart(g), NEW i \in 1 .. Len(g.subs), NEW j \in 1 .. Len(g.subs),
         NEW a \in Nat, g.subs[i].offset <= a, a < g.subs[i].offset + g.subs[i].size,
         g.subs[j].offset <= a, a < g.subs[j].offset + g.subs[j].size
  PROVE  i = j
<1>1. /\ g.subs[i].offset \in Nat /\ g.subs[i].size \in Nat
      /\ g.subs[j].offset \in Nat /\ g.subs[j].size \in Nat
  BY MarksOf
<1>2. \A x, y \in 1 .. Len(g.subs) :
        x < y => g.subs[x].offset + g.subs[x].size <= g.subs[y].offset
  BY DEF AreasApart
<1>3. Len(g.subs) \in Nat
  BY DEF AreasApart
<1>4. CASE i < j
  <2>1. g.subs[i].offset + g.subs[i].size <= g.subs[j].offset
    BY <1>2, <1>4
  <2>2. FALSE
    BY <1>1, <2>1, SMTT(40)
  <2> QED
    BY <2>2
<1>5. CASE j < i
  <2>1. g.subs[j].offset + g.subs[j].size <= g.subs[i].offset
    BY <1>2, <1>5
  <2>2. FALSE
    BY <1>1, <2>1, SMTT(40)
  <2> QED
    BY <2>2
<1> QED
  BY <1>3, <1>4, <1>5

\* Every block lies between the marks of a subarea.
LEMMA BlockWithin ==
  ASSUME NEW g, NEW r, NEW m, HeapOK(g, r, m), NEW e, e = EndsOf(g.head), NEW a \in DOMAIN e
  PROVE  \E i \in 1 .. Len(g.subs) : FirstOf(g.subs[i]) <= a /\ a <= LastOf(g.subs[i])
<1> DEFINE t == Bounds(g)
           In(x, i) == FirstOf(g.subs[i]) <= x /\ x <= LastOf(g.subs[i])
           T == {x \in DOMAIN e : ~ \E i \in 1 .. Len(g.subs) : In(x, i)}
<1>1. Laid(e, t.top) /\ Tiled(e, t.first, t.last) /\ AreasApart(g)
  BY HeapIs DEF HeapOK
<1>2. /\ \A i \in 1 .. Len(g.subs) : FirstOf(g.subs[i]) \in Nat /\ LastOf(g.subs[i]) \in Nat
                                     /\ FirstOf(g.subs[i]) < LastOf(g.subs[i])
      /\ DOMAIN e \subseteq Nat
  BY <1>1, MarksOf DEF Laid
<1>3. /\ \A x \in t.first : \E i \in 1 .. Len(g.subs) : x = FirstOf(g.subs[i])
      /\ \A i \in 1 .. Len(g.subs) : LastOf(g.subs[i]) \in t.last
  BY DEF Bounds
<1> HIDE DEF t
<1>4. T = {}
  <2>1. SUFFICES ASSUME T # {} PROVE FALSE
    OBVIOUS
  <2>2. PICK b \in T : \A j \in T : b <= j
    <3>1. T \subseteq Nat
      BY <1>2
    <3> HIDE DEF T
    <3> QED
      BY <2>1, <3>1, LeastOf
  <2>3. b \in DOMAIN e /\ b \notin t.first
    <3>1. ASSUME b \in t.first PROVE FALSE
      <4>1. PICK i \in 1 .. Len(g.subs) : b = FirstOf(g.subs[i])
        BY <1>3, <3>1
      <4>2. In(b, i)
        BY <1>2, <4>1
      <4> QED
        BY <2>2, <4>2
    <3> QED
      BY <2>2, <3>1
  <2>4. PICK x \in DOMAIN e \ t.last : e[x] = b
    BY <1>1, <2>3 DEF Tiled
  <2>5. x < b /\ x \in Nat /\ b \in Nat
    BY <1>1, <2>3, <2>4 DEF Laid, MinObj
  <2>6. x \notin T
    <3>1. ~ (b <= x)
      BY <2>5
    <3> HIDE DEF T
    <3> QED
      BY <2>2, <3>1
  <2>7. PICK i \in 1 .. Len(g.subs) : In(x, i)
    BY <2>4, <2>6
  <2> DEFINE l == LastOf(g.subs[i])
  <2>8. x < l /\ l \in DOMAIN e
    <3>1. l \in t.last /\ t.last \subseteq DOMAIN e
      BY <1>1, <1>3 DEF Tiled
    <3>2. x # l
      BY <2>4, <3>1
    <3> QED
      BY <1>2, <2>5, <2>7, <3>1, <3>2
  <2>9. b <= l
    BY <1>1, <2>4, <2>8 DEF Laid
  <2>10. FirstOf(g.subs[i]) <= b
    BY <1>2, <2>5, <2>7
  <2> QED
    BY <2>2, <2>9, <2>10
<1> QED
  BY <1>4

\* The blocks of a subarea are those between its marks.
LEMMA TilingIs == Good(h) => Tiling
<1> SUFFICES ASSUME Good(h), NEW s \in Range(h.subs)
             PROVE  LET first == RoundUp(s.offset, Align)
                        last == first + AlignedSize(s.offset, s.size) - MinObj
                    IN /\ {first, last} \subseteq Within(s)
                       /\ {Behind(a) : a \in Within(s) \ {last}} = Within(s) \ {first}
  BY DEF Tiling
<1> DEFINE first == FirstOf(s)
           last == LastOf(s)
           t == Bounds(h)
           e == EndsOf(h.head)
<1>1. PICK r, m : HeapOK(h, r, m)
  BY DEF Good
<1>2. /\ Laid(e, t.top) /\ Tiled(e, t.first, t.last) /\ DOMAIN e = Heads
      /\ \A a \in Heads : e[a] = Behind(a)
  BY <1>1, HeapIs DEF Heads, Behind
<1>3. AreasApart(h) /\ h.subs \in Seq(Subarea)
  BY <1>1 DEF HeapOK, AreasApart
<1>4. PICK i \in 1 .. Len(h.subs) : s = h.subs[i]
  BY <1>3 DEF Range
<1>5. /\ first \in Nat /\ last \in Nat /\ s.offset \in Nat /\ s.size \in Nat
      /\ s.offset <= first /\ first < last /\ last + MinObj <= s.offset + s.size
  BY <1>3, <1>4, MarksOf
<1>6. first \in t.first /\ last \in t.last
  BY <1>4 DEF Bounds
<1> HIDE DEF first, last, e
<1>7. t.first \cup t.last \subseteq Heads /\ Heads \subseteq Nat
  BY <1>2 DEF Tiled, Laid
<1> DEFINE Inside(x) == s.offset <= x /\ x < s.offset + s.size
<1>8. \A x \in Heads : x \in Within(s) <=> Inside(x)
  BY DEF Within
<1>9. {first, last} \subseteq Within(s)
  <2>1. Inside(first) /\ Inside(last)
    BY <1>5 DEF MinObj
  <2> QED
    BY <1>6, <1>7, <1>8, <2>1
\* No other subarea has a mark inside this one.
<1>10. /\ \A x \in t.first : Inside(x) => x = first
       /\ \A x \in t.last : Inside(x) => x = last
  <2>1. ASSUME NEW j \in 1 .. Len(h.subs), NEW x \in Nat, Inside(x),
               FirstOf(h.subs[j]) <= x, x <= LastOf(h.subs[j])
        PROVE  j = i
    <3>1. h.subs[j].offset <= x /\ x < h.subs[j].offset + h.subs[j].size
      <4> DEFINE u == h.subs[j]
      <4>1. /\ FirstOf(u) \in Nat /\ LastOf(u) \in Nat /\ u.offset \in Nat /\ u.size \in Nat
            /\ u.offset <= FirstOf(u) /\ LastOf(u) + MinObj <= u.offset + u.size
        BY <1>3, MarksOf
      <4> HIDE DEF u
      <4>2. FirstOf(u) <= x /\ x <= LastOf(u)
        BY <2>1 DEF u
      <4>3. u.offset <= x /\ x < u.offset + u.size
        BY <4>1, <4>2 DEF MinObj
      <4> QED
        BY <4>3 DEF u
    <3> QED
      BY <1>3, <1>4, <2>1, <3>1, AreasDiffer
  <2>2. ASSUME NEW x \in t.first, Inside(x) PROVE x = first
    <3>1. PICK j \in 1 .. Len(h.subs) : x = FirstOf(h.subs[j])
      BY DEF Bounds
    <3>2. FirstOf(h.subs[j]) \in Nat /\ LastOf(h.subs[j]) \in Nat
          /\ FirstOf(h.subs[j]) < LastOf(h.subs[j])
      BY <1>3, MarksOf
    <3>3. j = i
      BY <2>1, <2>2, <3>1, <3>2
    <3> QED
      BY <1>4, <3>1, <3>3 DEF first
  <2>3. ASSUME NEW x \in t.last, Inside(x) PROVE x = last
    <3>1. PICK j \in 1 .. Len(h.subs) : x = LastOf(h.subs[j])
      BY DEF Bounds
    <3>2. FirstOf(h.subs[j]) \in Nat /\ LastOf(h.subs[j]) \in Nat
          /\ FirstOf(h.subs[j]) < LastOf(h.subs[j])
      BY <1>3, MarksOf
    <3>3. j = i
      BY <2>1, <2>3, <3>1, <3>2
    <3> QED
      BY <1>4, <3>1, <3>3 DEF last
  <2> QED
    BY <2>2, <2>3
\* Inside the subarea, all blocks are between the marks.
<1>11. ASSUME NEW x \in Heads, Inside(x) PROVE first <= x /\ x <= last
  <2>1. PICK j \in 1 .. Len(h.subs) : FirstOf(h.subs[j]) <= x /\ x <= LastOf(h.subs[j])
    BY <1>1, <1>2, BlockWithin DEF e
  <2> DEFINE u == h.subs[j]
  <2>2. /\ FirstOf(u) \in Nat /\ LastOf(u) \in Nat /\ u.offset \in Nat /\ u.size \in Nat
        /\ u.offset <= FirstOf(u) /\ LastOf(u) + MinObj <= u.offset + u.size
    BY <1>3, MarksOf
  <2>3. x \in Nat /\ FirstOf(u) <= x /\ x <= LastOf(u)
    BY <1>7, <2>1
  <2> HIDE DEF u
  <2>4. u.offset <= x /\ x < u.offset + u.size
    BY <2>2, <2>3 DEF MinObj
  <2>5. j = i
    BY <1>3, <1>4, <1>11, <2>3, <2>4, AreasDiffer DEF u
  <2> QED
    BY <1>4, <2>3, <2>5 DEF u, first, last
<1>12. ASSUME NEW a \in Within(s) \ {last}
       PROVE  Behind(a) \in Within(s) \ {first}
  <2>1. a \in Heads /\ Inside(a) /\ a # last
    BY <1>8 DEF Within
  <2>2. a \notin t.last
    BY <1>10, <2>1
  <2>3. e[a] = Behind(a) /\ e[a] \in Heads \ t.first
    BY <1>2, <2>1, <2>2 DEF Tiled
  <2>4. a \in Nat /\ first <= a /\ a < last
    <3>1. a \in Nat /\ first <= a /\ a <= last
      BY <1>7, <1>11, <2>1
    <3> QED
      BY <1>5, <2>1, <3>1
  <2>5. e[a] <= last /\ a + MinObj <= e[a] /\ e[a] \in Nat
    <3>1. last \in DOMAIN e /\ a \in DOMAIN e
      BY <1>2, <1>6, <1>7, <2>1
    <3> QED
      BY <1>2, <2>4, <3>1 DEF Laid
  <2>6. Inside(e[a]) /\ e[a] # first
    BY <1>5, <2>4, <2>5 DEF MinObj
  <2> QED
    BY <1>8, <2>3, <2>6
<1>13. ASSUME NEW b \in Within(s) \ {first}
       PROVE  \E a \in Within(s) \ {last} : Behind(a) = b
  <2>1. b \in Heads /\ Inside(b) /\ b # first
    BY <1>8 DEF Within
  <2>2. b \notin t.first
    BY <1>10, <2>1
  <2>3. PICK a \in Heads \ t.last : e[a] = b
    BY <1>2, <2>1, <2>2 DEF Tiled
  <2>4. a # last /\ Behind(a) = b
    BY <1>2, <1>6, <2>3
  <2>5. first < b /\ b <= last /\ b \in Nat
    BY <1>5, <1>7, <1>11, <2>1
  <2>6. first <= a
    <3>1. first \in DOMAIN e /\ a \in DOMAIN e /\ a \in Nat
      BY <1>2, <1>6, <1>7, <2>3
    <3>2. ASSUME a < first PROVE FALSE
      <4>1. e[a] <= first
        BY <1>2, <3>1, <3>2 DEF Laid
      <4> QED
        BY <1>5, <2>3, <2>5, <4>1
    <3> QED
      BY <1>5, <3>1, <3>2
  <2>7. a \in Nat /\ a + MinObj <= b
    <3>1. a \in DOMAIN e
      BY <1>2, <2>3
    <3> QED
      BY <1>2, <2>3, <3>1 DEF Laid
  <2>8. Inside(a)
    BY <1>5, <2>5, <2>6, <2>7 DEF MinObj
  <2> QED
    BY <1>8, <2>3, <2>4, <2>8
<1>14. {Behind(a) : a \in Within(s) \ {last}} = Within(s) \ {first}
  BY <1>12, <1>13
<1>15. first = RoundUp(s.offset, Align) /\ last = first + AlignedSize(s.offset, s.size) - MinObj
  BY DEF first, last, FirstOf, LastOf
<1> QED
  BY <1>9, <1>14, <1>15

\* There are finitely many free blocks.
LEMMA FreeFinite ==
  ASSUME Good(h)
  PROVE  /\ IsFiniteSet(FreeBlocks) /\ Cardinality(FreeBlocks) \in Nat
         /\ FreeBlocks = FreeOf(h.head)
<1> DEFINE H == h.head
           t == Bounds(h)
           F == FreeBlocks
<1>1. PICK r, m : HeapOK(h, r, m)
  BY DEF Good
<1>2. Tidy(H, h.dv, h.dvsize, t) /\ t.top \in Nat
  BY <1>1 DEF HeapOK, Tidy, Laid
<1> HIDE DEF H, t
<1>3. \A a \in DOMAIN H : a \in Nat /\ a <= t.top
  <2> TAKE a \in DOMAIN H
  <2>1. a \in Nat /\ EndsOf(H)[a] \in Nat /\ a + MinObj <= EndsOf(H)[a] /\ EndsOf(H)[a] <= t.top
    BY <1>2, TidyIs
  <2> QED
    BY <1>2, <2>1 DEF MinObj
<1>4. F \in SUBSET (0 .. t.top)
  BY <1>2, <1>3 DEF FreeBlocks, Heads, H
<1>5. IsFiniteSet(0 .. t.top)
  BY <1>2, FS_Interval
<1>6. IsFiniteSet(F)
  BY <1>4, <1>5, FS_Subset
<1>7. F = FreeOf(h.head)
  BY DEF FreeBlocks, FreeOf, Heads
<1> QED
  BY <1>6, <1>7, FS_CardinalityType

\* The blocks of list i, as far as they are followed.
Chain(block, i, N) ==
  /\ DOMAIN block = 0 .. N /\ block[0] = h.bucket[i]
  /\ \A n \in 1 .. N : block[n] = Follower(block[n - 1])

\* BlockAt follows the links: such a function exists, by induction over its length.
LEMMA BlockAtIs ==
  ASSUME NEW i \in Buckets, NEW N, N = Cardinality(FreeBlocks), N \in Nat
  PROVE  Chain(BlockAt(i), i, N)
<1> DEFINE Is(f, k) == f = [n \in 0 .. k |-> IF n = 0 THEN h.bucket[i] ELSE Follower(f[n - 1])]
           all == CHOOSE f : Is(f, N)
<1>1. BlockAt(i) = all
  BY DEF BlockAt
<1>2. \A k \in Nat : \E f : Is(f, k)
  <2> DEFINE T == {k \in Nat : ~ \E f : Is(f, k)}
  <2> HIDE DEF Follower
  <2>1. SUFFICES ASSUME T # {} PROVE FALSE
    OBVIOUS
  <2>2. PICK k \in T : \A j \in T : k <= j
    BY <2>1, LeastOf
  <2>3. CASE k = 0
    <3> DEFINE f == [n \in 0 .. 0 |-> h.bucket[i]]
    <3>1. Is(f, 0)
      OBVIOUS
    <3> QED
      BY <2>2, <2>3, <3>1
  <2>4. CASE k # 0
    <3>0. T \subseteq Nat
      OBVIOUS
    <3>1. k - 1 \in Nat /\ k - 1 \notin T
      <4> HIDE DEF T
      <4> QED
        BY <2>2, <2>4, <3>0
    <3>2. PICK f : Is(f, k - 1)
      BY <3>1
    <3> DEFINE f2 == [n \in 0 .. k |-> IF n = k THEN Follower(f[k - 1]) ELSE f[n]]
    <3>3. \A n \in 0 .. k : f2[n] = IF n = 0 THEN h.bucket[i] ELSE Follower(f2[n - 1])
      <4> TAKE n \in 0 .. k
      <4>1. CASE n = k
        BY <2>2, <2>4, <4>1
      <4>2. CASE n # k
        <5>1. n \in 0 .. k - 1 /\ f2[n] = f[n] /\ (n # 0 => f2[n - 1] = f[n - 1])
          BY <2>2, <4>2
        <5>2. f[n] = IF n = 0 THEN h.bucket[i] ELSE Follower(f[n - 1])
          BY <3>2, <5>1
        <5> QED
          BY <5>1, <5>2
      <4> QED
        BY <4>1, <4>2
    <3>4. Is(f2, k)
      <4>1. f2 = [n \in 0 .. k |-> f2[n]]
        OBVIOUS
      <4> HIDE DEF f2
      <4> QED
        BY <3>3, <4>1
    <3> QED
      BY <2>2, <3>4
  <2> QED
    BY <2>3, <2>4
<1>3. Is(all, N)
  <2> HIDE DEF Is
  <2> QED
    BY <1>2
<1> HIDE DEF all
<1> QED
  BY <1>1, <1>3 DEF Chain

\* Where it leads: to free blocks of its size, of ever lower rank.
Led(block, i, r, N) ==
  LET F == FreeOf(h.head)
  IN  \A n \in 0 .. N : /\ block[n] \in F \cup {0}
                        /\ block[n] \in F => Index(h, block[n]) = i
                        /\ \A k \in 0 .. N : k < n /\ block[n] # 0 =>
                             block[k] \in F /\ r[block[n]] < r[block[k]]

\* By induction along the list.
LEMMA ListIs ==
  ASSUME NEW r, NEW m, HeapOK(h, r, m), NEW i \in Buckets, NEW N \in Nat,
         NEW block, Chain(block, i, N)
  PROVE  Led(block, i, r, N)
<1> DEFINE F == FreeOf(h.head)
           P(n) == /\ block[n] \in F \cup {0}
                   /\ block[n] \in F => Index(h, block[n]) = i
                   /\ \A k \in 0 .. N : k < n /\ block[n] # 0 =>
                        block[k] \in F /\ r[block[n]] < r[block[k]]
           T == {n \in 0 .. N : ~ P(n)}
<1>1. /\ F \subseteq Nat \ {0} /\ r \in [Nat -> Nat] /\ DOMAIN h.nxt = F
      /\ h.bucket \in [Buckets -> F \cup {0}]
      /\ \A a \in F : h.nxt[a] # 0 => /\ h.nxt[a] \in F
                                      /\ Index(h, h.nxt[a]) = Index(h, a)
                                      /\ r[h.nxt[a]] < r[a]
      /\ h.bucket[i] # 0 => Index(h, h.bucket[i]) = i
  BY DEF HeapOK, Lists, Linked
<1> HIDE DEF F
<1>2. /\ DOMAIN block = 0 .. N /\ block[0] = h.bucket[i]
      /\ \A n \in 1 .. N : block[n] = Follower(block[n - 1])
  BY DEF Chain
<1>3. T = {}
  <2>1. SUFFICES ASSUME T # {} PROVE FALSE
    OBVIOUS
  <2>2. PICK n \in T : \A j \in T : n <= j
    <3>1. T \subseteq Nat
      OBVIOUS
    <3> HIDE DEF T
    <3> QED
      BY <2>1, <3>1, LeastOf
  <2>3. n \in 0 .. N
    OBVIOUS
  <2>4. CASE n = 0
    <3>1. block[0] \in F \cup {0} /\ (block[0] \in F => Index(h, block[0]) = i)
      BY <1>1, <1>2
    <3>2. P(0)
      BY <3>1
    <3> QED
      BY <2>2, <2>4, <3>2
  <2>5. CASE n # 0
    <3>1. n - 1 \in 0 .. N /\ n \in 1 .. N /\ n - 1 \notin T
      <4>1. n - 1 \in 0 .. N /\ n \in 1 .. N /\ ~ (n <= n - 1)
        BY <2>3, <2>5
      <4> HIDE DEF T
      <4> QED
        BY <2>2, <4>1
    <3> DEFINE b == block[n - 1]
               c == block[n]
    <3>2. P(n - 1)
      BY <3>1
    <3>3. c = Follower(b)
      BY <1>2, <3>1
    <3>4. b \in F \cup {0} /\ (b \in F => Index(h, b) = i)
      BY <3>2
    <3>5. c = IF b \in F THEN h.nxt[b] ELSE 0
      BY <1>1, <3>3 DEF Follower
    <3>6. c # 0 => b \in F /\ c \in F /\ Index(h, c) = i /\ r[c] < r[b]
      <4> HIDE DEF b, c
      <4> QED
        BY <1>1, <3>4, <3>5
    <3>7. ASSUME c # 0, NEW k \in 0 .. N, k < n PROVE block[k] \in F /\ r[c] < r[block[k]]
      <4>1. CASE k = n - 1
        BY <3>6, <3>7, <4>1
      <4>2. CASE k # n - 1
        <5>1. k < n - 1
          BY <2>3, <3>7, <4>2
        <5>2. b # 0
          BY <1>1, <3>6, <3>7
        <5>3. block[k] \in F /\ r[b] < r[block[k]]
          BY <3>2, <5>1, <5>2
        <5>4. r[c] \in Nat /\ r[b] \in Nat /\ r[block[k]] \in Nat
          BY <1>1, <3>6, <3>7, <5>3
        <5> QED
          BY <3>6, <3>7, <5>3, <5>4
      <4> QED
        BY <4>1, <4>2
    <3>8. P(n)
      <4>1. c \in F \cup {0}
        BY <3>6
      <4>2. c \in F => Index(h, c) = i
        BY <1>1, <3>6
      <4> QED
        BY <3>7, <4>1, <4>2
    <3> QED
      BY <2>2, <3>8
  <2> QED
    BY <2>4, <2>5
<1> QED
  BY <1>3 DEF Led, F

\* No list is longer than there are free blocks, as ranks decrease.
LEMMA ListEnds ==
  ASSUME NEW F, F = FreeOf(h.head), IsFiniteSet(F), F \subseteq Nat, 0 \notin F,
         NEW N, N = Cardinality(F), NEW r \in [Nat -> Nat], NEW i, NEW block, Led(block, i, r, N)
  PROVE  block[N] = 0
<1>0. \A n \in 0 .. N : /\ block[n] \in F \cup {0}
                        /\ \A k \in 0 .. N : k < n /\ block[n] # 0 =>
                             block[k] \in F /\ r[block[n]] < r[block[k]]
  BY DEF Led
<1>1. N \in Nat
  BY FS_CardinalityType
<1>2. SUFFICES ASSUME block[N] # 0 PROVE FALSE
  OBVIOUS
<1>3. \A n \in 0 .. N : block[n] \in F
  <2> TAKE n \in 0 .. N
  <2>1. CASE n = N
    BY <1>0, <1>1, <1>2, <2>1
  <2>2. CASE n # N
    <3>1. n < N /\ N \in 0 .. N
      BY <1>1, <2>2
    <3> QED
      BY <1>0, <1>2, <3>1
  <2> QED
    BY <2>1, <2>2
<1>4. \A n, k \in 0 .. N : k < n => block[n] # block[k]
  <2> TAKE n, k \in 0 .. N
  <2> HAVE k < n
  <2>1. block[n] \in F /\ block[k] \in F /\ block[n] # 0
    BY <1>3
  <2>2. r[block[n]] < r[block[k]]
    BY <1>0, <2>1
  <2>3. r[block[n]] \in Nat
    BY <2>1
  <2> QED
    BY <2>2, <2>3
<1> DEFINE S == 0 .. N
           f == [n \in S |-> block[n]]
<1>5. IsFiniteSet(S) /\ Cardinality(F) < Cardinality(S)
  <2>1. IsFiniteSet(0 .. N) /\ Cardinality(0 .. N) = IF 0 > N THEN 0 ELSE N - 0 + 1
    BY <1>1, FS_Interval
  <2> QED
    BY <1>1, <2>1
<1>6. f \in [S -> F]
  BY <1>3
<1>7. PICK x, y \in S : x # y /\ f[x] = f[y]
  <2> HIDE DEF S, f
  <2> QED
    BY <1>5, <1>6, FS_PigeonHole
<1>8. block[x] = block[y] /\ x \in 0 .. N /\ y \in 0 .. N /\ (x < y \/ y < x)
  BY <1>1, <1>7
<1> QED
  BY <1>4, <1>8

\* Every block of the size is listed: the back links lead to the bucket.
LEMMA AllListed ==
  ASSUME NEW r, NEW m, HeapOK(h, r, m), NEW i \in Buckets, NEW F, F = FreeOf(h.head),
         NEW N \in Nat, NEW block, Chain(block, i, N), block[N] = 0,
         NEW a \in F, Index(h, a) = i
  PROVE  \E n \in 0 .. N : block[n] = a
<1> DEFINE In(x) == \E n \in 0 .. N : block[n] = x
           T == {d \in Nat : \E x \in F : d = m - r[x] /\ Index(h, x) = i /\ ~ In(x)}
<1>1. /\ F \subseteq Nat \ {0} /\ r \in [Nat -> Nat] /\ DOMAIN h.nxt = F /\ m \in Nat
      /\ \A x \in F : r[x] < m
      /\ \A x \in F : h.nxt[x] # 0 => /\ h.nxt[x] \in F
                                      /\ Index(h, h.nxt[x]) = Index(h, x)
                                      /\ r[h.nxt[x]] < r[x]
      /\ \A x \in F : \/ h.prv[x] = BucketAddr(Index(h, x)) /\ h.bucket[Index(h, x)] = x
                      \/ h.prv[x] \in F /\ h.nxt[h.prv[x]] = x
  BY DEF HeapOK, Lists, Linked
<1>2. /\ DOMAIN block = 0 .. N /\ block[0] = h.bucket[i]
      /\ \A n \in 1 .. N : block[n] = Follower(block[n - 1])
  BY DEF Chain
<1>3. \A x \in F : r[x] \in Nat /\ m - r[x] \in Nat
  <2> TAKE x \in F
  <2>1. r[x] \in Nat /\ r[x] < m /\ m \in Nat
    BY <1>1
  <2> QED
    BY <2>1
<1>4. T = {}
  <2>1. SUFFICES ASSUME T # {} PROVE FALSE
    OBVIOUS
  <2>2. PICK d \in T : \A j \in T : d <= j
    <3>1. T \subseteq Nat
      OBVIOUS
    <3> HIDE DEF T
    <3> QED
      BY <2>1, <3>1, LeastOf
  <2>3. PICK x \in F : d = m - r[x] /\ Index(h, x) = i /\ ~ In(x)
    BY <2>2
  <2>4. CASE h.prv[x] = BucketAddr(Index(h, x)) /\ h.bucket[Index(h, x)] = x
    <3>1. block[0] = x
      BY <1>2, <2>3, <2>4
    <3> QED
      BY <2>3, <3>1
  <2>5. CASE h.prv[x] \in F /\ h.nxt[h.prv[x]] = x
    <3> DEFINE p == h.prv[x]
    <3>1. p \in F /\ h.nxt[p] = x /\ x # 0
      BY <1>1, <2>5
    <3>2. Index(h, p) = i /\ r[x] < r[p]
      BY <1>1, <2>3, <3>1
    <3> HIDE DEF p
    <3>3. m - r[p] \in Nat /\ m - r[p] < d
      <4>1. r[x] \in Nat /\ r[p] \in Nat /\ m - r[p] \in Nat /\ m \in Nat
        BY <1>1, <1>3, <3>1
      <4>2. m - r[p] < m - r[x]
        BY <3>2, <4>1
      <4> QED
        BY <2>3, <4>1, <4>2
    <3>4. m - r[p] \notin T
      <4>1. d \in Nat /\ ~ (d <= m - r[p])
        BY <2>2, <3>3
      <4> HIDE DEF T
      <4> QED
        BY <2>2, <4>1
    <3>5. In(p)
      BY <3>1, <3>2, <3>3, <3>4
    <3>6. PICK n \in 0 .. N : block[n] = p
      BY <3>5
    <3>7. n + 1 \in 1 .. N /\ (n + 1) - 1 = n
      <4>1. n # N
        BY <1>1, <3>1, <3>6
      <4> QED
        BY <4>1
    <3>8. block[n + 1] = Follower(p)
      BY <1>2, <3>6, <3>7
    <3>9. Follower(p) = x
      BY <1>1, <3>1 DEF Follower
    <3>10. n + 1 \in 0 .. N
      BY <3>7
    <3> QED
      BY <2>3, <3>8, <3>9, <3>10
  <2> QED
    BY <1>1, <2>4, <2>5
<1>5. m - r[a] \in Nat
  BY <1>3
<1> QED
  BY <1>4, <1>5

\* The lists have the free blocks and end.
LEMMA FreeListsAre == Good(h) => FreeListsExact
<1> SUFFICES ASSUME Good(h) PROVE FreeListsExact
  OBVIOUS
<1> DEFINE F == FreeBlocks
           N == Cardinality(F)
<1>1. PICK r, m : HeapOK(h, r, m)
  BY DEF Good
<1>2. IsFiniteSet(F) /\ N \in Nat /\ F = FreeOf(h.head)
  BY FreeFinite
<1>3. /\ F \subseteq Nat \ {0} /\ r \in [Nat -> Nat]
      /\ \A a \in F : Index(h, a) \in Buckets
      /\ \A a \in F : \/ h.prv[a] = BucketAddr(Index(h, a)) /\ h.bucket[Index(h, a)] = a
                      \/ h.prv[a] \in F /\ h.nxt[h.prv[a]] = a
  BY <1>1, <1>2 DEF HeapOK, Lists, Linked
<1> HIDE DEF F, N
<1>4. ASSUME NEW i \in Buckets
      PROVE  /\ BlockAt(i)[N] = 0
             /\ Bucketed(i) = {a \in F : BucketIndex(h.head[a].size) = i}
  <2> DEFINE block == BlockAt(i)
  <2>1. Chain(block, i, N)
    BY <1>2, BlockAtIs DEF N, F
  <2> HIDE DEF block
  <2>2. Led(block, i, r, N)
    BY <1>1, <1>2, <2>1, ListIs
  <2>3. /\ DOMAIN block = 0 .. N
        /\ \A n \in 0 .. N : block[n] \in F \cup {0} /\ (block[n] \in F => Index(h, block[n]) = i)
    BY <1>2, <2>1, <2>2 DEF Chain, Led
  <2>4. block[N] = 0
    <3>1. N = Cardinality(F)
      BY DEF N
    <3> QED
      BY <1>2, <1>3, <2>1, <2>2, <3>1, ListEnds
  <2>5. \A a \in F : Index(h, a) = i => \E n \in 0 .. N : block[n] = a
    BY <1>1, <1>2, <2>1, <2>4, AllListed
  <2>6. Range(block) \ {0} = {a \in F : Index(h, a) = i}
    <3>1. \A a \in Range(block) \ {0} : a \in F /\ Index(h, a) = i
      BY <2>3 DEF Range
    <3>2. \A a \in F : Index(h, a) = i => a \in Range(block) \ {0}
      BY <1>3, <2>3, <2>5 DEF Range
    <3> QED
      BY <3>1, <3>2
  <2>7. Bucketed(i) = {a \in F : BucketIndex(h.head[a].size) = i}
    BY <2>6 DEF Bucketed, Index, block
  <2> QED
    BY <2>4, <2>7 DEF block
<1>5. ASSUME NEW a \in F
      PROVE  IF h.prv[a] > 0 THEN h.prv[a] \in F /\ h.nxt[h.prv[a]] = a
             ELSE h.bucket[BucketIndex(h.head[a].size)] = a
               /\ h.prv[a] = BucketAddr(BucketIndex(h.head[a].size))
  <2> DEFINE i == Index(h, a)
  <2>1. i = BucketIndex(h.head[a].size)
    BY DEF Index
  <2> HIDE DEF i
  <2>2. i \in Buckets
    BY <1>3 DEF i
  <2>3. BucketAddr(i) < 0 /\ BucketAddr(i) \in Int
    BY <2>2, AddrIs
  <2>4. CASE h.prv[a] = BucketAddr(i) /\ h.bucket[i] = a
    BY <2>1, <2>3, <2>4
  <2>5. CASE h.prv[a] \in F /\ h.nxt[h.prv[a]] = a
    <3>1. h.prv[a] \in Nat \ {0}
      BY <1>3, <2>5
    <3>2. h.prv[a] > 0
      BY <3>1
    <3> QED
      BY <2>5, <3>2
  <2> QED
    BY <1>3, <2>4, <2>5 DEF i
<1> QED
  BY <1>4, <1>5 DEF FreeListsExact, F, N

\* Objects do not overlap.
LEMMA ObjectsApart ==
  ASSUME NEW g, Good(g), NEW f, f = ObjectsOf(g.head), NEW a \in DOMAIN f, NEW b \in DOMAIN f, a # b
  PROVE  (a .. a + f[a] - 1) \cap (b .. b + f[b] - 1) = {}
<1> DEFINE H == g.head
           t == Bounds(g)
           e == EndsOf(H)
<1>1. PICK r, m : HeapOK(g, r, m)
  BY DEF Good
<1>2. Laid(e, t.top) /\ DOMAIN e = DOMAIN H /\ \A x \in DOMAIN H : e[x] = x + RealSize(H[x])
  BY <1>1, HeapIs
<1>3. \A x \in DOMAIN f : x \in DOMAIN H /\ f[x] = UsedSize(H[x].size) /\ IsUsed(H[x])
  BY DEF ObjectsOf
<1>4. \A x \in DOMAIN f : RealSize(H[x]) = f[x]
  BY <1>3 DEF RealSize
<1> HIDE DEF H, e
<1>5. \A x \in DOMAIN f : x \in DOMAIN e /\ e[x] = x + f[x] /\ x \in Nat /\ e[x] \in Nat
  BY <1>2, <1>3, <1>4 DEF Laid
<1>6. \A x, y \in DOMAIN f : x < y => e[x] <= y
  BY <1>2, <1>5 DEF Laid
<1>7. f[a] \in Int /\ f[b] \in Int
  <2>1. \A x \in DOMAIN H : RealSize(H[x]) \in Nat
    <3>1. Tidy(H, g.dv, g.dvsize, t)
      BY <1>1 DEF HeapOK, H
    <3> HIDE DEF t
    <3> QED
      BY <3>1, TidyIs
  <2> QED
    BY <1>3, <1>4, <2>1
<1>8. a \in Nat /\ b \in Nat /\ e[a] = a + f[a] /\ e[b] = b + f[b]
  BY <1>5
<1>9. CASE a < b
  <2>1. a + f[a] <= b
    BY <1>6, <1>8, <1>9
  <2> QED
    BY <1>7, <1>8, <2>1
<1>10. CASE b < a
  <2>1. b + f[b] <= a
    BY <1>6, <1>8, <1>10
  <2> QED
    BY <1>7, <1>8, <2>1
<1> QED
  BY <1>8, <1>9, <1>10

\* In every heap the area reaches, the blocks of each subarea tile it, idle
\* neighbours are merged, tags and footers tell what is in front of an object,
\* and the free lists have the free blocks, each on the list of its size.
THEOREM BlocksAreExact == Spec => []BlocksExact
<1>1. Init => Good(h)
  BY InitIs
<1>2. Good(h) /\ [Next]_h => Good(h')
  BY StepIs
<1>3. Good(h) => BlocksExact
  BY TilingIs, CoalescedIs, TagsAre, FreeListsAre DEF BlocksExact
<1>4. Spec => []Good(h)
  <2>1. Good(h) /\ [Next]_h => Good(h)'
    BY <1>2 DEF Good
  <2> QED
    BY <1>1, <2>1, PTL DEF Spec
<1> QED
  BY <1>3, <1>4, PTL

\* The mapped variable of the abstract heap.
LEMMA MappedIs == [a \in Objects |-> UsedSize(h.head[a].size)] = ObjectsOf(h.head)
BY DEF Objects, ObjectsOf

\* Whatever comes and goes, every step adds one object that overlaps no other,
\* takes one away, or leaves all of them as they are.
THEOREM AreaImplementsObjectHeap == Spec => ImplementsObjectHeap
<1> DEFINE f == [a \in Objects |-> UsedSize(h.head[a].size)]
<1>1. Init => Good(h) /\ Abstract!Init
  BY InitIs, MappedIs DEF Abstract!Init
<1>2. ASSUME Good(h), [Next]_h PROVE Good(h)' /\ [Abstract!Next]_f
  <2> DEFINE k == f'
  <2>1. f = ObjectsOf(h.head) /\ k = ObjectsOf(h.head)'
    BY DEF Objects, ObjectsOf
  <2>2. /\ Good(h')
        /\ k = f \/ Comes(f, k) \/ Goes(f, k)
    BY <1>2, <2>1, StepIs
  <2>3. Good(h)'
    BY <2>2 DEF Good
  <2>4. CASE Comes(f, k)
    <3>1. PICK n \in Lengths, a \in Nat \ {0} : a \notin DOMAIN f /\ k = Put(f, a, UsedSize(n))
      BY <2>4 DEF Comes
    <3> HIDE DEF f, k
    <3>2. /\ DOMAIN k = DOMAIN f \cup {a} /\ k[a] = UsedSize(n)
          /\ \A x \in DOMAIN f : k[x] = f[x]
      BY <3>1 DEF Put
    <3>3. k = [b \in DOMAIN f \cup {a} |-> IF b = a THEN k[a] ELSE f[b]]
      BY <3>1 DEF Put
    <3>4. \A b \in DOMAIN f : (a .. a + k[a] - 1) \cap (b .. b + f[b] - 1) = {}
      <4> TAKE b \in DOMAIN f
      <4>1. k = ObjectsOf(h'.head)
        BY <2>1 DEF ObjectsOf, IsUsed, UsedSize
      <4>2. (a .. a + k[a] - 1) \cap (b .. b + k[b] - 1) = {}
        BY <2>2, <3>1, <3>2, <4>1, ObjectsApart
      <4> QED
        BY <3>2, <4>2
    <3>5. Abstract!Allocate(k[a], a)
      BY <3>1, <3>3, <3>4 DEF Abstract!Allocate, Abstract!Extent, f, k
    <3>6. Abstract!Next
      BY <3>1, <3>2, <3>5 DEF Abstract!Next, f, k
    <3> QED
      BY <2>3, <3>6
  <2>5. CASE Goes(f, k)
    <3>1. PICK o \in DOMAIN f : k = Without(f, o)
      BY <2>5 DEF Goes
    <3>2. Abstract!Release(o)
      BY <3>1 DEF Abstract!Release, Abstract!Restrict, Without, Restrict
    <3>3. Abstract!Next
      BY <3>1, <3>2 DEF Abstract!Next
    <3> QED
      BY <2>3, <3>3
  <2>6. CASE k = f
    BY <2>3, <2>6
  <2> QED
    BY <2>2, <2>4, <2>5, <2>6
<1> QED
  BY <1>1, <1>2, PTL DEF Spec, ImplementsObjectHeap, Abstract!Spec
=============================================================================
